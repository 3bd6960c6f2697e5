--------------------------- MODULE ReadBufferProofs ---------------------------
(***************************************************************************)
(* Proofs about module ReadBuffer, for buffers of any size and whatever    *)
(* the peer sends, however it is cut on its way.                           *)
(***************************************************************************)
EXTENDS ReadBuffer, VectorLemmas

-----------------------------------------------------------------------------
(* What is copied of a string.                                             *)

\* One byte of the string, after v was copied of the bytes before it.
CopyByte(v, b) == IF b = NewLine THEN v ELSE Append(v, b)

\* The function that Copied is defined with exists: there is one for every
\* part of the string.
LEMMA CopyingExists ==
    ASSUME NEW s, NEW n \in Nat
    PROVE  \E F : F = [i \in 0..n |-> IF i = 0 THEN <<>> ELSE CopyByte(F[i - 1], s[i])]
<1> DEFINE Good(g, m) == g = [i \in 0..m |-> IF i = 0 THEN <<>> ELSE CopyByte(g[i - 1], s[i])]
           T == {m \in 0..n : \E g : Good(g, m)}
<1>1. 0 \in T
  <2> DEFINE g == [i \in 0..0 |-> <<>>]
  <2>1. Good(g, 0)
    OBVIOUS
  <2> HIDE DEF g
  <2>2. \E f : Good(f, 0)
    BY <2>1
  <2> QED
    BY <2>2
<1>2. ASSUME NEW m \in 1..n, m - 1 \in T PROVE m \in T
  <2>1. PICK g : Good(g, m - 1)
    BY <1>2
  <2> DEFINE h == [i \in 0..m |-> IF i = 0 THEN <<>> ELSE CopyByte(g[i - 1], s[i])]
  <2>2. \A i \in 0..(m - 1) : h[i] = g[i]
    <3> TAKE i \in 0..(m - 1)
    <3>1. i \in 0..m
      OBVIOUS
    <3>2. g[i] = IF i = 0 THEN <<>> ELSE CopyByte(g[i - 1], s[i])
      BY <2>1
    <3> QED
      BY <3>1, <3>2
  <2>3. \A i \in 0..m : i # 0 => h[i - 1] = g[i - 1]
    <3> TAKE i \in 0..m
    <3>1. i # 0 => i - 1 \in 0..(m - 1)
      OBVIOUS
    <3> QED
      BY <2>2, <3>1
  <2>4. h = [i \in 0..m |-> IF i = 0 THEN <<>> ELSE CopyByte(h[i - 1], s[i])]
    <3> DEFINE k == [i \in 0..m |-> IF i = 0 THEN <<>> ELSE CopyByte(h[i - 1], s[i])]
    <3>1. ASSUME NEW i \in 0..m PROVE k[i] = h[i]
      <4>1. k[i] = IF i = 0 THEN <<>> ELSE CopyByte(h[i - 1], s[i])
        OBVIOUS
      <4>2. h[i] = IF i = 0 THEN <<>> ELSE CopyByte(g[i - 1], s[i])
        OBVIOUS
      <4> HIDE DEF h, k
      <4> QED
        BY <2>3, <4>1, <4>2
    <3>2. h = [i \in 0..m |-> h[i]] /\ k = [i \in 0..m |-> k[i]]
      OBVIOUS
    <3> HIDE DEF h, k
    <3>3. h = k
      BY <3>1, <3>2
    <3> QED
      BY <3>3 DEF k
  <2>5. Good(h, m)
    BY <2>4
  <2> HIDE DEF h
  <2> QED
    BY <2>5
<1> HIDE DEF T
<1>3. n \in T
  BY <1>1, <1>2, UptoInduction
<1> QED
  BY <1>3 DEF T

\* Copied is the last of the values that the loop of insertToBuffer computes.
LEMMA CopySteps ==
    ASSUME NEW s, Len(s) \in Nat
    PROVE  \E F : /\ F[0] = <<>>
                  /\ \A i \in 1..Len(s) : F[i] = CopyByte(F[i - 1], s[i])
                  /\ Copied(s) = F[Len(s)]
<1> DEFINE n == Len(s)
           F == CHOOSE F : F = [i \in 0..n |-> IF i = 0 THEN <<>>
                                               ELSE IF s[i] = NewLine THEN F[i - 1]
                                               ELSE Append(F[i - 1], s[i])]
<1>1. Copied(s) = F[n]
  BY DEF Copied
<1>2. \E G : G = [i \in 0..n |-> IF i = 0 THEN <<>>
                                 ELSE IF s[i] = NewLine THEN G[i - 1]
                                 ELSE Append(G[i - 1], s[i])]
  BY CopyingExists DEF CopyByte
<1>3. F = [i \in 0..n |-> IF i = 0 THEN <<>>
                          ELSE IF s[i] = NewLine THEN F[i - 1]
                          ELSE Append(F[i - 1], s[i])]
  BY <1>2
<1> HIDE DEF F
<1> HIDE <1>1, <1>2
<1>4. \A i \in 0..n : F[i] = IF i = 0 THEN <<>>
                             ELSE IF s[i] = NewLine THEN F[i - 1]
                             ELSE Append(F[i - 1], s[i])
  <2> DEFINE G(i) == IF i = 0 THEN <<>>
                     ELSE IF s[i] = NewLine THEN F[i - 1]
                     ELSE Append(F[i - 1], s[i])
  <2>1. F = [i \in 0..n |-> G(i)]
    BY <1>3
  <2> HIDE DEF G
  <2>2. \A i \in 0..n : F[i] = G(i)
    BY <2>1
  <2> QED
    BY <2>2 DEF G
<1>5. F[0] = <<>>
  BY <1>4
<1>6. ASSUME NEW i \in 1..n PROVE F[i] = CopyByte(F[i - 1], s[i])
  <2>1. i \in 0..n /\ i # 0
    OBVIOUS
  <2> QED
    BY <1>4, <2>1 DEF CopyByte
<1> QED
  BY <1>1, <1>5, <1>6


-----------------------------------------------------------------------------
(* How often a byte occurs.                                                *)

\* How often x occurs in s at the indices of D.
Times(s, D, x) == Cardinality({i \in D : s[i] = x})

LEMMA TimesIsNat ==
    ASSUME NEW s, NEW D, IsFiniteSet(D), NEW x
    PROVE  IsFiniteSet({i \in D : s[i] = x}) /\ Times(s, D, x) \in Nat
<1>1. {i \in D : s[i] = x} \in SUBSET D
  OBVIOUS
<1>2. IsFiniteSet({i \in D : s[i] = x})
  BY <1>1, FS_Subset
<1> QED
  BY <1>2, FS_CardinalityType DEF Times

\* What u has at the indices of D, v has at other indices of E.
LEMMA TimesInjection ==
    ASSUME NEW u, NEW D, NEW v, NEW E, IsFiniteSet(E), NEW h \in [D -> E],
           \A k, l \in D : h[k] = h[l] => k = l,
           \A k \in D : u[k] = v[h[k]], NEW x
    PROVE  Times(u, D, x) <= Times(v, E, x)
<1> DEFINE U == {k \in D : u[k] = x}
           V == {k \in E : v[k] = x}
           f == [k \in U |-> h[k]]
<1>1. f \in [U -> V]
  OBVIOUS
<1>2. f \in Injection(U, V)
  BY <1>1 DEF Injection, IsInjective
<1>3. IsFiniteSet(V)
  BY TimesIsNat
<1> HIDE DEF f, U, V
<1>4. Cardinality(U) <= Cardinality(V)
  BY <1>2, <1>3, FS_Injection
<1> QED
  BY <1>4 DEF Times, U, V

\* At indices of two sets together.
LEMMA TimesUnion ==
    ASSUME NEW s, NEW D, NEW E, IsFiniteSet(D), IsFiniteSet(E), NEW x
    PROVE  /\ Times(s, D \cup E, x) <= Times(s, D, x) + Times(s, E, x)
           /\ D \cap E = {} => Times(s, D \cup E, x) = Times(s, D, x) + Times(s, E, x)
<1> DEFINE U == {i \in D : s[i] = x}
           V == {i \in E : s[i] = x}
           W == {i \in D \cup E : s[i] = x}
<1>1. IsFiniteSet(U) /\ IsFiniteSet(V) /\ W = U \cup V
  BY TimesIsNat
<1>2. D \cap E = {} => U \cap V = {}
  OBVIOUS
<1>3. IsFiniteSet(U \cap V)
  <2>1. U \cap V \in SUBSET U
    OBVIOUS
  <2> QED
    BY <1>1, <2>1, FS_Subset
<1> HIDE DEF U, V, W
<1>4. Cardinality(W) = Cardinality(U) + Cardinality(V) - Cardinality(U \cap V)
  BY <1>1, FS_Union
<1>5. Cardinality(U) \in Nat /\ Cardinality(V) \in Nat /\ Cardinality(U \cap V) \in Nat
  BY <1>1, <1>3, FS_CardinalityType
<1>6. U \cap V = {} => Cardinality(U \cap V) = 0
  BY FS_EmptySet
<1> QED
  BY <1>2, <1>4, <1>5, <1>6 DEF Times, U, V, W

LEMMA CountIsTimes == ASSUME NEW s, NEW x PROVE Count(s, x) = Times(s, DOMAIN s, x)
BY DEF Count, Times

-----------------------------------------------------------------------------
(* What is read of the bytes that were received.                           *)

\* A string ends before the first Nul.
LEMMA CStringProperties ==
    ASSUME NEW b \in Seq(Byte)
    PROVE  LET s == CString(b)
           IN  /\ s \in Seq(Byte) /\ Len(s) <= Len(b)
               /\ \A i \in 1..Len(s) : s[i] = b[i] /\ s[i] # Nul
               /\ Len(s) < Len(b) => b[Len(s) + 1] = Nul
<1> DEFINE ends == {i \in DOMAIN b : b[i] = Nul}
           m == IF ends = {} THEN Len(b) ELSE Min(ends) - 1
           s == SubSeq(b, 1, m)
<1>1. Len(b) \in Nat /\ DOMAIN b = 1..Len(b) /\ \A i \in 1..Len(b) : b[i] \in Byte
  BY ElementOfSeq
<1>2. /\ m \in 0..Len(b) /\ \A i \in 1..m : b[i] # Nul
      /\ m < Len(b) => b[m + 1] = Nul
  <2>1. CASE ends = {}
    BY <1>1, <2>1
  <2>2. CASE ends # {}
    <3>1. ends \subseteq Nat
      BY <1>1
    <3>2. Min(ends) \in ends /\ \A y \in ends : Min(ends) <= y
      BY <2>2, <3>1, MinProperties
    <3>3. m = Min(ends) - 1
      BY <2>2
    <3>4. Min(ends) \in 1..Len(b) /\ b[Min(ends)] = Nul
      BY <1>1, <3>2
    <3>5. ASSUME NEW i \in 1..m PROVE b[i] # Nul
      <4>1. i \in DOMAIN b /\ ~(Min(ends) <= i)
        BY <1>1, <3>3, <3>4
      <4> QED
        BY <3>2, <4>1
    <3> HIDE DEF ends, m
    <3> QED
      BY <3>3, <3>4, <3>5
  <2> QED
    BY <2>1, <2>2
<1> HIDE DEF m
<1>3. /\ s \in Seq(Byte) /\ Len(s) = m /\ \A i \in 1..m : s[i] = b[i]
  <2>1. \A i \in 1..m : b[i] \in Byte
    BY <1>1, <1>2
  <2>2. /\ s \in Seq(Byte)
        /\ Len(s) = IF 1 <= m THEN m - 1 + 1 ELSE 0
        /\ \A i \in 1..(m - 1 + 1) : s[i] = b[1 + i - 1]
    BY <1>1, <1>2, <2>1, SubSeqProperties
  <2> QED
    BY <1>2, <2>2
<1>4. CString(b) = s
  BY DEF CString, m
<1> HIDE DEF s
<1> QED
  BY <1>1, <1>2, <1>3, <1>4

\* u is part of s: it has no newlines, and its bytes are those of s at other
\* indices up to m each.
PartOf(u, s, m) ==
    /\ u \in Seq(Byte) /\ Len(u) <= m
    /\ \E h \in [1..Len(u) -> 1..m] :
          /\ \A k, l \in 1..Len(u) : h[k] = h[l] => k = l
          /\ \A k \in 1..Len(u) : u[k] = s[h[k]]

LEMMA CopyPart ==
    ASSUME NEW s, NEW m \in Nat \ {0}, s[m] \in Byte, NEW u, PartOf(u, s, m - 1)
    PROVE  PartOf(CopyByte(u, s[m]), s, m)
<1>1. u \in Seq(Byte) /\ Len(u) <= m - 1 /\ Len(u) \in Nat
  BY DEF PartOf
<1>2. PICK h \in [1..Len(u) -> 1..(m - 1)] :
         /\ \A k, l \in 1..Len(u) : h[k] = h[l] => k = l
         /\ \A k \in 1..Len(u) : u[k] = s[h[k]]
  BY DEF PartOf
<1>3. CASE s[m] = NewLine
  <2>1. h \in [1..Len(u) -> 1..m]
    BY <1>2
  <2>2. CopyByte(u, s[m]) = u /\ Len(u) <= m
    BY <1>1, <1>3 DEF CopyByte
  <2>3. PartOf(u, s, m)
    BY <1>1, <1>2, <2>1, <2>2 DEF PartOf
  <2> QED
    BY <2>2, <2>3
<1>4. CASE s[m] # NewLine
  <2> DEFINE v == Append(u, s[m])
             g == [k \in 1..(Len(u) + 1) |-> IF k <= Len(u) THEN h[k] ELSE m]
  <2>1. /\ v \in Seq(Byte) /\ Len(v) = Len(u) + 1
        /\ \A k \in 1..Len(u) : v[k] = u[k]
        /\ v[Len(u) + 1] = s[m]
    BY <1>1, AppendElements
  <2> HIDE DEF v
  <2>2. \A k \in 1..(Len(u) + 1) : k \in 1..Len(u) \/ k = Len(u) + 1
    BY <1>1
  <2>3. /\ \A k \in 1..Len(u) : g[k] = h[k] /\ g[k] \in 1..m /\ g[k] # m
        /\ g[Len(u) + 1] = m
    BY <1>1, <1>2
  <2>4. g \in [1..Len(v) -> 1..m]
    <3>1. m \in 1..m
      OBVIOUS
    <3>2. \A k \in 1..(Len(u) + 1) : g[k] \in 1..m
      BY <2>2, <2>3, <3>1
    <3> QED
      BY <2>1, <3>2
  <2> HIDE DEF g
  <2>5. \A k, l \in 1..Len(v) : g[k] = g[l] => k = l
    <3> SUFFICES ASSUME NEW k \in 1..Len(v), NEW l \in 1..Len(v), g[k] = g[l]
                 PROVE  k = l
      OBVIOUS
    <3>1. /\ k \in 1..Len(u) \/ k = Len(u) + 1
          /\ l \in 1..Len(u) \/ l = Len(u) + 1
      BY <2>1, <2>2
    <3>2. CASE k \in 1..Len(u) /\ l \in 1..Len(u)
      BY <1>2, <2>3, <3>2
    <3> QED
      BY <2>3, <3>1, <3>2
  <2>6. \A k \in 1..Len(v) : v[k] = s[g[k]]
    BY <1>2, <2>1, <2>2, <2>3
  <2>7. CopyByte(u, s[m]) = v /\ Len(v) <= m
    BY <1>1, <1>4, <2>1 DEF CopyByte, v
  <2> QED
    BY <2>1, <2>4, <2>5, <2>6, <2>7 DEF PartOf
<1> QED
  BY <1>3, <1>4

LEMMA CopiedIsPart == ASSUME NEW s \in Seq(Byte) PROVE PartOf(Copied(s), s, Len(s))
<1>1. Len(s) \in Nat /\ \A i \in 1..Len(s) : s[i] \in Byte
  BY ElementOfSeq
<1>2. PICK F : /\ F[0] = <<>>
               /\ \A i \in 1..Len(s) : F[i] = CopyByte(F[i - 1], s[i])
               /\ Copied(s) = F[Len(s)]
  BY <1>1, CopySteps
<1> DEFINE T == {i \in 0..Len(s) : PartOf(F[i], s, i)}
<1>3. 0 \in T
  <2> DEFINE h == [k \in 1..0 |-> k]
  <2>1. /\ h \in [1..Len(<<>>) -> 1..0]
        /\ \A k, l \in 1..Len(<<>>) : h[k] = h[l] => k = l
        /\ \A k \in 1..Len(<<>>) : <<>>[k] = s[h[k]]
    OBVIOUS
  <2>2. <<>> \in Seq(Byte) /\ Len(<<>>) <= 0
    OBVIOUS
  <2> HIDE DEF h
  <2>3. PartOf(<<>>, s, 0)
    BY <2>1, <2>2 DEF PartOf
  <2> QED
    BY <1>1, <1>2, <2>3
<1>4. ASSUME NEW i \in 1..Len(s), i - 1 \in T PROVE i \in T
  <2>1. PartOf(F[i - 1], s, i - 1) /\ s[i] \in Byte /\ i \in Nat \ {0} /\ i \in 0..Len(s)
    BY <1>1, <1>4
  <2>2. PartOf(CopyByte(F[i - 1], s[i]), s, i)
    BY <2>1, CopyPart
  <2> QED
    BY <1>2, <2>1, <2>2
<1> HIDE DEF T
<1>5. \A i \in 0..Len(s) : i \in T
  BY <1>1, <1>3, <1>4, UptoInduction
<1>6. Len(s) \in T
  BY <1>1, <1>5
<1> QED
  BY <1>2, <1>6 DEF T

\* The text that is copied of received bytes is no longer than they are, has
\* no Nul in it, and has nothing more often than they have.
LEMMA TextProperties ==
    ASSUME NEW b \in Seq(Byte)
    PROVE  /\ Text(b) \in Seq(Byte) /\ Len(Text(b)) <= Len(b)
           /\ \A k \in 1..Len(Text(b)) : Text(b)[k] # Nul
           /\ \A x : Count(Text(b), x) <= Count(b, x)
<1> DEFINE s == CString(b)
           u == Text(b)
<1>1. /\ s \in Seq(Byte) /\ Len(s) <= Len(b) /\ Len(s) \in Nat /\ Len(b) \in Nat
      /\ \A i \in 1..Len(s) : s[i] = b[i] /\ s[i] # Nul
  BY CStringProperties
<1> HIDE DEF s
<1>2. PartOf(u, s, Len(s))
  BY <1>1, CopiedIsPart DEF Text, s
<1> HIDE DEF u
<1>3. u \in Seq(Byte) /\ Len(u) <= Len(s) /\ Len(u) \in Nat /\ DOMAIN u = 1..Len(u)
  BY <1>2, LenProperties DEF PartOf
<1>4. PICK h \in [1..Len(u) -> 1..Len(s)] :
         /\ \A k, l \in 1..Len(u) : h[k] = h[l] => k = l
         /\ \A k \in 1..Len(u) : u[k] = s[h[k]]
  BY <1>2 DEF PartOf
<1>5. \A k \in 1..Len(u) : u[k] = b[h[k]] /\ u[k] # Nul
  BY <1>1, <1>4
<1>6. h \in [1..Len(u) -> 1..Len(b)]
  <2>1. \A k \in 1..Len(s) : k \in 1..Len(b)
    BY <1>1
  <2> QED
    BY <1>4, <2>1
<1>7. IsFiniteSet(1..Len(b)) /\ DOMAIN b = 1..Len(b)
  BY <1>1, FS_Interval
<1>8. ASSUME NEW x PROVE Count(u, x) <= Count(b, x)
  <2>1. Times(u, 1..Len(u), x) <= Times(b, 1..Len(b), x)
    BY <1>4, <1>5, <1>6, <1>7, TimesInjection
  <2> QED
    BY <1>3, <1>7, <2>1, CountIsTimes
<1> QED
  BY <1>1, <1>3, <1>5, <1>8 DEF u

\* What is copied into the class buffer is at most what the text has and what
\* the buffer had.
LEMMA InsertCount ==
    ASSUME buffer \in [1..SizeBuff -> Byte], NEW t \in Seq(Byte), NEW x
    PROVE  Count(InsertToBuffer(t), x) <= Count(t, x) + Count(buffer, x)
<1> DEFINE I == 1..SizeBuff
           b == InsertToBuffer(t)
           D == {i \in I : i \in DOMAIN t}
           E == I \ D
<1>1. /\ IsFiniteSet(I) /\ IsFiniteSet(DOMAIN t)
      /\ DOMAIN b = I /\ DOMAIN buffer = I
      /\ \A i \in I : b[i] = IF i \in DOMAIN t THEN t[i] ELSE buffer[i]
  <2>1. DOMAIN t = 1..Len(t) /\ Len(t) \in Nat
    BY LenProperties
  <2> QED
    BY <2>1, FS_Interval, SizesAssumption DEF InsertToBuffer
<1> HIDE DEF b
<1>2. D \in SUBSET I /\ E \in SUBSET I /\ D \cup E = I /\ D \cap E = {}
  OBVIOUS
<1>3. IsFiniteSet(D) /\ IsFiniteSet(E)
  BY <1>1, <1>2, FS_Subset
<1>4. \A i \in D : i \in DOMAIN t /\ b[i] = t[i]
  BY <1>1
<1>5. \A i \in E : i \in I /\ b[i] = buffer[i]
  BY <1>1
<1> HIDE DEF D, E, I
<1>6. Times(b, I, x) = Times(b, D, x) + Times(b, E, x)
  BY <1>2, <1>3, TimesUnion
<1>7. Times(b, D, x) <= Times(t, DOMAIN t, x)
  <2> DEFINE h == [i \in D |-> i]
  <2>1. h \in [D -> DOMAIN t] /\ (\A k, l \in D : h[k] = h[l] => k = l)
        /\ \A k \in D : b[k] = t[h[k]]
    BY <1>4
  <2> HIDE DEF h
  <2> QED
    BY <1>1, <2>1, TimesInjection
<1>8. Times(b, E, x) <= Times(buffer, I, x)
  <2> DEFINE h == [i \in E |-> i]
  <2>1. h \in [E -> I] /\ (\A k, l \in E : h[k] = h[l] => k = l)
        /\ \A k \in E : b[k] = buffer[h[k]]
    BY <1>5
  <2> HIDE DEF h
  <2> QED
    BY <1>1, <2>1, TimesInjection
<1>9. /\ Times(b, D, x) \in Nat /\ Times(b, E, x) \in Nat
      /\ Times(t, DOMAIN t, x) \in Nat /\ Times(buffer, I, x) \in Nat
  BY <1>1, <1>3, TimesIsNat
<1> QED
  BY <1>1, <1>6, <1>7, <1>8, <1>9, CountIsTimes DEF b

-----------------------------------------------------------------------------
(* What is parsed, and parts of what is copied and parsed.                 *)

Nothing == [done |-> <<>>, open |-> <<>>]

\* The states of the parser.
Found == [done : Seq(Seq(Byte)), open : Seq(Byte)]

LEMMA ParseByteType ==
    ASSUME NEW p \in Found, NEW b \in Byte PROVE ParseByte(p, b) \in Found
<1>1. p.done \in Seq(Seq(Byte)) /\ p.open \in Seq(Byte)
  BY DEF Found
<1>2. CASE b = "{"
  <2>1. ParseByte(p, b) = [p EXCEPT !.open = <<>>]
    BY <1>2 DEF ParseByte
  <2>2. <<>> \in Seq(Byte)
    OBVIOUS
  <2> QED
    BY <2>1, <2>2 DEF Found
<1>3. CASE b = "}"
  <2>1. ParseByte(p, b) = [done |-> Append(p.done, p.open), open |-> <<>>]
    BY <1>3 DEF ParseByte
  <2>2. <<>> \in Seq(Byte)
    OBVIOUS
  <2>3. Append(p.done, p.open) \in Seq(Seq(Byte))
    BY <1>1, AppendProperties
  <2> QED
    BY <2>1, <2>2, <2>3 DEF Found
<1>4. CASE b # "{" /\ b # "}"
  <2>1. ParseByte(p, b) = [p EXCEPT !.open = Append(p.open, b)]
    BY <1>4 DEF ParseByte
  <2>2. Append(p.open, b) \in Seq(Byte)
    BY <1>1, AppendProperties
  <2> QED
    BY <2>1, <2>2 DEF Found
<1> QED
  BY <1>2, <1>3, <1>4

\* The function that ParseMsg is defined with exists: there is one for every
\* part of the message.
LEMMA ParsingExists ==
    ASSUME NEW s, NEW n \in Nat
    PROVE  \E F : F = [i \in 0..n |-> IF i = 0 THEN Nothing ELSE ParseByte(F[i - 1], s[i])]
<1> DEFINE Good(g, m) == g = [i \in 0..m |-> IF i = 0 THEN Nothing ELSE ParseByte(g[i - 1], s[i])]
           T == {m \in 0..n : \E g : Good(g, m)}
<1>1. 0 \in T
  <2> DEFINE g == [i \in 0..0 |-> Nothing]
  <2>1. Good(g, 0)
    OBVIOUS
  <2> HIDE DEF g
  <2>2. \E f : Good(f, 0)
    BY <2>1
  <2> QED
    BY <2>2
<1>2. ASSUME NEW m \in 1..n, m - 1 \in T PROVE m \in T
  <2>1. PICK g : Good(g, m - 1)
    BY <1>2
  <2> DEFINE h == [i \in 0..m |-> IF i = 0 THEN Nothing ELSE ParseByte(g[i - 1], s[i])]
  <2>2. \A i \in 0..(m - 1) : h[i] = g[i]
    <3> TAKE i \in 0..(m - 1)
    <3>1. i \in 0..m
      OBVIOUS
    <3>2. g[i] = IF i = 0 THEN Nothing ELSE ParseByte(g[i - 1], s[i])
      BY <2>1
    <3> QED
      BY <3>1, <3>2
  <2>3. \A i \in 0..m : i # 0 => h[i - 1] = g[i - 1]
    <3> TAKE i \in 0..m
    <3>1. i # 0 => i - 1 \in 0..(m - 1)
      OBVIOUS
    <3> QED
      BY <2>2, <3>1
  <2>4. h = [i \in 0..m |-> IF i = 0 THEN Nothing ELSE ParseByte(h[i - 1], s[i])]
    <3> DEFINE k == [i \in 0..m |-> IF i = 0 THEN Nothing ELSE ParseByte(h[i - 1], s[i])]
    <3>1. ASSUME NEW i \in 0..m PROVE k[i] = h[i]
      <4>1. k[i] = IF i = 0 THEN Nothing ELSE ParseByte(h[i - 1], s[i])
        OBVIOUS
      <4>2. h[i] = IF i = 0 THEN Nothing ELSE ParseByte(g[i - 1], s[i])
        OBVIOUS
      <4> HIDE DEF h, k
      <4> QED
        BY <2>3, <4>1, <4>2
    <3>2. h = [i \in 0..m |-> h[i]] /\ k = [i \in 0..m |-> k[i]]
      OBVIOUS
    <3> HIDE DEF h, k
    <3>3. h = k
      BY <3>1, <3>2
    <3> QED
      BY <3>3 DEF k
  <2>5. Good(h, m)
    BY <2>4
  <2> HIDE DEF h
  <2> QED
    BY <2>5
<1> HIDE DEF T
<1>3. n \in T
  BY <1>1, <1>2, UptoInduction
<1> QED
  BY <1>3 DEF T

\* ParseMsg is what the loop of the parser has found at the last byte.
LEMMA ParseSteps ==
    ASSUME NEW s \in Seq(Byte)
    PROVE  \E F : /\ F[0] = Nothing
                  /\ \A i \in 1..Len(s) : F[i] = ParseByte(F[i - 1], s[i])
                  /\ \A i \in 0..Len(s) : F[i] \in Found
                  /\ ParseMsg(s) = F[Len(s)].done
<1>0. Len(s) \in Nat /\ \A i \in 1..Len(s) : s[i] \in Byte
  BY ElementOfSeq
<1> DEFINE n == Len(s)
           F == CHOOSE F : F = [i \in 0..n |-> IF i = 0 THEN [done |-> <<>>, open |-> <<>>]
                                               ELSE ParseByte(F[i - 1], s[i])]
<1>1. ParseMsg(s) = F[n].done
  BY DEF ParseMsg
<1>2. \E G : G = [i \in 0..n |-> IF i = 0 THEN [done |-> <<>>, open |-> <<>>]
                                 ELSE ParseByte(G[i - 1], s[i])]
  BY <1>0, ParsingExists DEF Nothing
<1>3. F = [i \in 0..n |-> IF i = 0 THEN [done |-> <<>>, open |-> <<>>]
                          ELSE ParseByte(F[i - 1], s[i])]
  BY <1>2
<1> HIDE DEF F
<1> HIDE <1>1, <1>2
<1>4. \A i \in 0..n : F[i] = IF i = 0 THEN Nothing ELSE ParseByte(F[i - 1], s[i])
  <2> DEFINE G(i) == IF i = 0 THEN [done |-> <<>>, open |-> <<>>] ELSE ParseByte(F[i - 1], s[i])
  <2>1. F = [i \in 0..n |-> G(i)]
    BY <1>3
  <2> HIDE DEF G
  <2>2. \A i \in 0..n : F[i] = G(i)
    BY <2>1
  <2> QED
    BY <2>2 DEF G, Nothing
<1> HIDE <1>3
<1>5. F[0] = Nothing
  BY <1>0, <1>4
<1>6. ASSUME NEW i \in 1..n PROVE F[i] = ParseByte(F[i - 1], s[i])
  <2>1. i \in 0..n /\ i # 0
    BY <1>0
  <2> QED
    BY <1>4, <2>1
<1> DEFINE T == {i \in 0..n : F[i] \in Found}
<1>7. 0 \in T
  <2>1. Nothing \in Found
    BY DEF Nothing, Found
  <2> QED
    BY <1>0, <1>5, <2>1
<1>8. ASSUME NEW i \in 1..n, i - 1 \in T PROVE i \in T
  <2>1. F[i - 1] \in Found /\ s[i] \in Byte /\ i \in 0..n
    BY <1>0, <1>8
  <2>2. ParseByte(F[i - 1], s[i]) \in Found
    BY <2>1, ParseByteType
  <2> QED
    BY <1>6, <2>1, <2>2
<1> HIDE DEF T
<1>9. \A i \in 0..n : i \in T
  BY <1>0, <1>7, <1>8, UptoInduction
<1>10. \A i \in 0..n : F[i] \in Found
  BY <1>9 DEF T
<1> QED
  BY <1>1, <1>5, <1>6, <1>10

LEMMA ParsedType == ASSUME NEW s \in Seq(Byte) PROVE ParseMsg(s) \in Seq(Seq(Byte))
<1>1. Len(s) \in Nat
  BY LenProperties
<1>2. PICK F : /\ \A i \in 0..Len(s) : F[i] \in Found
               /\ ParseMsg(s) = F[Len(s)].done
  BY ParseSteps
<1>3. F[Len(s)] \in Found
  BY <1>1, <1>2
<1> QED
  BY <1>2, <1>3 DEF Found

\* What is appended to a whole is appended to its second part.
LEMMA AppendByte ==
    ASSUME NEW u \in Seq(Byte), NEW v \in Seq(Byte), NEW x \in Byte
    PROVE  Append(u \o v, x) = u \o Append(v, x)
<1>1. <<x>> \in Seq(Byte) /\ u \o v \in Seq(Byte)
  BY ConcatProperties
<1>2. Append(u \o v, x) = (u \o v) \o <<x>> /\ Append(v, x) = v \o <<x>>
  BY <1>1, AppendIsConcat
<1> QED
  BY <1>1, <1>2, ConcatAssociative

LEMMA AppendRequest ==
    ASSUME NEW u \in Seq(Seq(Byte)), NEW v \in Seq(Seq(Byte)), NEW x \in Seq(Byte)
    PROVE  Append(u \o v, x) = u \o Append(v, x)
<1>1. <<x>> \in Seq(Seq(Byte)) /\ u \o v \in Seq(Seq(Byte))
  BY ConcatProperties
<1>2. Append(u \o v, x) = (u \o v) \o <<x>> /\ Append(v, x) = v \o <<x>>
  BY <1>1, AppendIsConcat
<1> QED
  BY <1>1, <1>2, ConcatAssociative

\* What is copied of two strings, one behind the other.
LEMMA CopiedConcat ==
    ASSUME NEW a \in Seq(Byte), NEW b \in Seq(Byte)
    PROVE  Copied(a \o b) = Copied(a) \o Copied(b)
<1> DEFINE c == a \o b
           n == Len(a)
           m == Len(b)
<1>1. /\ n \in Nat /\ m \in Nat /\ c \in Seq(Byte) /\ Len(c) = n + m
      /\ \A i \in 1..n : c[i] = a[i]
      /\ \A j \in 1..m : b[j] \in Byte /\ c[n + j] = b[j]
  <2>1. /\ n \in Nat /\ m \in Nat /\ \A j \in 1..m : b[j] \in Byte
    BY ElementOfSeq
  <2>2. /\ c \in Seq(Byte) /\ Len(c) = n + m
        /\ \A i \in 1..(n + m) : c[i] = IF i <= n THEN a[i] ELSE b[i - n]
    BY ConcatProperties
  <2> HIDE DEF c, n, m
  <2>3. \A j \in 1..m : n + j \in 1..(n + m) /\ ~(n + j <= n) /\ (n + j) - n = j
    BY <2>1
  <2>4. \A i \in 1..n : i \in 1..(n + m) /\ i <= n
    BY <2>1
  <2> QED
    BY <2>1, <2>2, <2>3, <2>4
<1> HIDE DEF c
<1>2. PICK F : /\ F[0] = <<>> /\ \A i \in 1..n : F[i] = CopyByte(F[i - 1], a[i])
               /\ Copied(a) = F[n]
  BY <1>1, CopySteps
<1>3. PICK H : /\ H[0] = <<>> /\ \A i \in 1..m : H[i] = CopyByte(H[i - 1], b[i])
               /\ Copied(b) = H[m]
  BY <1>1, CopySteps
<1>4. PICK G : /\ G[0] = <<>> /\ \A i \in 1..(n + m) : G[i] = CopyByte(G[i - 1], c[i])
               /\ Copied(c) = G[n + m]
  <2>1. Len(c) \in Nat
    BY <1>1
  <2>2. \E G : /\ G[0] = <<>> /\ \A i \in 1..Len(c) : G[i] = CopyByte(G[i - 1], c[i])
               /\ Copied(c) = G[Len(c)]
    BY <2>1, CopySteps
  <2> QED
    BY <1>1, <2>2
<1>5. Copied(a) \in Seq(Byte)
  BY CopiedIsPart DEF PartOf
<1> HIDE DEF n, m
<1>6. G[n] = Copied(a)
  <2> DEFINE U == {i \in 0..n : G[i] = F[i]}
  <2>1. 0 \in U
    BY <1>1, <1>2, <1>4
  <2>2. ASSUME NEW i \in 1..n, i - 1 \in U PROVE i \in U
    <3>1. i \in 1..(n + m) /\ i \in 0..n /\ c[i] = a[i] /\ G[i - 1] = F[i - 1]
      BY <1>1, <2>2
    <3>2. G[i] = CopyByte(G[i - 1], c[i]) /\ F[i] = CopyByte(F[i - 1], a[i])
      BY <1>2, <1>4, <3>1
    <3> QED
      BY <3>1, <3>2
  <2> HIDE DEF U
  <2>3. \A i \in 0..n : i \in U
    BY <1>1, <2>1, <2>2, UptoInduction
  <2>4. n \in U
    BY <1>1, <2>3
  <2> QED
    BY <1>2, <2>4 DEF U
<1> DEFINE d == Copied(a)
           Same(j) == H[j] \in Seq(Byte) /\ G[n + j] = d \o H[j]
           T == {j \in 0..m : Same(j)}
<1>7. d \in Seq(Byte) /\ G[n] = d
  BY <1>5, <1>6
<1> HIDE DEF d
<1>8. 0 \in T
  <2>1. <<>> \in Seq(Byte) /\ d \o <<>> = d
    BY <1>7, ConcatEmptySeq
  <2>2. n + 0 = n /\ 0 \in 0..m
    BY <1>1
  <2>3. Same(0)
    BY <1>3, <1>7, <2>1, <2>2
  <2> HIDE DEF Same
  <2> QED
    BY <2>2, <2>3
<1>9. ASSUME NEW j \in 1..m, j - 1 \in T PROVE j \in T
  <2>1. b[j] \in Byte /\ c[n + j] = b[j] /\ j \in 0..m /\ Same(j - 1)
    <3> HIDE DEF Same
    <3> QED
      BY <1>1, <1>9
  <2>2. n + j \in 1..(n + m) /\ (n + j) - 1 = n + (j - 1)
    BY <1>1
  <2>3. /\ H[j - 1] \in Seq(Byte)
        /\ G[n + j] = CopyByte(d \o H[j - 1], b[j]) /\ H[j] = CopyByte(H[j - 1], b[j])
    BY <1>3, <1>4, <2>1, <2>2
  <2>4. CASE b[j] = NewLine
    BY <2>1, <2>3, <2>4 DEF CopyByte
  <2>5. CASE b[j] # NewLine
    <3>1. /\ G[n + j] = Append(d \o H[j - 1], b[j])
          /\ H[j] = Append(H[j - 1], b[j])
      BY <2>3, <2>5 DEF CopyByte
    <3>2. H[j - 1] \in Seq(Byte) /\ b[j] \in Byte
      BY <2>1, <2>3
    <3>3. Append(d \o H[j - 1], b[j]) = d \o Append(H[j - 1], b[j])
      BY <1>7, <3>2, AppendByte
    <3>4. Append(H[j - 1], b[j]) \in Seq(Byte)
      BY <3>2, AppendProperties
    <3>5. Same(j)
      BY <3>1, <3>3, <3>4
    <3> QED
      BY <2>1, <3>5
  <2> QED
    BY <2>4, <2>5
<1> HIDE DEF T, Same
<1>10. m \in T
  <2>1. \A j \in 0..m : j \in T
    BY <1>1, <1>8, <1>9, UptoInduction
  <2> QED
    BY <1>1, <2>1
<1>11. Same(m)
  BY <1>10 DEF T
<1> QED
  BY <1>3, <1>4, <1>11 DEF c, d, Same

Opens(msg) == msg # <<>> /\ msg[1] = "{"

\* A bracket that opens begins a request anew.
LEMMA ParseOpening ==
    ASSUME NEW b, NEW j, Opens(b), j = 1, NEW p
    PROVE  ParseByte(p, b[j]) = [p EXCEPT !.open = <<>>]
<1>1. b[j] = "{"
  BY Zenon DEF Opens
<1>2. \A x : x = "{" => ParseByte(p, x) = [p EXCEPT !.open = <<>>]
  BY DEF ParseByte
<1> QED
  BY <1>1, <1>2, Zenon

\* A byte is added alike, whatever was found before.
LEMMA ParseByteAlike ==
    ASSUME NEW d \in Seq(Seq(Byte)), NEW p \in Found, NEW q \in Found, NEW x \in Byte,
           p.done = d \o q.done, p.open = q.open
    PROVE  /\ ParseByte(p, x).done = d \o ParseByte(q, x).done
           /\ ParseByte(p, x).open = ParseByte(q, x).open
<1>1. q.done \in Seq(Seq(Byte)) /\ q.open \in Seq(Byte)
  BY DEF Found
<1>2. CASE x = "{"
  BY <1>2 DEF ParseByte, Found
<1>3. CASE x = "}"
  <2>1. Append(d \o q.done, q.open) = d \o Append(q.done, q.open)
    BY <1>1, AppendRequest
  <2>2. /\ ParseByte(p, x) = [done |-> Append(p.done, p.open), open |-> <<>>]
        /\ ParseByte(q, x) = [done |-> Append(q.done, q.open), open |-> <<>>]
    BY <1>3 DEF ParseByte
  <2>3. /\ ParseByte(p, x).done = Append(p.done, p.open)
        /\ ParseByte(q, x).done = Append(q.done, q.open)
    BY <2>2
  <2>4. ParseByte(p, x).open = ParseByte(q, x).open
    BY <2>2
  <2>5. Append(p.done, p.open) = Append(d \o q.done, q.open)
    BY Zenon
  <2> QED
    BY <2>1, <2>3, <2>4, <2>5, Zenon
<1>4. CASE x # "{" /\ x # "}"
  <2>1. /\ ParseByte(p, x) = [p EXCEPT !.open = Append(p.open, x)]
        /\ ParseByte(q, x) = [q EXCEPT !.open = Append(q.open, x)]
    BY <1>4 DEF ParseByte
  <2>2. /\ ParseByte(p, x).done = p.done /\ ParseByte(p, x).open = Append(p.open, x)
        /\ ParseByte(q, x).done = q.done /\ ParseByte(q, x).open = Append(q.open, x)
    BY <2>1 DEF Found
  <2> QED
    BY <2>2
<1> QED
  BY <1>2, <1>3, <1>4

\* A message that begins with a bracket is parsed alike whatever was before it.
LEMMA ParsedConcat ==
    ASSUME NEW a \in Seq(Byte), NEW b \in Seq(Byte), Opens(b)
    PROVE  ParseMsg(a \o b) = ParseMsg(a) \o ParseMsg(b)
<1> DEFINE c == a \o b
           n == Len(a)
           m == Len(b)
<1>1. /\ n \in Nat /\ m \in Nat /\ m # 0 /\ c \in Seq(Byte) /\ Len(c) = n + m
      /\ \A i \in 1..n : c[i] = a[i]
      /\ \A j \in 1..m : b[j] \in Byte /\ c[n + j] = b[j]
  <2>1. /\ n \in Nat /\ m \in Nat /\ \A j \in 1..m : b[j] \in Byte
    BY ElementOfSeq
  <2>2. /\ c \in Seq(Byte) /\ Len(c) = n + m
        /\ \A i \in 1..(n + m) : c[i] = IF i <= n THEN a[i] ELSE b[i - n]
    BY ConcatProperties
  <2>5. m # 0
    <3>1. b # <<>>
      BY Zenon DEF Opens
    <3> QED
      BY <3>1, EmptySeq
  <2> HIDE DEF c, n, m
  <2>3. \A j \in 1..m : n + j \in 1..(n + m) /\ ~(n + j <= n) /\ (n + j) - n = j
    BY <2>1
  <2>4. \A i \in 1..n : i \in 1..(n + m) /\ i <= n
    BY <2>1
  <2> QED
    BY <2>1, <2>2, <2>3, <2>4, <2>5
<1> HIDE DEF c
<1>2. PICK F : /\ F[0] = Nothing /\ \A i \in 1..n : F[i] = ParseByte(F[i - 1], a[i])
               /\ \A i \in 0..n : F[i] \in Found
               /\ ParseMsg(a) = F[n].done
  BY ParseSteps
<1>3. PICK H : /\ H[0] = Nothing /\ \A i \in 1..m : H[i] = ParseByte(H[i - 1], b[i])
               /\ \A i \in 0..m : H[i] \in Found
               /\ ParseMsg(b) = H[m].done
  BY ParseSteps
<1>4. PICK G : /\ G[0] = Nothing /\ \A i \in 1..(n + m) : G[i] = ParseByte(G[i - 1], c[i])
               /\ \A i \in 0..(n + m) : G[i] \in Found
               /\ ParseMsg(c) = G[n + m].done
  <2>1. c \in Seq(Byte)
    BY <1>1
  <2>2. \E G : /\ G[0] = Nothing /\ \A i \in 1..Len(c) : G[i] = ParseByte(G[i - 1], c[i])
               /\ \A i \in 0..Len(c) : G[i] \in Found
               /\ ParseMsg(c) = G[Len(c)].done
    BY <2>1, ParseSteps
  <2> QED
    BY <1>1, <2>2
<1>5. ParseMsg(a) \in Seq(Seq(Byte))
  BY ParsedType
<1> HIDE DEF n, m
<1>6. G[n] = F[n]
  <2> DEFINE U == {i \in 0..n : G[i] = F[i]}
  <2>1. 0 \in U
    BY <1>1, <1>2, <1>4
  <2>2. ASSUME NEW i \in 1..n, i - 1 \in U PROVE i \in U
    <3>1. i \in 1..(n + m) /\ i \in 0..n /\ c[i] = a[i] /\ G[i - 1] = F[i - 1]
      BY <1>1, <2>2
    <3>2. G[i] = ParseByte(G[i - 1], c[i]) /\ F[i] = ParseByte(F[i - 1], a[i])
      BY <1>2, <1>4, <3>1
    <3> QED
      BY <3>1, <3>2
  <2> HIDE DEF U
  <2>3. \A i \in 0..n : i \in U
    BY <1>1, <2>1, <2>2, UptoInduction
  <2>4. n \in U
    BY <1>1, <2>3
  <2> QED
    BY <1>2, <2>4 DEF U
<1> DEFINE d == ParseMsg(a)
           Same(j) == G[n + j].done = d \o H[j].done /\ G[n + j].open = H[j].open
           T == {j \in 0..m : j = 0 \/ Same(j)}
<1>7. 0 \in T
  BY <1>1
<1>8. ASSUME NEW j \in 1..m, j - 1 \in T PROVE j \in T
  <2>1. /\ H[j - 1] \in Found /\ b[j] \in Byte /\ c[n + j] = b[j] /\ j \in 0..m
        /\ j = 1 \/ Same(j - 1)
    BY <1>1, <1>3, <1>8
  <2>2. n + j \in 1..(n + m) /\ (n + j) - 1 = n + (j - 1) /\ n + (j - 1) \in 0..(n + m)
    BY <1>1
  <2> DEFINE p == G[n + (j - 1)]
             q == H[j - 1]
  <2>3. G[n + j] = ParseByte(p, b[j]) /\ H[j] = ParseByte(q, b[j])
    BY <1>3, <1>4, <2>1, <2>2
  <2>4. /\ p \in Found /\ q \in Found
        /\ p.done \in Seq(Seq(Byte)) /\ q.done \in Seq(Seq(Byte)) /\ q.open \in Seq(Byte)
    BY <1>4, <2>1, <2>2 DEF Found
  <2>5. CASE j = 1
    <3>1. p = F[n] /\ q = Nothing
      BY <1>1, <1>3, <1>6, <2>5
    <3>2. G[n + j] = [p EXCEPT !.open = <<>>] /\ H[j] = [q EXCEPT !.open = <<>>]
      BY <2>3, <2>5, ParseOpening
    <3>3. G[n + j].done = p.done /\ G[n + j].open = <<>>
      BY <2>4, <3>2 DEF Found
    <3>4. H[j].done = <<>> /\ H[j].open = <<>>
      BY <3>1, <3>2 DEF Nothing
    <3>5. p.done = d /\ d \o <<>> = d
      BY <1>2, <1>5, <3>1, ConcatEmptySeq
    <3>6. Same(j)
      BY <3>3, <3>4, <3>5
    <3> QED
      BY <2>1, <3>6
  <2>6. CASE j # 1
    <3>1. p.done = d \o q.done /\ p.open = q.open
      BY <2>1, <2>6
    <3>2. d \in Seq(Seq(Byte)) /\ b[j] \in Byte
      BY <1>5, <2>1
    <3> HIDE DEF p, q, d
    <3>3. /\ ParseByte(p, b[j]).done = d \o ParseByte(q, b[j]).done
          /\ ParseByte(p, b[j]).open = ParseByte(q, b[j]).open
      BY <2>4, <3>1, <3>2, ParseByteAlike
    <3>4. Same(j)
      BY <2>3, <3>3
    <3> QED
      BY <2>1, <3>4
  <2> QED
    BY <2>5, <2>6
<1> HIDE DEF T, Same, d
<1>9. m \in T
  <2>1. \A j \in 0..m : j \in T
    BY <1>1, <1>7, <1>8, UptoInduction
  <2> QED
    BY <1>1, <2>1
<1>10. Same(m)
  BY <1>1, <1>9 DEF T
<1>11. G[n + m].done = ParseMsg(a) \o H[m].done
  BY <1>10 DEF Same, d
<1> QED
  BY <1>3, <1>4, <1>11 DEF c

-----------------------------------------------------------------------------
(* The inductive invariant: what is counted of a reading.                  *)

\* Nothing was left in the socket when the connection was closed as a logout.
LogoutIsLast == closed = "logout" => taken = arrived /\ at = "select"

\* What was counted in this reading was received in it.
Reading ==
    /\ arrived \in Nat /\ taken \in Nat /\ start \in Nat /\ total \in Nat
    /\ start <= taken /\ taken <= arrived
    /\ total <= taken - start
    /\ OnlyFloodersAreClosed
    /\ LogoutIsLast

LEMMA ThresholdIsNat == Threshold \in Nat /\ SizeRecv \in Nat \ {0}
BY SizesAssumption DEF Threshold, SizeRecv

LEMMA InitReading == Init => Reading
BY DEF Init, Reading, OnlyFloodersAreClosed, LogoutIsLast

\* A receive takes no more than there is.
LEMMA ReceiveReading == ASSUME Reading, Receive PROVE Reading'
<1> DEFINE n == IF InSocket < SizeRecv THEN InSocket ELSE SizeRecv
<1>1. n \in Nat /\ n <= arrived - taken
  BY ThresholdIsNat DEF Reading, InSocket
<1>2. taken' = taken + n /\ UNCHANGED <<arrived, start>> /\ at = "receive"
  BY DEF Receive
<1>3. total' = total + n \/ total' = total
  BY DEF Receive
<1>4. \/ Flooding(total') /\ closed' = "flooding"
      \/ closed' = closed
  BY DEF Receive
<1>5. total' \in Nat /\ total' <= taken' - start'
  BY <1>1, <1>2, <1>3 DEF Reading
<1>6. OnlyFloodersAreClosed'
  <2>1. CASE Flooding(total') /\ closed' = "flooding"
    BY <1>1, <1>2, <1>5, <2>1, ThresholdIsNat DEF Flooding, OnlyFloodersAreClosed, Reading, Threshold, SizeRecv
  <2>2. CASE closed' = closed
    BY <1>1, <1>2, <2>2, ThresholdIsNat DEF OnlyFloodersAreClosed, Reading, Threshold, SizeRecv
  <2> QED BY <1>4, <2>1, <2>2
<1>7. LogoutIsLast'
  BY <1>1, <1>2, <1>4 DEF LogoutIsLast, Reading
<1> QED BY <1>1, <1>2, <1>5, <1>6, <1>7 DEF Reading

LEMMA ReadingStep == ASSUME Reading, [Next]_vars PROVE Reading'
<1> USE DEF Reading, OnlyFloodersAreClosed, LogoutIsLast, InSocket, Threshold, SizeRecv
<1>1. CASE Arrive
  <2>1. arrived' \in Nat /\ arrived' >= arrived + 1
    <3>1. arrived' \in arrived + 1 .. Len(stream)
      BY <1>1 DEF Arrive
    <3> QED BY <3>1
  <2>2. closed = "no" /\ UNCHANGED <<taken, start, total, closed>>
    BY <1>1 DEF Arrive
  <2> QED BY <2>1, <2>2
<1>2. CASE PeerCloses
  BY <1>2 DEF PeerCloses
<1>3. CASE Logout
  BY <1>3 DEF Logout
<1>4. CASE BeginReading
  BY <1>4 DEF BeginReading
<1>5. CASE Enquire
  BY <1>5 DEF Enquire
<1>6. CASE Receive
  BY <1>6, ReceiveReading
<1>7. CASE ReceiveFails
  BY <1>7 DEF ReceiveFails
<1>8. CASE ServeClient
  <2>1. /\ UNCHANGED <<arrived, taken, start, total>> /\ at' = "select"
        /\ closed' = closed \/ closed' = "kicked"
    BY <1>8 DEF ServeClient
  <2> QED BY <2>1
<1>9. CASE UNCHANGED vars
  BY <1>9 DEF vars
<1> QED BY <1>1, <1>2, <1>3, <1>4, <1>5, <1>6, <1>7, <1>8, <1>9 DEF Next, Read, Closed

-----------------------------------------------------------------------------
(* The inductive invariant: what is in the class buffer, and what is served. *)

\* What was received from place a on, up to place b of the stream.
Received(a, b) == SubSeq(stream, a + 1, b)

\* How often x is there.
Within(a, b, x) == Times(stream, (a + 1)..b, x)

\* What the buffer has of x came in this reading.
Sent ==
    at # "select" => \A x \in Byte \ {Nul} : Count(buffer, x) <= Within(start, taken, x)

\* A clear buffer into which t was copied.
Filled(t) == [i \in 1..SizeBuff |-> IF i \in DOMAIN t THEN t[i] ELSE Nul]

\* The buffer is as it was cleared until something is received; the first
\* receive of a reading fills it.
Exact ==
    at # "select" =>
        /\ receives = 0 => buffer = Clear /\ taken = start /\ total = 0
        /\ receives = 1 => /\ taken - start <= SizeRecv
                           /\ buffer = Filled(Text(Received(start, taken)))

\* As long as no reading has received twice, what was served are the requests
\* of what was received before this reading began, and when it is over those of
\* all that was received.
Order ==
    ~mixed /\ HasNoNul(taken) =>
        /\ at # "select" => receives <= 1 /\ served = Asked(start)
        /\ at = "select" /\ closed \in {"no", "logout"} => served = Asked(taken)

IInv == TypeOK /\ Reading /\ BufferIsTerminated /\ Sent /\ Exact /\ Order

\* Places of the stream.
LEMMA StreamFacts ==
    ASSUME TypeOK
    PROVE  /\ stream \in Seq(Byte) /\ Len(stream) \in Nat
           /\ arrived \in Nat /\ taken \in Nat /\ start \in Nat
           /\ start <= taken /\ taken <= arrived /\ arrived <= Len(stream)
<1>1. stream \in Seq(Byte)
  BY StreamsAssumption DEF TypeOK
<1>2. Len(stream) \in Nat
  BY <1>1, LenProperties
<1> QED
  BY <1>1, <1>2 DEF TypeOK

LEMMA ReceivedProperties ==
    ASSUME TypeOK, NEW a \in Nat, NEW b \in Nat, a <= b, b <= Len(stream)
    PROVE  /\ Received(a, b) \in Seq(Byte) /\ Len(Received(a, b)) = b - a
           /\ \A k \in 1..(b - a) : Received(a, b)[k] = stream[a + k]
           /\ \A x : Count(Received(a, b), x) = Within(a, b, x)
<1> DEFINE s == Received(a, b)
<1>1. /\ stream \in Seq(Byte) /\ Len(stream) \in Nat
      /\ \A i \in 1..Len(stream) : stream[i] \in Byte
  BY StreamFacts, ElementOfSeq
<1>2. s \in Seq(Byte) /\ Len(s) = b - a /\ \A k \in 1..(b - a) : s[k] = stream[a + k]
  <2>1. \A i \in (a + 1)..b : stream[i] \in Byte
    BY <1>1
  <2>2. /\ s \in Seq(Byte)
        /\ Len(s) = IF a + 1 <= b THEN b - (a + 1) + 1 ELSE 0
        /\ \A k \in 1..(b - (a + 1) + 1) : s[k] = stream[(a + 1) + k - 1]
    BY <2>1, SubSeqProperties DEF Received
  <2> HIDE DEF s
  <2>3. \A k \in 1..(b - a) : (a + 1) + k - 1 = a + k /\ k \in 1..(b - (a + 1) + 1)
    OBVIOUS
  <2> QED
    BY <2>2, <2>3
<1> HIDE DEF s
<1> DEFINE D == 1..(b - a)
           E == (a + 1)..b
<1>3. DOMAIN s = D /\ IsFiniteSet(D) /\ IsFiniteSet(E)
  <2>1. DOMAIN s = 1..Len(s)
    BY <1>2, LenProperties
  <2>2. a + 1 \in Int /\ b \in Int /\ 1 \in Int /\ b - a \in Int
    OBVIOUS
  <2> QED
    BY <1>2, <2>1, <2>2, FS_Interval
<1>4. ASSUME NEW x PROVE Count(s, x) = Within(a, b, x)
  <2>1. Count(s, x) = Times(s, D, x) /\ Within(a, b, x) = Times(stream, E, x)
    BY <1>3, CountIsTimes DEF Within
  <2>2. Times(s, D, x) <= Times(stream, E, x)
    <3> DEFINE h == [k \in D |-> a + k]
    <3>1. h \in [D -> E] /\ \A k \in D : s[k] = stream[h[k]]
      BY <1>2
    <3>2. \A k, l \in D : h[k] = h[l] => k = l
      OBVIOUS
    <3> HIDE DEF h, D, E
    <3> QED
      BY <1>3, <3>1, <3>2, TimesInjection
  <2>3. Times(stream, E, x) <= Times(s, D, x)
    <3> DEFINE h == [i \in E |-> i - a]
    <3>1. \A i \in E : i - a \in D /\ a + (i - a) = i
      OBVIOUS
    <3>2. h \in [E -> D] /\ \A i \in E : stream[i] = s[h[i]]
      BY <1>2, <3>1
    <3>3. \A k, l \in E : h[k] = h[l] => k = l
      OBVIOUS
    <3> HIDE DEF h, D, E
    <3> QED
      BY <1>3, <3>2, <3>3, TimesInjection
  <2>4. Times(s, D, x) \in Nat /\ Times(stream, E, x) \in Nat
    BY <1>3, TimesIsNat
  <2> QED
    BY <2>1, <2>2, <2>3, <2>4
<1> QED
  BY <1>2, <1>4 DEF s

\* What is within two stretches is within both together.
LEMMA WithinSum ==
    ASSUME NEW a \in Nat, NEW b \in Nat, NEW c \in Nat, a <= b, b <= c, NEW x
    PROVE  /\ Within(a, c, x) = Within(a, b, x) + Within(b, c, x)
           /\ Within(a, b, x) \in Nat /\ Within(b, c, x) \in Nat
<1> DEFINE D == (a + 1)..b
           E == (b + 1)..c
<1>1. IsFiniteSet(D) /\ IsFiniteSet(E)
  BY FS_Interval
<1>2. (a + 1)..c = D \cup E /\ D \cap E = {}
  OBVIOUS
<1>3. /\ Within(a, b, x) = Times(stream, D, x) /\ Within(b, c, x) = Times(stream, E, x)
      /\ Within(a, c, x) = Times(stream, D \cup E, x)
  BY <1>2 DEF Within
<1> HIDE DEF D, E
<1>4. Times(stream, D, x) \in Nat /\ Times(stream, E, x) \in Nat
  BY <1>1, TimesIsNat
<1>5. Times(stream, D \cup E, x) = Times(stream, D, x) + Times(stream, E, x)
  BY <1>1, <1>2, TimesUnion
<1> QED
  BY <1>3, <1>4, <1>5

\* A clear buffer ends with a Nul and holds nothing else.
LEMMA ClearProperties ==
    /\ Clear \in [1..SizeBuff -> Byte] /\ Clear[SizeBuff] = Nul
    /\ \A x \in Byte \ {Nul} : Count(Clear, x) = 0
<1>1. SizeBuff \in 1..SizeBuff /\ Nul \in Byte
  BY SizesAssumption DEF Byte, Special
<1>2. Clear \in [1..SizeBuff -> Byte] /\ \A i \in 1..SizeBuff : Clear[i] = Nul
  BY <1>1 DEF Clear
<1>3. ASSUME NEW x \in Byte \ {Nul} PROVE Count(Clear, x) = 0
  <2>1. Nul # x
    OBVIOUS
  <2>2. {i \in DOMAIN Clear : Clear[i] = x} = {}
    BY <1>2, <2>1
  <2> QED
    BY <2>2, FS_EmptySet DEF Count
<1> QED
  BY <1>1, <1>2, <1>3

\* Nothing is asked in an empty part of the stream.
LEMMA NothingAsked == ASSUME stream \in Seq(Byte) PROVE Asked(0) = <<>>
<1>1. SubSeq(stream, 1, 0) = <<>>
  BY SubSeqProperties, EmptySeq
<1>2. Len(<<>>) = 0 /\ <<>> \in Seq(Byte)
  OBVIOUS
<1>3. Copied(<<>>) = <<>>
  <2>1. \E F : F[0] = <<>> /\ Copied(<<>>) = F[Len(<<>>)]
    BY <1>2, CopySteps
  <2> QED
    BY <1>2, <2>1
<1>4. ParseMsg(<<>>) = <<>>
  <2>1. \E F : F[0] = Nothing /\ ParseMsg(<<>>) = F[Len(<<>>)].done
    BY <1>2, ParseSteps
  <2> QED
    BY <1>2, <2>1 DEF Nothing
<1> QED
  BY <1>1, <1>3, <1>4 DEF Asked

LEMMA InitInv == Init => IInv
<1> SUFFICES ASSUME Init PROVE IInv
  OBVIOUS
<1>1. stream \in Seq(Byte) /\ Len(stream) \in Nat
  <2>1. stream \in Seq(Byte)
    BY StreamsAssumption DEF Init
  <2> QED
    BY <2>1, LenProperties
<1>2. TypeOK
  <2>1. buffer \in [1..SizeBuff -> Byte] /\ served \in Seq(Seq(Byte))
    BY ClearProperties, EmptySeq DEF Init
  <2>2. /\ arrived \in 0..Len(stream) /\ taken \in 0..arrived /\ start \in 0..taken
        /\ total \in Nat /\ receives \in Nat
    BY <1>1 DEF Init
  <2> QED
    BY <2>1, <2>2 DEF Init, TypeOK
<1>3. Order
  BY <1>1, NothingAsked DEF Init, Order
<1>4. BufferIsTerminated /\ Sent /\ Exact
  BY ClearProperties DEF Init, BufferIsTerminated, Sent, Exact
<1> QED
  BY <1>2, <1>3, <1>4, InitReading DEF IInv

\* What is not read by a step stays as it was.
LEMMA NothingRead ==
    ASSUME IInv, at' # "select" => at # "select",
           at' = "select" /\ closed' \in {"no", "logout"} =>
               at = "select" /\ closed \in {"no", "logout"},
           UNCHANGED <<stream, taken, start, buffer, total, receives, served, mixed>>
    PROVE  BufferIsTerminated' /\ Sent' /\ Exact' /\ Order'
<1>1. BufferIsTerminated /\ Sent /\ Exact /\ Order
  BY DEF IInv
<1>2. BufferIsTerminated'
  BY <1>1 DEF BufferIsTerminated
<1>3. Sent'
  <2>1. \A x : /\ Count(buffer, x)' = Count(buffer, x)
               /\ Within(start, taken, x)' = Within(start, taken, x)
    BY DEF Count, Within, Times
  <2> QED
    BY <1>1, <2>1 DEF Sent
<1>4. Exact'
  BY <1>1 DEF Exact, Received
<1>5. Order'
  BY <1>1 DEF Order, Asked, HasNoNul
<1> QED
  BY <1>2, <1>3, <1>4, <1>5

-----------------------------------------------------------------------------
(* The steps that read, serve or begin anew.                               *)

LEMMA BeginReadingInv ==
    ASSUME IInv, BeginReading
    PROVE  TypeOK' /\ BufferIsTerminated' /\ Sent' /\ Exact' /\ Order'
<1>1. /\ TypeOK /\ Order /\ at = "select" /\ closed = "no"
      /\ at' = "enquire" /\ buffer' = Clear /\ total' = 0 /\ start' = taken /\ receives' = 0
      /\ UNCHANGED <<stream, arrived, fin, taken, served, closed, mixed>>
  BY DEF IInv, BeginReading
<1>2. TypeOK'
  <2>1. start' \in 0..taken' /\ total' \in Nat /\ receives' \in Nat
    BY <1>1, StreamFacts
  <2> QED
    BY <1>1, <2>1, ClearProperties DEF TypeOK
<1>3. BufferIsTerminated' /\ Exact'
  BY <1>1, ClearProperties DEF BufferIsTerminated, Exact
<1>4. ASSUME NEW x \in Byte \ {Nul} PROVE Count(buffer, x)' <= Within(start, taken, x)'
  <2>1. /\ Count(buffer, x)' = Count(Clear, x)
        /\ Within(start, taken, x)' = Within(taken, taken, x)
    BY <1>1 DEF Count, Within, Times
  <2>2. Within(taken, taken, x) \in Nat
    BY <1>1, StreamFacts, WithinSum
  <2> QED
    BY <2>1, <2>2, ClearProperties
<1>5. Sent'
  BY <1>4 DEF Sent
<1>6. Order'
  BY <1>1 DEF Order, Asked, HasNoNul
<1> QED
  BY <1>2, <1>3, <1>5, <1>6

\* A receive adds to the buffer at most what it has taken.
LEMMA ReceiveInv ==
    ASSUME IInv, Receive
    PROVE  TypeOK' /\ BufferIsTerminated' /\ Sent' /\ Exact' /\ Order'
<1> DEFINE n    == IF InSocket < SizeRecv THEN InSocket ELSE SizeRecv
           b    == taken + n
           step == Received(taken, b)
           text == Text(step)
<1>1. /\ TypeOK /\ BufferIsTerminated /\ Sent /\ Exact /\ Order
      /\ stream \in Seq(Byte) /\ Len(stream) \in Nat
      /\ arrived \in Nat /\ taken \in Nat /\ start \in Nat /\ total \in Nat /\ receives \in Nat
      /\ start <= taken /\ taken <= arrived /\ arrived <= Len(stream)
      /\ buffer \in [1..SizeBuff -> Byte]
  <2>1. TypeOK
    BY DEF IInv
  <2> QED
    BY <2>1, StreamFacts DEF IInv, TypeOK
<1>2. n \in Nat /\ n <= SizeRecv /\ b \in Nat /\ taken <= b /\ b <= arrived /\ b - taken = n
  BY <1>1, ThresholdIsNat DEF InSocket
<1>3. /\ at = "receive" /\ taken' = b /\ receives' = receives + 1
      /\ UNCHANGED <<stream, arrived, fin, start, served>>
      /\ \/ total' = total + n /\ buffer' = InsertToBuffer(text)
         \/ total >= Threshold /\ total' = total /\ buffer' = buffer
      /\ \/ closed' = "flooding" /\ at' = "select"
         \/ closed' = closed /\ at' = "enquire"
      /\ mixed' = (mixed \/ receives > 0)
  BY <1>1, ThresholdIsNat DEF Receive, Received
<1> HIDE DEF n, b
<1>4. /\ step \in Seq(Byte) /\ Len(step) = n
      /\ \A x : Count(step, x) = Within(taken, b, x)
  <2>1. TypeOK /\ taken \in Nat /\ b \in Nat /\ taken <= b /\ b <= Len(stream)
    BY <1>1, <1>2
  <2>2. /\ step \in Seq(Byte) /\ Len(step) = b - taken
        /\ \A x : Count(step, x) = Within(taken, b, x)
    BY <2>1, ReceivedProperties
  <2> QED
    BY <1>2, <2>2
<1> HIDE DEF step
<1>5. /\ text \in Seq(Byte) /\ Len(text) \in Nat /\ DOMAIN text = 1..Len(text)
      /\ Len(text) <= SizeRecv
      /\ \A i \in 1..Len(text) : text[i] \in Byte
      /\ \A x : Count(text, x) <= Count(step, x)
  <2>1. /\ text \in Seq(Byte) /\ Len(text) <= Len(step)
        /\ \A x : Count(text, x) <= Count(step, x)
    BY <1>4, TextProperties
  <2>2. Len(text) \in Nat /\ DOMAIN text = 1..Len(text)
    BY <2>1, LenProperties
  <2>3. \A i \in 1..Len(text) : text[i] \in Byte
    BY <2>1, ElementOfSeq
  <2>4. Len(text) <= SizeRecv
    BY <1>2, <1>4, <2>1, <2>2, ThresholdIsNat
  <2> QED
    BY <2>1, <2>2, <2>3, <2>4
<1> HIDE DEF text
<1>6. /\ InsertToBuffer(text) \in [1..SizeBuff -> Byte]
      /\ InsertToBuffer(text)[SizeBuff] = buffer[SizeBuff]
  <2>1. SizeBuff \in 1..SizeBuff /\ SizeBuff \notin 1..Len(text)
    BY <1>5, SizesAssumption DEF SizeRecv
  <2> QED
    BY <1>1, <1>5, <2>1 DEF InsertToBuffer
<1>7. buffer' \in [1..SizeBuff -> Byte] /\ buffer'[SizeBuff] = Nul
  BY <1>1, <1>3, <1>6 DEF BufferIsTerminated
<1>8. TypeOK'
  <2>1. /\ arrived' \in 0..Len(stream') /\ taken' \in 0..arrived' /\ start' \in 0..taken'
        /\ total' \in Nat /\ receives' \in Nat
    BY <1>1, <1>2, <1>3
  <2>2. at' \in {"select", "enquire"} /\ closed' \in {"flooding", closed}
    BY <1>3
  <2> QED
    BY <1>1, <1>3, <1>7, <2>1, <2>2 DEF TypeOK
<1>9. ASSUME NEW x \in Byte \ {Nul} PROVE Count(buffer, x)' <= Within(start, taken, x)'
  <2>1. Count(buffer, x) <= Within(start, taken, x)
    BY <1>1, <1>3 DEF Sent
  <2>2. /\ Within(start, b, x) = Within(start, taken, x) + Within(taken, b, x)
        /\ Within(start, taken, x) \in Nat /\ Within(taken, b, x) \in Nat
    BY <1>1, <1>2, WithinSum
  <2>3. Count(InsertToBuffer(text), x) <= Count(text, x) + Count(buffer, x)
    BY <1>1, <1>5, InsertCount
  <2>4. Count(buffer, x) \in Nat /\ Count(text, x) \in Nat /\ Count(InsertToBuffer(text), x) \in Nat
    <3>1. IsFiniteSet(DOMAIN buffer) /\ IsFiniteSet(DOMAIN text)
          /\ IsFiniteSet(DOMAIN InsertToBuffer(text))
      <4>1. DOMAIN buffer = 1..SizeBuff /\ DOMAIN InsertToBuffer(text) = 1..SizeBuff
        BY <1>1, <1>6
      <4>2. SizeBuff \in Nat
        BY SizesAssumption
      <4> QED
        BY <1>5, <4>1, <4>2, FS_Interval
    <3> QED
      BY <3>1, TimesIsNat, CountIsTimes
  <2>5. Count(text, x) <= Within(taken, b, x)
    BY <1>4, <1>5
  <2>6. Within(start, taken, x)' = Within(start, b, x)
    BY <1>3 DEF Within, Times
  <2>7. \/ Count(buffer, x)' = Count(InsertToBuffer(text), x)
        \/ Count(buffer, x)' = Count(buffer, x)
    BY <1>3 DEF Count
  <2> QED
    BY <2>1, <2>2, <2>3, <2>4, <2>5, <2>6, <2>7
<1>10. Sent'
  BY <1>9 DEF Sent
<1>11. Exact'
  <2>1. receives' # 0
    BY <1>1, <1>3
  <2>2. ASSUME receives' = 1
        PROVE  /\ taken' - start' <= SizeRecv
               /\ buffer' = Filled(Text(Received(start, b)))
    <3>1. buffer = Clear /\ taken = start /\ total = 0
      BY <1>1, <1>3, <2>2 DEF Exact
    <3>2. buffer' = InsertToBuffer(text)
      BY <1>3, <3>1, SizesAssumption DEF Threshold, SizeRecv
    <3>3. InsertToBuffer(text) = Filled(text)
      BY <3>1 DEF InsertToBuffer, Filled, Clear
    <3>4. text = Text(Received(start, b))
      BY <3>1 DEF text, step
    <3> QED
      BY <1>2, <1>3, <3>1, <3>2, <3>3, <3>4
  <2>3. Received(start, taken)' = Received(start, b)
    BY <1>3 DEF Received
  <2> QED
    BY <1>3, <2>1, <2>2, <2>3 DEF Exact, Received
<1>12. Order'
  <2> SUFFICES ASSUME ~mixed', HasNoNul(taken)'
               PROVE  /\ receives' <= 1 /\ served' = Asked(start)'
                      /\ ~(at' = "select" /\ closed' \in {"no", "logout"})
    BY DEF Order
  <2>1. ~mixed /\ receives = 0
    <3>1. mixed' = (mixed \/ receives > 0)
      BY <1>3
    <3>2. ~mixed /\ ~(receives > 0)
      BY <3>1, Zenon
    <3>3. receives = 0
      BY <1>1, <3>2
    <3> QED
      BY <3>2, <3>3
  <2>2. HasNoNul(taken)
    <3>1. \A i \in 1..b : stream[i] # Nul
      BY <1>3 DEF HasNoNul
    <3>2. \A i \in 1..taken : i \in 1..b
      BY <1>1, <1>2
    <3> QED
      BY <3>1, <3>2 DEF HasNoNul
  <2>3. served = Asked(start)
    BY <1>1, <1>3, <2>1, <2>2 DEF Order
  <2>4. Asked(start)' = Asked(start)
    BY <1>3 DEF Asked
  <2>5. receives' <= 1
    BY <1>3, <2>1
  <2>6. ~(at' = "select" /\ closed' \in {"no", "logout"})
    BY <1>3
  <2> QED
    BY <1>3, <2>3, <2>4, <2>5, <2>6
<1> QED
  BY <1>7, <1>8, <1>10, <1>11, <1>12 DEF BufferIsTerminated

\* The message has nothing more often than the class buffer.
LEMMA MessageCount ==
    ASSUME buffer \in [1..SizeBuff -> Byte]
    PROVE  /\ Message \in Seq(Byte)
           /\ \A x : /\ Count(Message, x) \in Nat /\ Count(buffer, x) \in Nat
                     /\ Count(Message, x) <= Count(buffer, x)
<1>1. buffer \in Seq(Byte) /\ DOMAIN buffer = 1..SizeBuff /\ Len(buffer) = SizeBuff
  <2>1. \A i \in 1..SizeBuff : buffer[i] \in Byte
    OBVIOUS
  <2>2. buffer = [i \in 1..SizeBuff |-> buffer[i]]
    OBVIOUS
  <2> QED
    BY <2>1, <2>2, SizesAssumption, VectorOfFunction
<1>2. /\ Message \in Seq(Byte) /\ Len(Message) <= Len(buffer)
      /\ \A i \in 1..Len(Message) : Message[i] = buffer[i]
  BY <1>1, CStringProperties DEF Message
<1>3. Len(Message) \in Nat /\ DOMAIN Message = 1..Len(Message)
  BY <1>2, LenProperties
<1>4. ASSUME NEW x
      PROVE  /\ Count(Message, x) \in Nat /\ Count(buffer, x) \in Nat
             /\ Count(Message, x) <= Count(buffer, x)
  <2> DEFINE D == 1..Len(Message)
             E == 1..SizeBuff
             h == [i \in D |-> i]
  <2>1. \A i \in D : i \in E /\ Message[i] = buffer[i]
    BY <1>1, <1>2, <1>3, SizesAssumption
  <2>2. IsFiniteSet(D) /\ IsFiniteSet(E)
    BY <1>3, SizesAssumption, FS_Interval
  <2>3. Count(Message, x) = Times(Message, D, x) /\ Count(buffer, x) = Times(buffer, E, x)
    BY <1>1, <1>3, CountIsTimes
  <2> HIDE DEF D, E
  <2>4. h \in [D -> E] /\ (\A k, l \in D : h[k] = h[l] => k = l)
        /\ \A k \in D : Message[k] = buffer[h[k]]
    BY <2>1
  <2> HIDE DEF h
  <2>5. Times(Message, D, x) <= Times(buffer, E, x)
    BY <2>2, <2>4, TimesInjection
  <2> QED
    BY <2>2, <2>3, <2>5, TimesIsNat
<1> QED
  BY <1>2, <1>4

\* A clear buffer is an empty message.
LEMMA ClearMessage == ASSUME buffer = Clear PROVE Message = <<>>
<1>1. /\ Clear \in Seq(Byte) /\ Len(Clear) = SizeBuff
      /\ \A i \in 1..SizeBuff : Clear[i] = Nul
  BY ClearProperties, SizesAssumption, VectorOfFunction DEF Clear
<1>2. /\ Message \in Seq(Byte) /\ Len(Message) <= SizeBuff
      /\ \A i \in 1..Len(Message) : Message[i] = Clear[i] /\ Message[i] # Nul
  BY <1>1, CStringProperties DEF Message
<1>3. Len(Message) \in Nat
  BY <1>2, LenProperties
<1>4. ~(1 <= Len(Message))
  <2> SUFFICES ASSUME 1 <= Len(Message) PROVE FALSE
    OBVIOUS
  <2>1. 1 \in 1..Len(Message) /\ 1 \in 1..SizeBuff
    BY <1>2, <1>3, SizesAssumption
  <2> QED
    BY <1>1, <1>2, <2>1
<1>5. Len(Message) = 0
  BY <1>3, <1>4
<1> QED
  BY <1>2, <1>5, EmptySeq

\* A text without a Nul that leaves a place for one is read as it was copied.
LEMMA FilledIsText ==
    ASSUME NEW t \in Seq(Byte), Len(t) < SizeBuff,
           \A k \in 1..Len(t) : t[k] # Nul
    PROVE  CString(Filled(t)) = t
<1> DEFINE f == Filled(t)
           s == CString(f)
<1>1. Len(t) \in Nat /\ DOMAIN t = 1..Len(t) /\ \A k \in 1..Len(t) : t[k] \in Byte
  <2>1. Len(t) \in Nat /\ DOMAIN t = 1..Len(t)
    BY LenProperties
  <2> QED
    BY <2>1, ElementOfSeq
<1>2. /\ f \in Seq(Byte) /\ Len(f) = SizeBuff
      /\ \A i \in 1..SizeBuff : f[i] = IF i \in 1..Len(t) THEN t[i] ELSE Nul
  <2>1. f = [i \in 1..SizeBuff |-> IF i \in 1..Len(t) THEN t[i] ELSE Nul]
    BY <1>1 DEF Filled
  <2>2. Nul \in Byte /\ SizeBuff \in Nat
    BY SizesAssumption DEF Byte, Special
  <2>3. \A i \in 1..SizeBuff : (IF i \in 1..Len(t) THEN t[i] ELSE Nul) \in Byte
    BY <1>1, <2>2
  <2> HIDE DEF f
  <2> QED
    BY <2>1, <2>2, <2>3, VectorOfFunction
<1> HIDE DEF f
<1>3. /\ s \in Seq(Byte) /\ Len(s) <= SizeBuff /\ Len(s) \in Nat
      /\ \A i \in 1..Len(s) : s[i] = f[i] /\ s[i] # Nul
      /\ Len(s) < SizeBuff => f[Len(s) + 1] = Nul
  <2>1. /\ s \in Seq(Byte) /\ Len(s) <= Len(f)
        /\ \A i \in 1..Len(s) : s[i] = f[i] /\ s[i] # Nul
        /\ Len(s) < Len(f) => f[Len(s) + 1] = Nul
    BY <1>2, CStringProperties
  <2>2. Len(s) \in Nat
    BY <2>1, LenProperties
  <2> QED
    BY <1>2, <2>1, <2>2
<1> HIDE DEF s
<1>4. ~(Len(s) < Len(t))
  <2> SUFFICES ASSUME Len(s) < Len(t) PROVE FALSE
    OBVIOUS
  <2>1. Len(s) + 1 \in 1..Len(t) /\ Len(s) + 1 \in 1..SizeBuff /\ Len(s) < SizeBuff
    BY <1>1, <1>3, SizesAssumption
  <2> QED
    BY <1>2, <1>3, <2>1
<1>5. ~(Len(t) < Len(s))
  <2> SUFFICES ASSUME Len(t) < Len(s) PROVE FALSE
    OBVIOUS
  <2>1. Len(t) + 1 \in 1..Len(s) /\ Len(t) + 1 \in 1..SizeBuff /\ Len(t) + 1 \notin 1..Len(t)
    BY <1>1, <1>3, SizesAssumption
  <2> QED
    BY <1>2, <1>3, <2>1
<1>6. Len(s) = Len(t)
  BY <1>1, <1>3, <1>4, <1>5
<1>7. \A i \in 1..Len(t) : s[i] = t[i]
  BY <1>1, <1>2, <1>3, <1>6, SizesAssumption
<1>8. s = t
  BY <1>3, <1>6, <1>7, SeqEqual
<1> QED
  BY <1>8 DEF s, f

\* After one receive the message is the text of what came.
LEMMA MessageIsText ==
    ASSUME TypeOK, Exact, at = "serve", receives = 1
    PROVE  Message = Text(Received(start, taken))
<1> DEFINE step == Received(start, taken)
<1>1. /\ start \in Nat /\ taken \in Nat /\ start <= taken /\ taken <= Len(stream)
      /\ taken - start <= SizeRecv /\ buffer = Filled(Text(step))
  BY StreamFacts DEF Exact
<1>2. step \in Seq(Byte) /\ Len(step) = taken - start
  BY <1>1, ReceivedProperties
<1> HIDE DEF step
<1>3. /\ Text(step) \in Seq(Byte) /\ Len(Text(step)) <= Len(step)
      /\ \A k \in 1..Len(Text(step)) : Text(step)[k] # Nul
  BY <1>2, TextProperties
<1>4. Len(Text(step)) < SizeBuff
  <2>1. Len(Text(step)) \in Nat
    BY <1>3, LenProperties
  <2> QED
    BY <1>1, <1>2, <1>3, <2>1, SizesAssumption DEF SizeRecv
<1>5. CString(Filled(Text(step))) = Text(step)
  BY <1>3, <1>4, FilledIsText
<1> QED
  BY <1>1, <1>5 DEF Message, step

\* Without a Nul the whole is copied.
LEMMA TextWithoutNul ==
    ASSUME NEW b \in Seq(Byte), \A k \in 1..Len(b) : b[k] # Nul
    PROVE  Text(b) = Copied(b)
<1> DEFINE s == CString(b)
<1>1. /\ s \in Seq(Byte) /\ Len(s) <= Len(b)
      /\ \A i \in 1..Len(s) : s[i] = b[i] /\ s[i] # Nul
      /\ Len(s) < Len(b) => b[Len(s) + 1] = Nul
  BY CStringProperties
<1> HIDE DEF s
<1>2. Len(s) \in Nat /\ Len(b) \in Nat
  BY <1>1, LenProperties
<1>3. ~(Len(s) < Len(b))
  <2> SUFFICES ASSUME Len(s) < Len(b) PROVE FALSE
    OBVIOUS
  <2>1. Len(s) + 1 \in 1..Len(b)
    BY <1>2
  <2> QED
    BY <1>1, <2>1
<1>4. Len(s) = Len(b)
  BY <1>1, <1>2, <1>3
<1>5. s = b
  BY <1>1, <1>4, SeqEqual
<1> QED
  BY <1>5 DEF Text, s

\* What is asked up to b is what is asked up to a and what comes then, when a
\* request begins there.
LEMMA AskedOnward ==
    ASSUME TypeOK, NEW a \in Nat, NEW b \in Nat, a <= b, b <= Len(stream),
           Opens(Copied(Received(a, b)))
    PROVE  Asked(b) = Asked(a) \o ParseMsg(Copied(Received(a, b)))
<1> DEFINE u == SubSeq(stream, 1, a)
           v == Received(a, b)
<1>1. stream \in Seq(Byte) /\ Len(stream) \in Nat
  BY StreamFacts
<1>2. SubSeq(stream, 1, a) \o SubSeq(stream, a + 1, b) = SubSeq(stream, 1, b)
  <2>1. 1 \in 1..(Len(stream) + 1) /\ a \in (1 - 1)..Len(stream) /\ b \in a..Len(stream)
    BY <1>1
  <2> QED
    BY <1>1, <2>1, ConcatAdjacentSubSeq
<1>3. u \in Seq(Byte) /\ v \in Seq(Byte)
  <2>1. Received(0, a) \in Seq(Byte) /\ v \in Seq(Byte)
    BY <1>1, ReceivedProperties
  <2> QED
    BY <2>1 DEF Received
<1>4. u \o v = SubSeq(stream, 1, b)
  BY <1>2 DEF Received
<1> HIDE DEF u, v
<1>5. Copied(u \o v) = Copied(u) \o Copied(v)
  BY <1>3, CopiedConcat
<1>6. Copied(u) \in Seq(Byte) /\ Copied(v) \in Seq(Byte)
  BY <1>3, CopiedIsPart DEF PartOf
<1>7. Opens(Copied(v))
  BY DEF v
<1>8. ParseMsg(Copied(u) \o Copied(v)) = ParseMsg(Copied(u)) \o ParseMsg(Copied(v))
  BY <1>6, <1>7, ParsedConcat
<1> QED
  BY <1>4, <1>5, <1>8 DEF Asked, u, v

LEMMA ValidOpens == ASSUME NEW msg, IsValidFormat(msg) PROVE Opens(msg)
BY Zenon DEF IsValidFormat, Opens

LEMMA ServeClientInv ==
    ASSUME IInv, ServeClient
    PROVE  TypeOK' /\ BufferIsTerminated' /\ Sent' /\ Exact' /\ Order'
<1> DEFINE news == ParseMsg(Message)
<1>1. /\ TypeOK /\ BufferIsTerminated /\ Exact /\ Order
      /\ at = "serve" /\ at' = "select"
      /\ UNCHANGED <<stream, arrived, fin, taken, buffer, total, start, receives, mixed>>
      /\ \/ closed' = "kicked" /\ served' = served
         \/ IsValidFormat(Message) /\ served' = served \o news /\ closed' = closed
  BY DEF IInv, ServeClient
<1>2. /\ served \in Seq(Seq(Byte)) /\ buffer \in [1..SizeBuff -> Byte] /\ receives \in Nat
      /\ taken \in Nat /\ start \in Nat /\ start <= taken /\ taken <= Len(stream)
  BY <1>1, StreamFacts DEF TypeOK
<1>3. news \in Seq(Seq(Byte))
  <2>1. Message \in Seq(Byte)
    BY <1>2, MessageCount
  <2> QED
    BY <2>1, ParsedType
<1> HIDE DEF news
<1>4. TypeOK'
  <2>1. served' \in Seq(Seq(Byte))
    BY <1>1, <1>2, <1>3, ConcatProperties
  <2>2. closed' \in {"kicked", closed}
    BY <1>1
  <2> QED
    BY <1>1, <2>1, <2>2 DEF TypeOK
<1>5. BufferIsTerminated' /\ Sent' /\ Exact'
  BY <1>1 DEF BufferIsTerminated, Sent, Exact
<1>6. Order'
  <2> SUFFICES ASSUME ~mixed', HasNoNul(taken)', closed' \in {"no", "logout"}
               PROVE  served' = Asked(taken)'
    BY <1>1 DEF Order
  <2>1. IsValidFormat(Message) /\ served' = served \o news
    BY <1>1
  <2>2. receives <= 1 /\ served = Asked(start) /\ \A i \in 1..taken : stream[i] # Nul
    BY <1>1 DEF Order, HasNoNul
  <2>3. Opens(Message)
    BY <2>1, ValidOpens
  <2>4. receives # 0
    <3> SUFFICES ASSUME receives = 0 PROVE FALSE
      OBVIOUS
    <3>1. buffer = Clear
      BY <1>1 DEF Exact
    <3>2. Message = <<>>
      BY <3>1, ClearMessage
    <3>3. Message # <<>>
      BY <2>3, Zenon DEF Opens
    <3> QED
      BY <3>2, <3>3
  <2>5. receives = 1
    BY <1>2, <2>2, <2>4
  <2>6. Message = Text(Received(start, taken))
    BY <1>1, <2>5, MessageIsText
  <2>7. Text(Received(start, taken)) = Copied(Received(start, taken))
    <3>1. /\ Received(start, taken) \in Seq(Byte) /\ Len(Received(start, taken)) = taken - start
          /\ \A k \in 1..(taken - start) : Received(start, taken)[k] = stream[start + k]
      BY <1>1, <1>2, ReceivedProperties
    <3>2. \A k \in 1..(taken - start) : start + k \in 1..taken
      BY <1>2
    <3>3. \A k \in 1..Len(Received(start, taken)) : Received(start, taken)[k] # Nul
      BY <2>2, <3>1, <3>2
    <3> QED
      BY <3>1, <3>3, TextWithoutNul
  <2>8. Opens(Copied(Received(start, taken)))
    BY <2>3, <2>6, <2>7
  <2>9. Asked(taken) = Asked(start) \o ParseMsg(Copied(Received(start, taken)))
    BY <1>1, <1>2, <2>8, AskedOnward
  <2>10. Asked(taken)' = Asked(taken)
    BY <1>1 DEF Asked
  <2> QED
    BY <2>1, <2>2, <2>6, <2>7, <2>9, <2>10 DEF news
<1> QED
  BY <1>4, <1>5, <1>6

-----------------------------------------------------------------------------
(* The theorems.                                                           *)

LEMMA StepKeeps == IInv /\ [Next]_vars => IInv'
<1> SUFFICES ASSUME IInv, [Next]_vars PROVE IInv'
  OBVIOUS
<1>1. Reading'
  BY ReadingStep DEF IInv
<1>2. TypeOK
  BY DEF IInv
<1>3. CASE Arrive
  <2>1. arrived' \in 0..Len(stream) /\ taken \in 0..arrived'
    <3>1. arrived' \in arrived + 1 .. Len(stream)
      BY <1>3 DEF Arrive
    <3> QED
      BY <1>2, <3>1, StreamFacts
  <2>2. UNCHANGED <<stream, fin, taken, at, buffer, total, start, receives, served, closed, mixed>>
    BY <1>3 DEF Arrive
  <2>3. TypeOK'
    BY <1>2, <2>1, <2>2 DEF TypeOK
  <2> QED
    BY <1>1, <2>2, <2>3, NothingRead DEF IInv
<1>4. CASE PeerCloses
  <2>1. /\ fin' = TRUE
        /\ UNCHANGED <<stream, arrived, taken, at, buffer, total, start, receives, served, closed, mixed>>
    BY <1>4 DEF PeerCloses
  <2>2. TypeOK'
    BY <1>2, <2>1 DEF TypeOK
  <2> QED
    BY <1>1, <2>1, <2>2, NothingRead DEF IInv
<1>5. CASE Logout
  <2>1. /\ at = "select" /\ closed = "no" /\ closed' = "logout"
        /\ UNCHANGED <<stream, arrived, fin, taken, at, buffer, total, start, receives, served, mixed>>
    BY <1>5 DEF Logout
  <2>2. TypeOK'
    BY <1>2, <2>1 DEF TypeOK
  <2> QED
    BY <1>1, <2>1, <2>2, NothingRead DEF IInv
<1>6. CASE BeginReading
  BY <1>1, <1>6, BeginReadingInv DEF IInv
<1>7. CASE Enquire
  <2>1. /\ at = "enquire" /\ at' \in {"receive", "serve"}
        /\ UNCHANGED <<stream, arrived, fin, taken, buffer, total, start, receives, served, closed, mixed>>
    BY <1>7 DEF Enquire
  <2>2. TypeOK'
    BY <1>2, <2>1 DEF TypeOK
  <2> QED
    BY <1>1, <2>1, <2>2, NothingRead DEF IInv
<1>8. CASE Receive
  BY <1>1, <1>8, ReceiveInv DEF IInv
<1>9. CASE ReceiveFails
  <2>1. /\ closed' = "failed" /\ at' = "select"
        /\ UNCHANGED <<stream, arrived, fin, taken, buffer, total, start, receives, served, mixed>>
    BY <1>9 DEF ReceiveFails
  <2>2. TypeOK'
    BY <1>2, <2>1 DEF TypeOK
  <2> QED
    BY <1>1, <2>1, <2>2, NothingRead DEF IInv
<1>10. CASE ServeClient
  BY <1>1, <1>10, ServeClientInv DEF IInv
<1>11. CASE UNCHANGED vars
  <2>1. UNCHANGED <<stream, arrived, fin, taken, at, buffer, total, start, receives, served, closed, mixed>>
    BY <1>11 DEF vars
  <2>2. TypeOK'
    BY <1>2, <2>1 DEF TypeOK
  <2> QED
    BY <1>1, <2>1, <2>2, NothingRead DEF IInv
<1> QED
  BY <1>3, <1>4, <1>5, <1>6, <1>7, <1>8, <1>9, <1>10, <1>11 DEF Next, Read, Closed

\* The class buffer has only bytes of this reading, each of them once, and ends
\* with a Nul; what was counted was received; and as long as no reading has
\* received twice, what was served are the requests of the stream before it.
\* This holds whatever the sizes of the buffers and whatever the peer sends.
THEOREM Invariant == Spec => []IInv
<1> QED BY InitInv, StepKeeps, PTL DEF Spec

\* Nobody is closed for flooding who has not sent more than the threshold
\* within one reading.
THEOREM FloodersOnly == Spec => []OnlyFloodersAreClosed
<1>1. IInv => OnlyFloodersAreClosed
  BY DEF IInv, Reading
<1> QED BY <1>1, Invariant, PTL

\* The class buffer always ends with a Nul, however many bytes come at once
\* and however often readClient receives: no receive writes its last place.
THEOREM BufferIsAString == Spec => []BufferIsTerminated
<1>1. IInv => BufferIsTerminated
  BY DEF IInv
<1> QED BY <1>1, Invariant, PTL

\* However often readClient receives, and whatever is left behind when a shorter
\* text is copied over a longer one, no byte of an earlier reading is checked
\* or parsed, and none of this one twice.
THEOREM NothingIsLeftOver == Spec => []MessageIsOfOneReading
<1>1. IInv => MessageIsOfOneReading
  <2> SUFFICES ASSUME IInv, at = "serve", NEW x \in Byte \ {Nul}
               PROVE  Count(Message, x) <= Count(SubSeq(stream, start + 1, taken), x)
    BY DEF MessageIsOfOneReading
  <2>1. TypeOK /\ Sent
    BY DEF IInv
  <2>2. /\ buffer \in [1..SizeBuff -> Byte]
        /\ start \in Nat /\ taken \in Nat /\ start <= taken /\ taken <= Len(stream)
    BY <2>1, StreamFacts DEF TypeOK
  <2>3. Count(buffer, x) <= Within(start, taken, x)
    BY <2>1 DEF Sent
  <2>4. Count(Received(start, taken), x) = Within(start, taken, x)
    BY <2>1, <2>2, ReceivedProperties
  <2>5. Within(start, taken, x) \in Nat
    BY <2>2, WithinSum
  <2>6. /\ Count(Message, x) \in Nat /\ Count(buffer, x) \in Nat
        /\ Count(Message, x) <= Count(buffer, x)
    BY <2>2, MessageCount
  <2>7. Count(Message, x) <= Count(Received(start, taken), x)
    BY <2>3, <2>4, <2>5, <2>6
  <2> QED
    BY <2>7 DEF Received
<1> QED BY <1>1, Invariant, PTL

\* What is checked and parsed after a reading of one receive is the text of
\* what came, from its first byte to its last.
THEOREM FirstReceiveIsExact == Spec => []OneReceiveIsExact
<1>1. IInv => OneReceiveIsExact
  BY MessageIsText DEF IInv, OneReceiveIsExact, Received
<1> QED BY <1>1, Invariant, PTL

\* For any stream without a Nul, and wherever it is cut between readings, the
\* requests served are those it is made of, in their order, up to where it was
\* received, as long as each reading is done with one receive.
THEOREM ServedAsSent == Spec => []ServedInOrder
<1>1. IInv => ServedInOrder
  BY DEF IInv, Order, ServedInOrder
<1> QED BY <1>1, Invariant, PTL

\* Under the same conditions all requests of a peer that closes its connection
\* are served before the connection is closed as a logout.
THEOREM LogoutAfterLastWord == Spec => []LastWordIsServed
<1>1. IInv => LastWordIsServed
  BY DEF IInv, Reading, LogoutIsLast, Order, LastWordIsServed
<1> QED BY <1>1, Invariant, PTL
===============================================================================
