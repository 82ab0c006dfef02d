-------------------------------- MODULE Facts --------------------------------
(****************************************************************************)
(* Facts about natural numbers and about lists that the proofs of several   *)
(* parts use.                                                               *)
(****************************************************************************)
EXTENDS Lists, Functions, FiniteSetTheorems, SequenceTheorems, TLAPS

\* A set of numbers has a least element.
LEMMA Least ==
  ASSUME NEW S, S \subseteq Nat, S # {}
  PROVE  \E m \in S : \A k \in S : m <= k
<1> DEFINE below(k) == {i \in S : i < k}
           T == {below(k) : k \in S}
<1>1. ASSUME NEW k \in S
      PROVE  below(k) \in FiniteSubsetsOf(S)
  <2>1. \A i \in below(k) : i <= k
    OBVIOUS
  <2>2. below(k) \in SUBSET Nat /\ k \in Nat
    OBVIOUS
  <2> HIDE DEF below
  <2>3. IsFiniteSet(below(k))
    BY <2>1, <2>2, FS_BoundedSetOfNaturals
  <2> QED  BY <2>3 DEF FiniteSubsetsOf, below
<1>2. T \subseteq FiniteSubsetsOf(S) /\ T # {}
  BY <1>1
<1> HIDE DEF T
<1>3. PICK L \in T : \A M \in T : ~ (<<M, L>> \in StrictSubsetOrdering(S))
  BY <1>2, FS_StrictSubsetOrderingWellFounded, WFMin
<1>4. PICK m \in S : L = below(m)
  BY <1>3 DEF T
<1>5. ASSUME NEW k \in S, k < m
      PROVE  FALSE
  <2>1. below(k) \subseteq below(m)
    <3>1. ASSUME NEW i \in S, i < k PROVE i < m
      <4>1. i \in Nat /\ k \in Nat /\ m \in Nat
        OBVIOUS
      <4> QED  BY <1>5, <3>1, <4>1
    <3> QED  BY <3>1
  <2>2. k \in below(m) /\ k \notin below(k)
    <3>1. k \in Nat /\ ~ (k < k)
      OBVIOUS
    <3> QED  BY <1>5, <3>1
  <2>3. below(k) \in T /\ below(k) \in SUBSET S /\ below(m) \in SUBSET S
    BY DEF T
  <2> HIDE DEF below
  <2>4. <<below(k), below(m)>> \in StrictSubsetOrdering(S)
    BY <2>1, <2>2, <2>3 DEF StrictSubsetOrdering
  <2> QED  BY <1>3, <1>4, <2>3, <2>4
<1> QED  BY <1>5

\* And a greatest one, if it is bounded.
LEMMA Greatest ==
  ASSUME NEW n \in Nat, NEW S, S \subseteq 0..n, S # {}
  PROVE  \E m \in S : \A k \in S : k <= m
<1> DEFINE T == {t \in Nat : n - t \in S}
<1>1. T \subseteq Nat /\ T # {}
  <2>1. PICK k \in S : k \in 0..n
    OBVIOUS
  <2>2. n - k \in Nat /\ n - (n - k) = k
    BY <2>1
  <2> QED  BY <2>2
<1>2. PICK t \in T : \A u \in T : t <= u
  BY <1>1, Least
<1>3. n - t \in S /\ t \in Nat
  BY <1>2
<1>4. ASSUME NEW k \in S
      PROVE  k <= n - t
  <2>1. k \in 0..n /\ n - k \in Nat /\ n - (n - k) = k
    OBVIOUS
  <2>2. n - k \in T
    BY <2>1
  <2> QED  BY <1>2, <1>3, <2>1, <2>2
<1> QED  BY <1>3, <1>4

----------------------------------------------------------------------------
(* Octets and their bits *)

\* The bit of an octet that counts 2^e.
OctetBit(o, e) == (o \div 2^e) % 2

\* An octet without its n low bits.
Cleared(o, n) == (o \div 2^n) * 2^n

LEMMA PowersUpTo8 ==
  /\ 2^0 = 1 /\ 2^1 = 2 /\ 2^2 = 4 /\ 2^3 = 8 /\ 2^4 = 16
  /\ 2^5 = 32 /\ 2^6 = 64 /\ 2^7 = 128 /\ 2^8 = 256
OBVIOUS

\* An even number and the next differ in their lowest bit alone.
LEMMA EvenAndNext ==
  ASSUME NEW m \in 0..254, m % 2 = 0
  PROVE  /\ (m + 1) % 2 = 1
         /\ \A e \in 1..7 : (m + 1) \div 2^e = m \div 2^e
<1>1. PICK h \in 0..127 : m = 2 * h
  BY m = 2 * (m \div 2) + (m % 2), m \div 2 \in 0..127
<1>2. (m + 1) % 2 = 1 /\ (m + 1) \div 2 = h /\ m \div 2 = h
  BY <1>1
<1>3. (m + 1) \div 4 = m \div 4
  BY <1>1
<1>4. (m + 1) \div 8 = m \div 8
  BY <1>1
<1>5. (m + 1) \div 16 = m \div 16
  BY <1>1
<1>6. (m + 1) \div 32 = m \div 32
  BY <1>1
<1>7. (m + 1) \div 64 = m \div 64
  BY <1>1
<1>8. (m + 1) \div 128 = m \div 128
  BY <1>1
<1> QED  BY <1>2, <1>3, <1>4, <1>5, <1>6, <1>7, <1>8, PowersUpTo8

\* Masking an octet clears its low bits and keeps the others.
LEMMA MaskedOctet ==
  ASSUME NEW o \in 0..255, NEW n \in 0..8
  PROVE  /\ Cleared(o, n) \in 0..255
         /\ \A e \in 0..7 : OctetBit(Cleared(o, n), e) = IF e < n THEN 0 ELSE OctetBit(o, e)
<1> DEFINE m == Cleared(o, n)
<1>0. m = (o \div 2^n) * 2^n
  BY DEF Cleared
<1> HIDE DEF m
<1>1. /\ m \in 0..255
      /\ \A e \in 0..7 : (m \div 2^e) % 2 = IF e < n THEN 0 ELSE (o \div 2^e) % 2
  <2>0. CASE n = 0
    BY <1>0, <2>0, PowersUpTo8
  <2>1. CASE n = 1
    <3>1. PICK q \in 0..127, r \in 0..1 : o = 2 * q + r /\ m = 2 * q
      <4>1. o = 2 * (o \div 2) + (o % 2) /\ o \div 2 \in 0..127 /\ o % 2 \in 0..1
        OBVIOUS
      <4>2. m = 2 * (o \div 2)
        BY <1>0, <2>1, PowersUpTo8
      <4> QED  BY <4>1, <4>2
    <3>2. m \in 0..255
      BY <3>1
    <3>3. (m \div 1) % 2 = 0
      BY <3>1
    <3>4. (m \div 2) % 2 = (o \div 2) % 2
      BY <3>1
    <3>5. (m \div 4) % 2 = (o \div 4) % 2
      BY <3>1
    <3>6. (m \div 8) % 2 = (o \div 8) % 2
      BY <3>1
    <3>7. (m \div 16) % 2 = (o \div 16) % 2
      BY <3>1
    <3>8. (m \div 32) % 2 = (o \div 32) % 2
      BY <3>1
    <3>9. (m \div 64) % 2 = (o \div 64) % 2
      BY <3>1
    <3>10. (m \div 128) % 2 = (o \div 128) % 2
      BY <3>1
    <3> QED  BY <2>1, PowersUpTo8, <3>2, <3>3, <3>4, <3>5, <3>6, <3>7, <3>8, <3>9, <3>10
  <2>2. CASE n = 2
    <3>1. PICK q \in 0..63, r \in 0..3 : o = 4 * q + r /\ m = 4 * q
      <4>1. o = 4 * (o \div 4) + (o % 4) /\ o \div 4 \in 0..63 /\ o % 4 \in 0..3
        OBVIOUS
      <4>2. m = 4 * (o \div 4)
        BY <1>0, <2>2, PowersUpTo8
      <4> QED  BY <4>1, <4>2
    <3>2. m \in 0..255
      BY <3>1
    <3>3. (m \div 1) % 2 = 0
      BY <3>1
    <3>4. (m \div 2) % 2 = 0
      BY <3>1
    <3>5. (m \div 4) % 2 = (o \div 4) % 2
      BY <3>1
    <3>6. (m \div 8) % 2 = (o \div 8) % 2
      BY <3>1
    <3>7. (m \div 16) % 2 = (o \div 16) % 2
      BY <3>1
    <3>8. (m \div 32) % 2 = (o \div 32) % 2
      BY <3>1
    <3>9. (m \div 64) % 2 = (o \div 64) % 2
      BY <3>1
    <3>10. (m \div 128) % 2 = (o \div 128) % 2
      BY <3>1
    <3> QED  BY <2>2, PowersUpTo8, <3>2, <3>3, <3>4, <3>5, <3>6, <3>7, <3>8, <3>9, <3>10
  <2>3. CASE n = 3
    <3>1. PICK q \in 0..31, r \in 0..7 : o = 8 * q + r /\ m = 8 * q
      <4>1. o = 8 * (o \div 8) + (o % 8) /\ o \div 8 \in 0..31 /\ o % 8 \in 0..7
        OBVIOUS
      <4>2. m = 8 * (o \div 8)
        BY <1>0, <2>3, PowersUpTo8
      <4> QED  BY <4>1, <4>2
    <3>2. m \in 0..255
      BY <3>1
    <3>3. (m \div 1) % 2 = 0
      BY <3>1
    <3>4. (m \div 2) % 2 = 0
      BY <3>1
    <3>5. (m \div 4) % 2 = 0
      BY <3>1
    <3>6. (m \div 8) % 2 = (o \div 8) % 2
      BY <3>1
    <3>7. (m \div 16) % 2 = (o \div 16) % 2
      BY <3>1
    <3>8. (m \div 32) % 2 = (o \div 32) % 2
      BY <3>1
    <3>9. (m \div 64) % 2 = (o \div 64) % 2
      BY <3>1
    <3>10. (m \div 128) % 2 = (o \div 128) % 2
      BY <3>1
    <3> QED  BY <2>3, PowersUpTo8, <3>2, <3>3, <3>4, <3>5, <3>6, <3>7, <3>8, <3>9, <3>10
  <2>4. CASE n = 4
    BY <1>0, <2>4, PowersUpTo8
  <2>5. CASE n = 5
    BY <1>0, <2>5, PowersUpTo8
  <2>6. CASE n = 6
    BY <1>0, <2>6, PowersUpTo8
  <2>7. CASE n = 7
    BY <1>0, <2>7, PowersUpTo8
  <2>8. CASE n = 8
    BY <1>0, <2>8, PowersUpTo8
  <2> QED  BY <2>0, <2>1, <2>2, <2>3, <2>4, <2>5, <2>6, <2>7, <2>8
<1> QED  BY <1>1 DEF OctetBit, m

LEMMA MaskedEven ==
  ASSUME NEW o \in 0..255, NEW n \in 1..8
  PROVE  Cleared(o, n) \in 0..254 /\ Cleared(o, n) % 2 = 0
<1>1. CASE n = 1
  <2>1. Cleared(o, n) = 2 * (o \div 2) /\ o \div 2 \in 0..127
    BY <1>1, PowersUpTo8 DEF Cleared
  <2> QED  BY <2>1
<1>2. CASE n = 2
  <2>1. Cleared(o, n) = 4 * (o \div 4) /\ o \div 4 \in 0..63
    BY <1>2, PowersUpTo8 DEF Cleared
  <2> QED  BY <2>1
<1>3. CASE n = 3
  <2>1. Cleared(o, n) = 8 * (o \div 8) /\ o \div 8 \in 0..31
    BY <1>3, PowersUpTo8 DEF Cleared
  <2> QED  BY <2>1
<1>4. CASE n = 4
  <2>1. Cleared(o, n) = 16 * (o \div 16) /\ o \div 16 \in 0..15
    BY <1>4, PowersUpTo8 DEF Cleared
  <2> QED  BY <2>1
<1>5. CASE n = 5
  <2>1. Cleared(o, n) = 32 * (o \div 32) /\ o \div 32 \in 0..7
    BY <1>5, PowersUpTo8 DEF Cleared
  <2> QED  BY <2>1
<1>6. CASE n = 6
  <2>1. Cleared(o, n) = 64 * (o \div 64) /\ o \div 64 \in 0..3
    BY <1>6, PowersUpTo8 DEF Cleared
  <2> QED  BY <2>1
<1>7. CASE n = 7
  <2>1. Cleared(o, n) = 128 * (o \div 128) /\ o \div 128 \in 0..1
    BY <1>7, PowersUpTo8 DEF Cleared
  <2> QED  BY <2>1
<1>8. CASE n = 8
  <2>1. Cleared(o, n) = 256 * (o \div 256) /\ o \div 256 \in 0..0
    BY <1>8, PowersUpTo8 DEF Cleared
  <2> QED  BY <2>1
<1> QED  BY <1>1, <1>2, <1>3, <1>4, <1>5, <1>6, <1>7, <1>8

\* The octet after a masked one differs from it in its lowest bit alone.
LEMMA NextOctet ==
  ASSUME NEW o \in 0..255, NEW n \in 1..8, NEW e \in 0..7
  PROVE  OctetBit(Cleared(o, n) + 1, e) = IF e = 0 THEN 1 ELSE OctetBit(Cleared(o, n), e)
<1> DEFINE m == Cleared(o, n)
<1>1. m \in 0..254 /\ m % 2 = 0
  BY MaskedEven
<1> HIDE DEF m
<1>2. CASE e = 0
  <2>1. (m + 1) % 2 = 1
    BY <1>1, EvenAndNext
  <2> QED  BY <1>1, <1>2, <2>1, PowersUpTo8 DEF OctetBit, m
<1>3. CASE e # 0
  <2>1. e \in 1..7
    BY <1>3
  <2>2. (m + 1) \div 2^e = m \div 2^e
    BY <1>1, <2>1, EvenAndNext
  <2> QED  BY <1>3, <2>2 DEF OctetBit, m
<1> QED  BY <1>2, <1>3

-----------------------------------------------------------------------------
(* Lists *)

\* What holds of the empty list and of every longer one if it holds of the
\* list before it, holds of all.
LEMMA ListInduction ==
  ASSUME NEW S, NEW T, <<>> \in T,
         \A s \in Seq(S), e \in S : s \in T => Append(s, e) \in T
  PROVE  \A s \in Seq(S) : s \in T
<1> DEFINE Bad == {Len(s) : s \in Seq(S) \ T}
<1>1. SUFFICES ASSUME Bad # {} PROVE FALSE
  OBVIOUS
<1>2. Bad \subseteq Nat
  OBVIOUS
<1>3. PICK m \in Bad : \A k \in Bad : m <= k
  BY <1>1, <1>2, Least
<1>4. PICK s \in Seq(S) \ T : m = Len(s)
  BY <1>3
<1>5. PICK u \in Seq(S), e \in S : s = Append(u, e)
  BY <1>4, SequenceEmptyOrAppend
<1>6. Len(s) = Len(u) + 1 /\ Len(u) \in Nat
  BY <1>5, AppendProperties
<1>7. u \in T
  <2>1. SUFFICES ASSUME u \notin T PROVE FALSE
    OBVIOUS
  <2>2. Len(u) \in Bad
    BY <2>1
  <2> HIDE DEF Bad
  <2>3. m <= Len(u)
    BY <1>3, <2>2
  <2> QED  BY <1>4, <1>6, <2>3
<1> QED  BY <1>4, <1>5, <1>7

LEMMA RangeAppend ==
  ASSUME NEW S, NEW s \in Seq(S), NEW e \in S
  PROVE  Range(Append(s, e)) = Range(s) \cup {e} /\ Append(s, e) \in Seq(S)
<1>1. Append(s, e) = s \o <<e>> /\ <<e>> \in Seq(S) /\ Append(s, e) \in Seq(S)
  BY AppendIsConcat
<1>2. Range(<<e>>) = {e}
  BY DEF Range
<1>3. Range(s \o <<e>>) = Range(s) \cup Range(<<e>>)
  BY <1>1, RangeConcatenation
<1> QED  BY <1>1, <1>2, <1>3

\* f is the function that Without() reads its result from.
Keeps(f, s, X) ==
  f = [n \in 0..Len(s) |->
         IF n = 0 THEN <<>> ELSE IF s[n] \in X THEN f[n - 1] ELSE Append(f[n - 1], s[n])]

LEMMA KeepsOne ==
  ASSUME NEW S, NEW s \in Seq(S), NEW X, NEW f, NEW g, Keeps(f, s, X), Keeps(g, s, X)
  PROVE  f = g
<1>1. ASSUME NEW n \in 0..Len(s), f[n] # g[n]
      PROVE  FALSE
  <2> DEFINE D == {i \in 0..Len(s) : f[i] # g[i]}
  <2>1. D \subseteq Nat /\ D # {}
    BY <1>1
  <2>2. PICK m \in D : \A k \in D : m <= k
    BY <2>1, Least
  <2>3. m # 0
    BY <2>2 DEF Keeps
  <2>4. m - 1 \in 0..Len(s) /\ m - 1 \notin D
    <3>1. m \in Nat /\ m <= Len(s) /\ Len(s) \in Nat
      BY <2>2
    <3>2. m - 1 \in 0..Len(s) /\ ~ (m <= m - 1)
      BY <2>3, <3>1
    <3> HIDE DEF D
    <3> QED  BY <2>2, <3>2
  <2>5. f[m - 1] = g[m - 1]
    BY <2>4
  <2>6. f[m] = g[m]
    BY <2>2, <2>3, <2>5 DEF Keeps
  <2> QED  BY <2>2, <2>6
<1>2. DOMAIN f = 0..Len(s) /\ DOMAIN g = 0..Len(s)
  BY DEF Keeps
<1>3. f = [n \in 0..Len(s) |-> f[n]] /\ g = [n \in 0..Len(s) |-> g[n]]
  BY Zenon DEF Keeps
<1> QED  BY <1>1, <1>3

LEMMA KeepsSome ==
  ASSUME NEW S, NEW s \in Seq(S), NEW X
  PROVE  \E f : Keeps(f, s, X)
<1> DEFINE T == {u \in Seq(S) : \E f : Keeps(f, u, X)}
<1>1. <<>> \in T
  <2>1. Keeps([n \in 0..0 |-> <<>>], <<>>, X)
    BY DEF Keeps
  <2> QED  BY <2>1
<1>2. ASSUME NEW u \in Seq(S), NEW e \in S, u \in T
      PROVE  Append(u, e) \in T
  <2>1. PICK f : Keeps(f, u, X)
    BY <1>2
  <2> DEFINE v == Append(u, e)
             g == [n \in 0..Len(v) |->
                     IF n <= Len(u) THEN f[n]
                     ELSE IF e \in X THEN f[n - 1] ELSE Append(f[n - 1], e)]
  <2>2. /\ v \in Seq(S) /\ Len(u) \in Nat /\ Len(v) = Len(u) + 1 /\ v[Len(u) + 1] = e
        /\ \A n \in 1..Len(u) : v[n] = u[n]
    BY AppendProperties
  <2> HIDE DEF v
  <2>3. ASSUME NEW n \in 0..Len(v)
        PROVE  g[n] = IF n = 0 THEN <<>>
                      ELSE IF v[n] \in X THEN g[n - 1] ELSE Append(g[n - 1], v[n])
    <3>1. CASE n = 0
      BY <2>1, <2>2, <3>1 DEF Keeps
    <3>2. CASE n # 0 /\ n <= Len(u)
      <4>1. n \in 1..Len(u) /\ n - 1 \in 0..Len(u) /\ n - 1 \in 0..Len(v) /\ n \in 0..Len(u) /\ n - 1 <= Len(u)
        BY <2>2, <3>2
      <4>2. g[n] = f[n] /\ g[n - 1] = f[n - 1] /\ v[n] = u[n]
        BY <2>2, <3>2, <4>1
      <4>3. f[n] = IF u[n] \in X THEN f[n - 1] ELSE Append(f[n - 1], u[n])
        BY <2>1, <3>2, <4>1 DEF Keeps
      <4> HIDE DEF g
      <4> QED  BY <3>2, <4>2, <4>3
    <3>3. CASE n > Len(u)
      <4>1. n = Len(u) + 1 /\ n # 0 /\ n - 1 = Len(u) /\ n - 1 \in 0..Len(v) /\ ~ (n <= Len(u)) /\ n - 1 <= Len(u)
        BY <2>2, <3>3
      <4>2. g[n - 1] = f[n - 1] /\ v[n] = e
        BY <2>2, <4>1
      <4>3. g[n] = IF e \in X THEN f[n - 1] ELSE Append(f[n - 1], e)
        BY <4>1
      <4> HIDE DEF g
      <4> QED  BY <4>1, <4>2, <4>3
    <3> QED  BY <2>2, <3>1, <3>2, <3>3
  <2>4. g = [n \in 0..Len(v) |-> g[n]]
    OBVIOUS
  <2> HIDE DEF g
  <2>5. Keeps(g, v, X)
    BY <2>3, <2>4 DEF Keeps
  <2> QED  BY <2>2, <2>5 DEF v
<1> HIDE DEF T
<1>3. s \in T
  BY <1>1, <1>2, ListInduction
<1> QED  BY <1>3 DEF T

LEMMA WithoutKept ==
  ASSUME NEW S, NEW s \in Seq(S), NEW X, NEW f, Keeps(f, s, X)
  PROVE  Without(s, X) = f[Len(s)]
<1> DEFINE F == CHOOSE h : Keeps(h, s, X)
<1>1. Keeps(F, s, X)
  BY KeepsSome
<1> HIDE DEF F
<1>2. F = f
  BY <1>1, KeepsOne
<1>3. Without(s, X) = F[Len(s)]
  BY Zenon DEF Without, Keeps, F
<1> QED  BY <1>2, <1>3

LEMMA WithoutEmpty == \A X : Without(<<>>, X) = <<>>
<1> SUFFICES ASSUME NEW X PROVE Without(<<>>, X) = <<>>
  OBVIOUS
<1>1. <<>> \in Seq({}) /\ Len(<<>>) = 0
  OBVIOUS
<1>2. PICK f : Keeps(f, <<>>, X)
  BY <1>1, KeepsSome
<1>3. f[0] = <<>>
  BY <1>2 DEF Keeps
<1> QED  BY <1>1, <1>2, <1>3, WithoutKept

LEMMA WithoutAppend ==
  ASSUME NEW S, NEW s \in Seq(S), NEW e \in S, NEW X
  PROVE  Without(Append(s, e), X) = IF e \in X THEN Without(s, X) ELSE Append(Without(s, X), e)
<1> DEFINE v == Append(s, e)
<1>1. /\ v \in Seq(S) /\ Len(s) \in Nat /\ Len(v) = Len(s) + 1 /\ v[Len(s) + 1] = e
      /\ \A n \in 1..Len(s) : v[n] = s[n]
  BY AppendProperties
<1> HIDE DEF v
<1>2. PICK F : Keeps(F, v, X)
  BY <1>1, KeepsSome
<1> DEFINE f == [n \in 0..Len(s) |-> F[n]]
<1>3. ASSUME NEW n \in 0..Len(s)
      PROVE  F[n] = IF n = 0 THEN <<>>
                    ELSE IF s[n] \in X THEN f[n - 1] ELSE Append(f[n - 1], s[n])
  <2>1. CASE n = 0
    BY <1>1, <1>2, <2>1 DEF Keeps
  <2>2. CASE n # 0
    <3>1. n \in 0..Len(v) /\ n - 1 \in 0..Len(s) /\ n \in 1..Len(s)
      BY <1>1, <2>2
    <3>2. f[n - 1] = F[n - 1] /\ v[n] = s[n]
      BY <1>1, <3>1
    <3>3. F[n] = IF v[n] \in X THEN F[n - 1] ELSE Append(F[n - 1], v[n])
      BY <1>2, <2>2, <3>1 DEF Keeps
    <3> HIDE DEF f
    <3> QED  BY <2>2, <3>2, <3>3
  <2> QED  BY <2>1, <2>2
<1>4. Keeps(f, s, X)
  BY <1>3 DEF Keeps
<1>5. Len(v) \in 0..Len(v) /\ Len(v) # 0 /\ Len(v) - 1 = Len(s) /\ Len(s) \in 0..Len(s)
  BY <1>1
<1>6. F[Len(v)] = IF e \in X THEN F[Len(s)] ELSE Append(F[Len(s)], e)
  BY <1>1, <1>2, <1>5 DEF Keeps
<1>7. f[Len(s)] = F[Len(s)]
  BY <1>5
<1> HIDE DEF f
<1>8. Without(v, X) = F[Len(v)] /\ Without(s, X) = f[Len(s)]
  BY <1>1, <1>2, <1>4, WithoutKept
<1> QED  BY <1>6, <1>7, <1>8 DEF v

\* What is left are elements of the list that are not taken out.
LEMMA WithoutElements ==
  ASSUME NEW S, NEW s \in Seq(S), NEW X
  PROVE  Without(s, X) \in Seq(S \ X) /\ Range(Without(s, X)) \subseteq Range(s)
<1> DEFINE T == {u \in Seq(S) : /\ Without(u, X) \in Seq(S \ X)
                               /\ Range(Without(u, X)) \subseteq Range(u)}
<1>1. <<>> \in T
  <2>1. Without(<<>>, X) = <<>>
    BY WithoutEmpty
  <2>2. <<>> \in Seq(S) /\ <<>> \in Seq(S \ X)
    BY EmptySeq
  <2> QED  BY Zenon, <2>1, <2>2
<1>2. ASSUME NEW u \in Seq(S), NEW e \in S, u \in T
      PROVE  Append(u, e) \in T
  <2> DEFINE w == Without(u, X)
  <2>1. w \in Seq(S \ X) /\ w \in Seq(S) /\ Range(w) \subseteq Range(u)
    BY <1>2, SeqMonotonic
  <2>2. Without(Append(u, e), X) = IF e \in X THEN w ELSE Append(w, e)
    BY WithoutAppend
  <2>3. Range(Append(u, e)) = Range(u) \cup {e} /\ Append(u, e) \in Seq(S)
    BY RangeAppend
  <2> HIDE DEF w
  <2>4. CASE e \in X
    BY <2>1, <2>2, <2>3, <2>4
  <2>5. CASE e \notin X
    <3>1. Append(w, e) \in Seq(S \ X) /\ Range(Append(w, e)) = Range(w) \cup {e}
      BY <2>1, <2>5, RangeAppend
    <3> QED  BY <2>1, <2>2, <2>3, <2>5, <3>1
  <2> QED  BY <2>4, <2>5
<1> HIDE DEF T
<1>3. s \in T
  BY <1>1, <1>2, ListInduction
<1> QED  BY <1>3 DEF T

\* What is left of a list is not longer.
LEMMA WithoutShorter ==
  ASSUME NEW S, NEW s \in Seq(S), NEW X
  PROVE  Len(Without(s, X)) <= Len(s)
<1> DEFINE T == {u \in Seq(S) : Len(Without(u, X)) <= Len(u)}
<1>1. <<>> \in T
  <2>1. Without(<<>>, X) = <<>> /\ <<>> \in Seq(S) /\ Len(<<>>) = 0
    BY WithoutEmpty, EmptySeq
  <2> QED  BY <2>1
<1>2. ASSUME NEW u \in Seq(S), NEW e \in S, u \in T
      PROVE  Append(u, e) \in T
  <2> DEFINE w == Without(u, X)
  <2>1. w \in Seq(S \ X) /\ Len(w) <= Len(u)
    BY <1>2, WithoutElements
  <2>2. w \in Seq(S)
    BY <2>1, SeqMonotonic
  <2>3. Without(Append(u, e), X) = IF e \in X THEN w ELSE Append(w, e)
    BY WithoutAppend
  <2> HIDE DEF w
  <2>4. /\ Append(u, e) \in Seq(S) /\ Len(Append(u, e)) = Len(u) + 1 /\ Len(u) \in Nat
        /\ Len(Append(w, e)) = Len(w) + 1 /\ Len(w) \in Nat
    BY <2>2, AppendProperties, LenProperties
  <2> QED  BY <2>1, <2>3, <2>4
<1> HIDE DEF T
<1>3. s \in T
  BY <1>1, <1>2, ListInduction
<1> QED  BY <1>3 DEF T

LEMMA ConcatAppend ==
  ASSUME NEW S, NEW s \in Seq(S), NEW u \in Seq(S), NEW e \in S
  PROVE  s \o Append(u, e) = Append(s \o u, e)
<1>1. Append(u, e) = u \o <<e>> /\ <<e>> \in Seq(S) /\ s \o u \in Seq(S)
  BY AppendIsConcat, ConcatProperties
<1>2. Append(s \o u, e) = (s \o u) \o <<e>>
  BY <1>1, AppendIsConcat
<1>3. (s \o u) \o <<e>> = s \o (u \o <<e>>)
  BY <1>1, ConcatAssociative
<1> QED  BY <1>1, <1>2, <1>3

LEMMA WithoutConcat ==
  ASSUME NEW S, NEW s \in Seq(S), NEW w \in Seq(S), NEW X
  PROVE  Without(s \o w, X) = Without(s, X) \o Without(w, X)
<1> DEFINE T == {u \in Seq(S) : Without(s \o u, X) = Without(s, X) \o Without(u, X)}
<1>1. Without(s, X) \in Seq(S)
  <2>1. Without(s, X) \in Seq(S \ X)
    BY WithoutElements
  <2> QED  BY <2>1, SeqMonotonic
<1>2. <<>> \in T
  <2>1. s \o <<>> = s /\ Without(<<>>, X) = <<>> /\ Without(s, X) \o <<>> = Without(s, X)
    BY <1>1, WithoutEmpty, ConcatEmptySeq
  <2> QED  BY Zenon, <2>1, EmptySeq
<1>3. ASSUME NEW u \in Seq(S), NEW e \in S, u \in T
      PROVE  Append(u, e) \in T
  <2>1. s \o Append(u, e) = Append(s \o u, e) /\ s \o u \in Seq(S) /\ Append(u, e) \in Seq(S)
    BY ConcatAppend, ConcatProperties, AppendProperties
  <2>2. Without(Append(s \o u, e), X)
          = IF e \in X THEN Without(s \o u, X) ELSE Append(Without(s \o u, X), e)
    <3> DEFINE su == s \o u
    <3>1. su \in Seq(S)
      BY <2>1
    <3> HIDE DEF su
    <3>2. Without(Append(su, e), X) = IF e \in X THEN Without(su, X) ELSE Append(Without(su, X), e)
      BY <3>1, WithoutAppend
    <3> QED  BY <3>2 DEF su
  <2>3. Without(Append(u, e), X) = IF e \in X THEN Without(u, X) ELSE Append(Without(u, X), e)
    BY WithoutAppend
  <2>4. Without(u, X) \in Seq(S)
    <3>1. Without(u, X) \in Seq(S \ X)
      BY WithoutElements
    <3> QED  BY <3>1, SeqMonotonic
  <2>5. Without(s, X) \o Append(Without(u, X), e) = Append(Without(s, X) \o Without(u, X), e)
    BY <1>1, <2>4, ConcatAppend
  <2>6. Without(s \o u, X) = Without(s, X) \o Without(u, X)
    BY <1>3
  <2>7. Without(s \o Append(u, e), X) = Without(s, X) \o Without(Append(u, e), X)
    BY Zenon, <2>1, <2>2, <2>3, <2>5, <2>6
  <2> QED  BY Zenon, <2>1, <2>7
<1> HIDE DEF T
<1>4. w \in T
  BY <1>2, <1>3, ListInduction
<1> QED  BY <1>4 DEF T

\* Nothing is taken out of a list that has none of it.
LEMMA WithoutNone ==
  ASSUME NEW S, NEW s \in Seq(S), NEW X, Range(s) \cap X = {}
  PROVE  Without(s, X) = s
<1> DEFINE T == {u \in Seq(S) : Range(u) \cap X = {} => Without(u, X) = u}
<1>1. <<>> \in T
  BY Zenon, WithoutEmpty, EmptySeq
<1>2. ASSUME NEW u \in Seq(S), NEW e \in S, u \in T
      PROVE  Append(u, e) \in T
  <2>1. Range(Append(u, e)) = Range(u) \cup {e} /\ Append(u, e) \in Seq(S)
    BY RangeAppend
  <2>2. Without(Append(u, e), X) = IF e \in X THEN Without(u, X) ELSE Append(Without(u, X), e)
    BY WithoutAppend
  <2>3. CASE Range(u) \cap X = {} /\ e \notin X
    BY Zenon, <1>2, <2>1, <2>2, <2>3
  <2>4. CASE ~ (Range(u) \cap X = {} /\ e \notin X)
    BY <2>1, <2>4
  <2> QED  BY <2>3, <2>4
<1> HIDE DEF T
<1>3. s \in T
  BY <1>1, <1>2, ListInduction
<1> QED  BY <1>3 DEF T

\* Nothing is left of a list that has nothing else.
LEMMA WithoutAll ==
  ASSUME NEW S, NEW s \in Seq(S), NEW X, Range(s) \subseteq X
  PROVE  Without(s, X) = <<>>
<1>1. Without(s, X) \in Seq(S \ X) /\ Range(Without(s, X)) \subseteq X
  BY WithoutElements
<1> DEFINE w == Without(s, X)
<1> HIDE DEF w
<1>2. w \in Seq(S \ X) /\ Range(w) \subseteq X
  BY <1>1 DEF w
<1>3. SUFFICES ASSUME w # <<>> PROVE FALSE
  BY DEF w
<1>4. 1 \in 1..Len(w) /\ DOMAIN w = 1..Len(w)
  BY <1>2, <1>3
<1>5. w[1] \in S \ X
  BY <1>2, <1>4, ElementOfSeq
<1>6. w[1] \in Range(w)
  BY <1>4 DEF Range
<1> QED  BY <1>2, <1>5, <1>6
==============================================================================
