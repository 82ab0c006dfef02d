-------------------------- MODULE Services_proofs --------------------------
(***************************************************************************)
(* Proofs about two small services, each of which has its own state: the   *)
(* history file, with and without its lock, and the accounts.              *)
(***************************************************************************)
EXTENDS Services, Facts

-----------------------------------------------------------------------------
(* The history file, with or without the lock: types, and the order of records *)

Ordered(s, b) == InOrder(s, b) /\ \A j \in 1..Len(s) : \E l \in 1..Len(b) : b[l] = s[j]

\* Who writes has a file open; every list that is or may be in a file has its
\* records in the order in which they were made.
FileBase ==
  /\ FileTypeOK
  /\ \A t \in Threads : (at[t] = "write" => fd[t] # None) /\ Ordered(items[t], begun)
  /\ \A i \in Inodes : data[i] # Torn => Ordered(data[i], begun)

LEMMA NewestFacts ==
  ASSUME NEW s \in Seq(Entries)
  PROVE  /\ Newest(s) \in Seq(Entries) /\ Len(Newest(s)) <= Keep
         /\ Len(s) <= Keep => Newest(s) = s
         /\ Newest(s) = FileLog!Last(s, Keep)
<1> DEFINE m == IF Len(s) > Keep THEN Len(s) - Keep + 1 ELSE 1
<1>1. Len(s) \in Nat /\ Keep \in Nat /\ Keep # 0
  BY FileAssumption, LenProperties
<1>2. m \in 1..Len(s)+1 /\ Newest(s) = SubSeq(s, m, Len(s))
  BY <1>1 DEF Newest
<1>3. /\ SubSeq(s, m, Len(s)) \in Seq(Entries)
      /\ Len(SubSeq(s, m, Len(s))) = IF m <= Len(s) THEN Len(s) - m + 1 ELSE 0
  <2> HIDE DEF m
  <2> QED  BY <1>1, <1>2, SubSeqProperties
<1>4. Len(Newest(s)) <= Keep
  BY <1>1, <1>2, <1>3
<1>5. Len(s) <= Keep => Newest(s) = s
  <2>1. SubSeq(s, 1, Len(s)) = s
    BY SubSeqFull
  <2>2. Len(s) <= Keep => m = 1
    BY <1>1
  <2> QED  BY Zenon, <1>2, <2>1, <2>2
<1>6. Newest(s) = FileLog!Last(s, Keep)
  BY DEF Newest, FileLog!Last
<1> QED  BY <1>2, <1>3, <1>4, <1>5, <1>6

LEMMA OrderedEmpty == \A b : Ordered(<<>>, b)
BY DEF Ordered, InOrder

LEMMA OrderedGrows ==
  ASSUME NEW S, NEW b \in Seq(S), NEW e \in S, NEW s, Ordered(s, b)
  PROVE  Ordered(s, Append(b, e))
<1> DEFINE c == Append(b, e)
<1>1. Len(b) \in Nat /\ Len(c) = Len(b) + 1 /\ \A i \in 1..Len(b) : c[i] = b[i]
  BY AppendProperties, LenProperties
<1> HIDE DEF c
<1>2. ASSUME NEW j \in 1..Len(s), NEW i \in 1..(Len(s) - 1), i < j
      PROVE  \E l \in 1..Len(c), k \in 1..(Len(c) - 1) : k < l /\ c[k] = s[i] /\ c[l] = s[j]
  <2>1. PICK l \in 1..Len(b), k \in 1..(Len(b) - 1) : k < l /\ b[k] = s[i] /\ b[l] = s[j]
    BY <1>2 DEF Ordered, InOrder
  <2>2. /\ l \in 1..Len(c) /\ k \in 1..(Len(c) - 1) /\ k \in 1..Len(b)
        /\ c[k] = b[k] /\ c[l] = b[l]
    BY <1>1
  <2> QED  BY <2>1, <2>2
<1>3. ASSUME NEW j \in 1..Len(s)
      PROVE  \E l \in 1..Len(c) : c[l] = s[j]
  <2>1. PICK l \in 1..Len(b) : b[l] = s[j]
    BY DEF Ordered
  <2> QED  BY <1>1, <2>1
<1>4. Ordered(s, c)
  BY <1>2, <1>3 DEF Ordered, InOrder
<1> QED  BY <1>4 DEF c

LEMMA OrderedAppend ==
  ASSUME NEW S, NEW s \in Seq(S), NEW b \in Seq(S), NEW e \in S, Ordered(s, b)
  PROVE  Ordered(Append(s, e), Append(b, e))
<1> DEFINE c == Append(b, e)
           u == Append(s, e)
<1>1. /\ Len(s) \in Nat /\ Len(b) \in Nat /\ Len(c) = Len(b) + 1 /\ c[Len(b) + 1] = e
      /\ \A i \in 1..Len(b) : c[i] = b[i]
      /\ Len(u) = Len(s) + 1 /\ u[Len(s) + 1] = e
      /\ \A i \in 1..Len(s) : u[i] = s[i]
  BY AppendProperties, LenProperties
<1> HIDE DEF c, u
<1>2. \A j \in 1..Len(s) : \E l \in 1..Len(b) : c[l] = s[j]
  BY <1>1 DEF Ordered
<1>3. Ordered(s, c)
  BY OrderedGrows DEF c
<1>5. ASSUME NEW j \in 1..Len(u), NEW i \in 1..(Len(u) - 1), i < j
      PROVE  \E l \in 1..Len(c), k \in 1..(Len(c) - 1) : k < l /\ c[k] = u[i] /\ c[l] = u[j]
  <2>1. i \in 1..Len(s) /\ u[i] = s[i]
    BY <1>1, <1>5
  <2>2. CASE j = Len(s) + 1
    <3>1. PICK k \in 1..Len(b) : c[k] = s[i]
      BY <1>2, <2>1
    <3>2. Len(c) \in 1..Len(c) /\ k \in 1..(Len(c) - 1) /\ k < Len(c) /\ c[Len(c)] = e /\ u[j] = e
      BY <1>1, <2>2
    <3> QED  BY <2>1, <3>1, <3>2
  <2>3. CASE j # Len(s) + 1
    <3>1. j \in 1..Len(s) /\ u[j] = s[j] /\ i \in 1..(Len(s) - 1)
      BY <1>1, <1>5, <2>3
    <3>2. PICK l \in 1..Len(c), k \in 1..(Len(c) - 1) : k < l /\ c[k] = s[i] /\ c[l] = s[j]
      BY <1>3, <1>5, <3>1 DEF Ordered, InOrder
    <3> QED  BY <2>1, <3>1, <3>2
  <2> QED  BY <2>2, <2>3
<1>6. \A j \in 1..Len(u) : \E l \in 1..Len(c) : c[l] = u[j]
  <2> SUFFICES ASSUME NEW j \in 1..Len(u) PROVE \E l \in 1..Len(c) : c[l] = u[j]
    OBVIOUS
  <2>1. CASE j = Len(s) + 1
    <3>1. Len(b) + 1 \in 1..Len(c) /\ c[Len(b) + 1] = u[j]
      BY <1>1, <2>1
    <3> QED  BY <3>1
  <2>2. CASE j # Len(s) + 1
    <3>1. j \in 1..Len(s) /\ u[j] = s[j]
      BY <1>1, <2>2
    <3>2. PICK l \in 1..Len(b) : c[l] = s[j]
      BY <1>2, <3>1
    <3>3. l \in 1..Len(c)
      BY <1>1
    <3> QED  BY <3>1, <3>2, <3>3
  <2> QED  BY <2>1, <2>2
<1>7. Ordered(u, c)
  BY <1>5, <1>6 DEF Ordered, InOrder
<1> QED  BY <1>7 DEF c, u

LEMMA OrderedNewest ==
  ASSUME NEW s \in Seq(Entries), NEW b, Ordered(s, b)
  PROVE  Ordered(Newest(s), b)
<1> DEFINE m == IF Len(s) > Keep THEN Len(s) - Keep + 1 ELSE 1
           w == SubSeq(s, m, Len(s))
<1>1. Len(s) \in Nat /\ Keep \in Nat /\ Keep # 0
  BY FileAssumption, LenProperties
<1>2. m \in 1..Len(s)+1 /\ Newest(s) = w
  BY <1>1 DEF Newest
<1>3. /\ Len(w) = IF m <= Len(s) THEN Len(s) - m + 1 ELSE 0
      /\ \A i \in 1..(Len(s) - m + 1) : w[i] = s[m + i - 1]
  <2> HIDE DEF m
  <2> QED  BY <1>1, <1>2, SubSeqProperties
<1> HIDE DEF m, w
<1>4. \A i \in 1..Len(w) : m + i - 1 \in 1..Len(s) /\ w[i] = s[m + i - 1]
  BY <1>1, <1>2, <1>3
<1>5. \A j \in 1..Len(w) : \E l \in 1..Len(b) : b[l] = w[j]
  BY <1>4 DEF Ordered
<1>6. ASSUME NEW j \in 1..Len(w), NEW i \in 1..(Len(w) - 1), i < j
      PROVE  \E l \in 1..Len(b), k \in 1..(Len(b) - 1) : k < l /\ b[k] = w[i] /\ b[l] = w[j]
  <2>1. Len(w) \in Nat /\ i \in 1..Len(w)
    BY <1>1, <1>2, <1>3
  <2> DEFINE x == m + i - 1
             y == m + j - 1
  <2>2. x \in 1..(Len(s) - 1) /\ y \in 1..Len(s) /\ x < y
    BY <1>1, <1>2, <1>3, <1>4, <1>6, <2>1
  <2>3. w[i] = s[x] /\ w[j] = s[y]
    BY <1>4, <2>1
  <2> HIDE DEF x, y
  <2>4. PICK l \in 1..Len(b), k \in 1..(Len(b) - 1) : k < l /\ b[k] = s[x] /\ b[l] = s[y]
    BY <2>2 DEF Ordered, InOrder
  <2> QED  BY <2>3, <2>4
<1> QED  BY <1>2, <1>5, <1>6 DEF Ordered, InOrder

LEMMA OrderedWithout ==
  ASSUME NEW s \in Seq(Entries), NEW b \in Seq(Entries), NEW X, Ordered(s, b)
  PROVE  Ordered(Without(s, X), b)
<1> DEFINE T == {u \in Seq(Entries) : Ordered(u, b) => Ordered(Without(u, X), b)}
<1>1. <<>> \in T
  <2>1. Without(<<>>, X) = <<>> /\ <<>> \in Seq(Entries)
    BY WithoutEmpty, EmptySeq
  <2> QED  BY Zenon, <2>1
<1>2. ASSUME NEW u \in Seq(Entries), NEW e \in Entries, u \in T
      PROVE  Append(u, e) \in T
  <2> DEFINE v == Append(u, e)
             w == Without(u, X)
             z == Append(w, e)
  <2>1. /\ Len(u) \in Nat /\ Len(v) = Len(u) + 1 /\ v[Len(u) + 1] = e /\ v \in Seq(Entries)
        /\ \A i \in 1..Len(u) : v[i] = u[i]
    BY AppendProperties, LenProperties
  <2>2. w \in Seq(Entries) /\ Range(w) \subseteq Range(u)
    <3>1. w \in Seq(Entries \ X) /\ Range(w) \subseteq Range(u)
      BY WithoutElements
    <3> QED  BY <3>1, SeqMonotonic
  <2>3. Without(v, X) = IF e \in X THEN w ELSE z
    BY Zenon, WithoutAppend
  <2> HIDE DEF v, w
  <2>4. /\ Len(w) \in Nat /\ Len(z) = Len(w) + 1 /\ z[Len(w) + 1] = e
        /\ \A i \in 1..Len(w) : z[i] = w[i]
    BY <2>2, AppendProperties, LenProperties
  <2> HIDE DEF z
  <2>5. SUFFICES ASSUME Ordered(v, b) PROVE Ordered(Without(v, X), b)
    BY <2>1 DEF v
  <2>6. Ordered(u, b)
    <3>1. ASSUME NEW j \in 1..Len(u), NEW i \in 1..(Len(u) - 1), i < j
          PROVE  \E l \in 1..Len(b), k \in 1..(Len(b) - 1) : k < l /\ b[k] = u[i] /\ b[l] = u[j]
      <4>1. j \in 1..Len(v) /\ i \in 1..(Len(v) - 1) /\ v[i] = u[i] /\ v[j] = u[j]
        BY <2>1
      <4>2. PICK l \in 1..Len(b), k \in 1..(Len(b) - 1) : k < l /\ b[k] = v[i] /\ b[l] = v[j]
        BY <2>5, <3>1, <4>1 DEF Ordered, InOrder
      <4> QED  BY <4>1, <4>2
    <3>2. \A j \in 1..Len(u) : \E l \in 1..Len(b) : b[l] = u[j]
      <4>1. \A j \in 1..Len(u) : j \in 1..Len(v) /\ v[j] = u[j]
        BY <2>1
      <4> QED  BY <2>5, <4>1 DEF Ordered
    <3> QED  BY <3>1, <3>2 DEF Ordered, InOrder
  <2>7. Ordered(w, b)
    BY <2>6, u \in T DEF w
  <2>8. CASE e \in X
    BY <2>3, <2>7, <2>8
  <2>9. CASE e \notin X
    <3>1. PICK l \in 1..Len(b) : b[l] = e
      <4>1. Len(v) \in 1..Len(v) /\ v[Len(v)] = e
        BY <2>1
      <4> QED  BY <2>5, <4>1 DEF Ordered
    <3>2. ASSUME NEW i \in 1..Len(w)
          PROVE  \E l1 \in 1..Len(b), k \in 1..(Len(b) - 1) : k < l1 /\ b[k] = w[i] /\ b[l1] = e
      <4>0. w[i] \in Range(u) /\ DOMAIN u = 1..Len(u)
        <5>1. DOMAIN w = 1..Len(w) /\ DOMAIN u = 1..Len(u)
          BY <2>2, LenProperties
        <5> QED  BY <2>2, <5>1 DEF Range
      <4>1. PICK n \in 1..Len(u) : u[n] = w[i]
        BY <4>0 DEF Range
      <4>2. n \in 1..(Len(v) - 1) /\ Len(v) \in 1..Len(v) /\ n < Len(v) /\ v[n] = u[n] /\ v[Len(v)] = e
        BY <2>1
      <4>3. PICK l1 \in 1..Len(b), k \in 1..(Len(b) - 1) : k < l1 /\ b[k] = v[n] /\ b[l1] = v[Len(v)]
        BY <2>5, <4>2 DEF Ordered, InOrder
      <4> QED  BY <4>1, <4>2, <4>3
    <3>3. ASSUME NEW j \in 1..Len(z), NEW i \in 1..(Len(z) - 1), i < j
          PROVE  \E l1 \in 1..Len(b), k \in 1..(Len(b) - 1) : k < l1 /\ b[k] = z[i] /\ b[l1] = z[j]
      <4>1. i \in 1..Len(w) /\ z[i] = w[i]
        BY <2>4
      <4>2. CASE j = Len(w) + 1
        BY <2>4, <3>2, <4>1, <4>2
      <4>3. CASE j # Len(w) + 1
        <5>1. j \in 1..Len(w) /\ z[j] = w[j]
          <6>1. j \in 1..(Len(w) + 1) /\ Len(w) \in Nat
            BY <2>4
          <6>2. j \in 1..Len(w)
            BY <4>3, <6>1
          <6> QED  BY <2>4, <6>2
        <5>0. i \in 1..(Len(w) - 1)
          BY <2>4, <3>3, <5>1
        <5>2. PICK l1 \in 1..Len(b), k \in 1..(Len(b) - 1) : k < l1 /\ b[k] = w[i] /\ b[l1] = w[j]
          BY <2>7, <3>3, <5>0, <5>1 DEF Ordered, InOrder
        <5> QED  BY <4>1, <5>1, <5>2
      <4> QED  BY <4>2, <4>3
    <3>4. ASSUME NEW j \in 1..Len(z)
          PROVE  \E l1 \in 1..Len(b) : b[l1] = z[j]
      <4>1. CASE j = Len(w) + 1
        BY <2>4, <3>1, <4>1
      <4>2. CASE j # Len(w) + 1
        <5>1. j \in 1..Len(w) /\ z[j] = w[j]
          BY <2>4, <4>2
        <5> QED  BY <2>7, <5>1 DEF Ordered
      <4> QED  BY <4>1, <4>2
    <3>5. Ordered(z, b)
      BY <3>3, <3>4 DEF Ordered, InOrder
    <3> QED  BY <2>3, <2>9, <3>5
  <2> QED  BY <2>8, <2>9
<1>3. s \in T
  <2> HIDE DEF T
  <2> QED  BY <1>1, <1>2, ListInduction
<1> QED  BY <1>3

\* A read takes what is in the file, or nothing.
LEMMA ShownBase == FileBase => Shown \in Seq(Entries) /\ Ordered(Shown, begun)
<1> SUFFICES ASSUME FileBase PROVE Shown \in Seq(Entries) /\ Ordered(Shown, begun)
  OBVIOUS
<1>1. CASE Shown = <<>>
  BY <1>1, EmptySeq, OrderedEmpty
<1>2. CASE Shown # <<>>
  <2>1. name.json \in Inodes /\ data[name.json] # Torn /\ Shown = data[name.json]
    BY <1>2 DEF Shown, FileBase, FileTypeOK
  <2> QED  BY <2>1 DEF FileBase, FileTypeOK
<1> QED  BY <1>1, <1>2

LEMMA BeginBase ==
  ASSUME FileBase, NEW t \in Threads, NEW list \in Seq(Entries), Begin(t, list),
         begun' \in Seq(Entries), Ordered(list, begun'), UNCHANGED locked,
         \A s : Ordered(s, begun) => Ordered(s, begun')
  PROVE  FileBase'
<1>1. /\ at' = [at EXCEPT ![t] = "open"] /\ items' = [items EXCEPT ![t] = Newest(list)]
      /\ UNCHANGED <<name, data, fd, failed>> /\ lock' \in Threads \cup {None}
  BY DEF Begin, FileBase, FileTypeOK
<1>2. /\ Newest(list) \in Seq(Entries) /\ Len(Newest(list)) <= Keep
      /\ Ordered(Newest(list), begun')
  BY NewestFacts, OrderedNewest
<1>3. FileTypeOK'
  BY <1>1, <1>2 DEF FileBase, FileTypeOK
<1> QED  BY <1>1, <1>2, <1>3 DEF FileBase, FileTypeOK

LEMMA EndBase ==
  ASSUME FileBase, NEW t \in Threads, End(t), name' \in [{"json", "tmp"} -> Inodes \cup {None}],
         failed' \in BOOLEAN, UNCHANGED <<data, locked>>
  PROVE  FileBase'
<1>1. /\ at' = [at EXCEPT ![t] = "idle"] /\ items' = [items EXCEPT ![t] = <<>>]
      /\ fd' = [fd EXCEPT ![t] = None] /\ lock' \in Threads \cup {None} /\ UNCHANGED begun
  BY DEF End, FileBase, FileTypeOK
<1>2. <<>> \in Seq(Entries) /\ Len(<<>>) <= Keep /\ Ordered(<<>>, begun)
  BY FileAssumption, EmptySeq, OrderedEmpty
<1>3. FileTypeOK'
  BY <1>1, <1>2 DEF FileBase, FileTypeOK
<1> QED  BY <1>1, <1>2, <1>3 DEF FileBase, FileTypeOK

LEMMA BaseSteps ==
  ASSUME FileBase, [FileNext]_fileVars
  PROVE  FileBase'
<1>1. Shown \in Seq(Entries) /\ Ordered(Shown, begun) /\ begun \in Seq(Entries)
  BY ShownBase DEF FileBase, FileTypeOK
<1>0. CASE UNCHANGED fileVars
  BY <1>0 DEF fileVars, FileBase, FileTypeOK
<1> SUFFICES ASSUME FileNext PROVE FileBase'
  BY <1>0
<1>2. locked \in BOOLEAN /\ UNCHANGED locked
  BY DEF FileNext, FileBase, FileTypeOK
<1>3. ASSUME NEW t \in Threads, NEW e \in Entries, AppendBegins(t, e)
      PROVE  FileBase'
  <2> DEFINE l == Append(Shown, e)
  <2>1. begun' = Append(begun, e) /\ Begin(t, l)
    BY <1>3 DEF AppendBegins
  <2>2. l \in Seq(Entries) /\ begun' \in Seq(Entries)
    BY <1>1, <2>1, RangeAppend
  <2>3. Ordered(l, begun')
    BY <1>1, <2>1, OrderedAppend
  <2>4. \A s : Ordered(s, begun) => Ordered(s, begun')
    BY <1>1, <2>1, OrderedGrows
  <2> HIDE DEF l
  <2> QED  BY <1>2, <2>1, <2>2, <2>3, <2>4, BeginBase
<1>4. ASSUME NEW t \in Threads, NEW e \in Entries, DeleteBegins(t, e)
      PROVE  FileBase'
  <2> DEFINE l == Without(Shown, {e})
  <2>1. begun' = begun /\ Begin(t, l)
    BY <1>4 DEF DeleteBegins
  <2>2. l \in Seq(Entries)
    <3>1. l \in Seq(Entries \ {e})
      BY <1>1, WithoutElements
    <3> QED  BY <3>1, SeqMonotonic
  <2>3. Ordered(l, begun)
    BY <1>1, OrderedWithout
  <2> HIDE DEF l
  <2> QED  BY <1>1, <1>2, <2>1, <2>2, <2>3, BeginBase
<1>5. ASSUME NEW t \in Threads, ClearBegins(t)
      PROVE  FileBase'
  BY <1>1, <1>2, <1>5, BeginBase, EmptySeq, OrderedEmpty DEF ClearBegins
<1>6. ASSUME NEW t \in Threads, Open(t)
      PROVE  FileBase'
  <2>1. PICK i \in Inodes : /\ name' = [name EXCEPT !.tmp = i] /\ data' = [data EXCEPT ![i] = Torn]
                            /\ fd' = [fd EXCEPT ![t] = i]
    BY <1>6 DEF Open
  <2>2. at' = [at EXCEPT ![t] = "write"] /\ UNCHANGED <<lock, items, begun, failed>>
    BY <1>6 DEF Open
  <2>3. FileTypeOK'
    BY <1>2, <2>1, <2>2 DEF FileBase, FileTypeOK
  <2> QED  BY <2>1, <2>2, <2>3, FileAssumption DEF FileBase, FileTypeOK
<1>7. ASSUME NEW t \in Threads, Write(t)
      PROVE  FileBase'
  <2>1. /\ at[t] = "write" /\ at' = [at EXCEPT ![t] = "replace"] /\ fd' = [fd EXCEPT ![t] = None]
        /\ UNCHANGED <<name, lock, items, begun, failed>>
    BY <1>7 DEF Write
  <2>2. fd[t] \in Inodes /\ Ordered(items[t], begun) /\ items[t] \in Seq(Entries)
    BY <2>1 DEF FileBase, FileTypeOK
  <2>3. PICK d \in {items[t], Torn} : data' = [data EXCEPT ![fd[t]] = d]
    BY <1>7 DEF Write
  <2>4. FileTypeOK'
    BY <1>2, <2>1, <2>2, <2>3 DEF FileBase, FileTypeOK
  <2> QED  BY <2>1, <2>2, <2>3, <2>4 DEF FileBase, FileTypeOK
<1>8. ASSUME NEW t \in Threads, Replace(t)
      PROVE  FileBase'
  <2>1. /\ name.tmp \in Inodes /\ name' = [json |-> name.tmp, tmp |-> None]
        /\ End(t) /\ failed' \in BOOLEAN /\ UNCHANGED data
    BY <1>8 DEF Replace, FileBase, FileTypeOK
  <2>2. name' \in [{"json", "tmp"} -> Inodes \cup {None}]
    BY <2>1
  <2> QED  BY <1>2, <2>1, <2>2, EndBase
<1>9. ASSUME NEW t \in Threads, FileFails(t)
      PROVE  FileBase'
  BY <1>2, <1>9, EndBase DEF FileFails, FileBase, FileTypeOK
<1>10. CASE FileCrash
  <2>1. <<>> \in Seq(Entries) /\ Len(<<>>) <= Keep /\ Ordered(<<>>, begun)
    BY FileAssumption, EmptySeq, OrderedEmpty
  <2> QED  BY <1>2, <1>10, <2>1 DEF FileCrash, FileBase, FileTypeOK
<1> QED  BY <1>3, <1>4, <1>5, <1>6, <1>7, <1>8, <1>9, <1>10 DEF FileNext, FileStep

LEMMA BaseStarts == FileInit => FileBase
<1> SUFFICES ASSUME FileInit PROVE FileBase
  OBVIOUS
<1>1. name \in [{"json", "tmp"} -> Inodes \cup {None}]
  BY DEF FileInit
<1>2. <<>> \in Seq(Entries) /\ Len(<<>>) <= Keep /\ Ordered(<<>>, begun)
  BY FileAssumption, EmptySeq, OrderedEmpty
<1> QED  BY <1>1, <1>2 DEF FileInit, FileBase, FileTypeOK

LEMMA BaseAlways == FileSpec => []FileBase
<1> QED  BY BaseStarts, BaseSteps, PTL DEF FileSpec

\* Every variable keeps its type and no list is longer than what is kept, with
\* the lock or without it.
THEOREM FileTypes == FileSpec => []FileTypeOK
<1>1. FileBase => FileTypeOK
  BY DEF FileBase
<1> QED  BY <1>1, BaseAlways, PTL

\* Threads that overwrite each other's list may lose a record; they bring none
\* twice and none before an older one (sampler.py:120-133, 161).
THEOREM FileInOrder == FileSpec => []OldestFirst
<1>1. FileBase => OldestFirst
  BY ShownBase DEF OldestFirst, Ordered
<1> QED  BY <1>1, BaseAlways, PTL

-----------------------------------------------------------------------------
(* The history file, with the lock *)

\* What an operation that holds the lock may be about to write.
Asked(l) ==
  \/ l = <<>>
  \/ \E e \in Entries : l = Newest(Append(Shown, e)) \/ l = Without(Shown, {e})

\* Who is at work holds the lock; the .tmp is its own and becomes its list.
FileInv ==
  /\ FileTypeOK
  /\ \A t \in Threads :
       /\ at[t] # "idle" <=> lock = t
       /\ at[t] = "write" => fd[t] = name.tmp /\ name.tmp # None
       /\ at[t] # "write" => fd[t] = None
       /\ at[t] = "write" => data[name.tmp] = Torn
       /\ at[t] = "replace" => name.tmp # None /\ data[name.tmp] = items[t]
       /\ at[t] # "idle" => Asked(items[t])
  /\ name.json # None => name.json # name.tmp /\ data[name.json] # Torn
  /\ Len(Shown) <= Keep

\* A step after which everyone else is where it was, and nobody else at work.
LEMMA OneWorks ==
  ASSUME FileInv, NEW t \in Threads, lock = t
  PROVE  \A u \in Threads \ {t} : at[u] = "idle" /\ fd[u] = None
BY DEF FileInv

LEMMA ShownList == FileTypeOK => Shown \in Seq(Entries)
BY EmptySeq DEF Shown, FileTypeOK

LEMMA BeginKeeps ==
  ASSUME locked, FileInv, FileTypeOK', UNCHANGED locked, NEW t \in Threads, NEW list \in Seq(Entries), Begin(t, list),
         Asked(Newest(list))
  PROVE  FileInv' /\ UNCHANGED <<Shown, failed>>
<1>1. /\ lock = None /\ lock' = t /\ UNCHANGED <<name, data, fd, failed>>
      /\ at' = [at EXCEPT ![t] = "open"] /\ items' = [items EXCEPT ![t] = Newest(list)]
  BY DEF Begin
<1>2. UNCHANGED Shown
  BY <1>1 DEF Shown
<1>3. Newest(list) \in Seq(Entries) /\ Len(Newest(list)) <= Keep
  BY NewestFacts
<1>4. \A u \in Threads : at[u] = "idle" /\ fd[u] = None
  BY <1>1, FileAssumption DEF FileInv
<1>6. /\ at'[t] = "open" /\ items'[t] = Newest(list)
      /\ \A u \in Threads \ {t} : at'[u] = "idle" /\ fd'[u] = None
  BY <1>1, <1>4 DEF FileInv, FileTypeOK
<1>7. Asked(items[t])'
  BY <1>2, <1>6 DEF Asked
<1> QED  BY <1>1, <1>2, <1>4, <1>6, <1>7 DEF FileInv

LEMMA OpenKeeps ==
  ASSUME locked, FileInv, FileTypeOK', UNCHANGED locked, NEW t \in Threads, Open(t)
  PROVE  FileInv' /\ UNCHANGED <<Shown, failed>>
<1>1. PICK i \in Inodes :
        /\ IF name.tmp = None THEN i \notin InUse ELSE i = name.tmp
        /\ name' = [name EXCEPT !.tmp = i]
        /\ data' = [data EXCEPT ![i] = Torn]
        /\ fd' = [fd EXCEPT ![t] = i]
  BY DEF Open
<1>2. /\ at[t] = "open" /\ at' = [at EXCEPT ![t] = "write"]
      /\ UNCHANGED <<lock, items, begun, failed>>
  BY DEF Open
<1>3. lock = t /\ \A u \in Threads \ {t} : at[u] = "idle" /\ fd[u] = None
  BY <1>2, OneWorks DEF FileInv
<1>5. i # name.json /\ i # None
  BY <1>1, FileAssumption DEF FileInv, InUse
<1>6. /\ name'.json = name.json /\ name'.tmp = i /\ data'[i] = Torn /\ fd'[t] = i /\ at'[t] = "write"
      /\ \A j \in Inodes \ {i} : data'[j] = data[j]
      /\ \A u \in Threads \ {t} : at'[u] = at[u] /\ fd'[u] = fd[u]
  BY <1>1, <1>2 DEF FileInv, FileTypeOK
<1>7. UNCHANGED Shown
  <2>1. name.json # None => name.json \in Inodes /\ data'[name.json] = data[name.json]
    BY <1>5, <1>6 DEF FileInv, FileTypeOK
  <2> QED  BY <1>6, <2>1 DEF Shown
<1>8. Asked(items[t])'
  BY <1>2, <1>7 DEF FileInv, Asked
<1>9. name'.json # None => name'.json # name'.tmp /\ data'[name'.json] # Torn
  <2>1. name.json # None => name.json \in Inodes
    BY DEF FileInv, FileTypeOK
  <2> QED  BY <1>5, <1>6, <2>1 DEF FileInv
<1> QED  BY <1>2, <1>3, <1>5, <1>6, <1>7, <1>8, <1>9 DEF FileInv

LEMMA WriteKeeps ==
  ASSUME locked, FileInv, FileTypeOK', UNCHANGED locked, NEW t \in Threads, Write(t)
  PROVE  FileInv' /\ UNCHANGED <<Shown, failed>>
<1>1. /\ at[t] = "write" /\ at' = [at EXCEPT ![t] = "replace"] /\ fd' = [fd EXCEPT ![t] = None]
      /\ UNCHANGED <<name, lock, items, begun, failed>>
  BY DEF Write
<1> DEFINE i == name.tmp
<1>2. /\ lock = t /\ \A u \in Threads \ {t} : at[u] = "idle" /\ fd[u] = None
      /\ fd[t] = i /\ i # None /\ i \in Inodes /\ data[i] = Torn
  BY <1>1, OneWorks DEF FileInv, FileTypeOK
<1>3. data' = [data EXCEPT ![i] = items[t]]
  <2>1. ~ \E u \in Threads \ {t} : fd[u] = fd[t]
    BY <1>2
  <2>2. ~ (data[fd[t]] # Torn)
    BY <1>2
  <2> QED  BY <1>2, <2>1, <2>2 DEF Write
<1> HIDE DEF i
<1>5. /\ data'[i] = items[t] /\ \A j \in Inodes \ {i} : data'[j] = data[j]
      /\ at'[t] = "replace" /\ fd'[t] = None
      /\ \A u \in Threads \ {t} : at'[u] = at[u] /\ fd'[u] = fd[u]
  BY <1>1, <1>2, <1>3 DEF FileInv, FileTypeOK
<1>6. name.json # None => name.json \in Inodes /\ data'[name.json] = data[name.json]
  BY <1>5 DEF FileInv, FileTypeOK, i
<1>7. UNCHANGED Shown
  BY <1>1, <1>6 DEF Shown
<1>8. Asked(items[t])'
  BY <1>1, <1>7 DEF FileInv, Asked
<1> QED  BY <1>1, <1>2, <1>5, <1>6, <1>7, <1>8 DEF FileInv, i

\* The rename shows the list that was asked for: one step of the log.
LEMMA ReplaceKeeps ==
  ASSUME locked, FileInv, FileTypeOK', UNCHANGED locked, NEW t \in Threads, Replace(t)
  PROVE  FileInv' /\ FileLog!Next /\ failed' = FALSE
<1>0. /\ LogSeen = Shown /\ LogSeen' = Shown'
      /\ (locked /\ failed)' = failed' /\ failed' \in BOOLEAN
  BY DEF LogSeen, FileTypeOK
<1>1. /\ at[t] = "replace" /\ name.tmp # None /\ failed' = FALSE
      /\ name' = [json |-> name.tmp, tmp |-> None]
      /\ at' = [at EXCEPT ![t] = "idle"] /\ items' = [items EXCEPT ![t] = <<>>]
      /\ fd' = [fd EXCEPT ![t] = None] /\ lock' = IF lock = t THEN None ELSE lock
      /\ UNCHANGED <<data, begun>>
  BY DEF Replace, End
<1>2. /\ lock = t /\ \A u \in Threads \ {t} : at[u] = "idle" /\ fd[u] = None
      /\ data[name.tmp] = items[t] /\ Asked(items[t]) /\ name.tmp \in Inodes
      /\ items[t] \in Seq(Entries) /\ Len(items[t]) <= Keep
  BY <1>1, OneWorks DEF FileInv, FileTypeOK
<1>3. name'.json = name.tmp /\ name'.tmp = None /\ data'[name.tmp] = items[t]
  BY <1>1, <1>2
<1>4. items[t] # Torn
  BY <1>2, FileAssumption
<1>5. Shown' = items[t]
  BY <1>1, <1>2, <1>3, <1>4 DEF Shown
<1>7. /\ lock' = None /\ \A u \in Threads : at'[u] = "idle" /\ fd'[u] = None
  BY <1>1, <1>2 DEF FileInv, FileTypeOK
<1>8. FileLog!Next
  <2>1. CASE items[t] = <<>>
    <3>1. FileLog!Clear
      BY <1>0, <1>1, <1>5, <2>1 DEF FileLog!Clear
    <3> QED  BY <3>1 DEF FileLog!Next
  <2>2. ASSUME NEW e \in Entries, items[t] = Newest(Append(Shown, e))
        PROVE  FileLog!Next
    <3>1. Append(Shown, e) \in Seq(Entries)
      BY ShownList, RangeAppend DEF FileInv
    <3>2. items[t] = FileLog!Last(Append(Shown, e), Keep)
      BY Zenon, <2>2, <3>1, NewestFacts
    <3>3. FileLog!Add(e)
      BY Zenon, <1>0, <1>1, <1>5, <3>2 DEF FileLog!Add
    <3> QED  BY <3>3 DEF FileLog!Next
  <2>3. ASSUME NEW e \in Entries, items[t] = Without(Shown, {e})
        PROVE  FileLog!Next
    <3>1. FileLog!Delete(e)
      BY Zenon, <1>0, <1>1, <1>5, <2>3 DEF FileLog!Delete, Without, FileLog!Without
    <3> QED  BY <3>1 DEF FileLog!Next
  <2> QED  BY <1>2, <2>1, <2>2, <2>3 DEF Asked
<1> QED
  <2>1. name'.json # None => name'.json # name'.tmp /\ data'[name'.json] # Torn
    BY <1>2, <1>3, <1>4, FileAssumption
  <2>2. Len(Shown)' <= Keep
    BY <1>2, <1>5
  <2>3. None \notin Threads
    BY FileAssumption
  <2> QED  BY <1>1, <1>7, <1>8, <2>1, <2>2, <2>3 DEF FileInv

\* An error ends the operation of who holds the lock, and nothing is lost.
LEMMA FailsKeeps ==
  ASSUME locked, FileInv, FileTypeOK', UNCHANGED locked, NEW t \in Threads, FileFails(t)
  PROVE  FileInv' /\ FileLog!Next /\ UNCHANGED Shown
<1>1. /\ at[t] # "idle" /\ failed' = TRUE /\ UNCHANGED <<name, data, begun>>
      /\ at' = [at EXCEPT ![t] = "idle"] /\ items' = [items EXCEPT ![t] = <<>>]
      /\ fd' = [fd EXCEPT ![t] = None] /\ lock' = IF lock = t THEN None ELSE lock
  BY DEF FileFails, End
<1>2. lock = t /\ \A u \in Threads \ {t} : at[u] = "idle" /\ fd[u] = None
  BY <1>1, OneWorks DEF FileInv
<1>3. UNCHANGED Shown
  BY <1>1 DEF Shown
<1>5. lock' = None /\ \A u \in Threads : at'[u] = "idle" /\ fd'[u] = None
  BY <1>1, <1>2 DEF FileInv, FileTypeOK
<1>6. FileLog!Next
  BY <1>1, <1>3 DEF FileLog!Next, FileLog!Fail, LogSeen
<1>7. None \notin Threads
  BY FileAssumption
<1> QED  BY <1>1, <1>3, <1>5, <1>6, <1>7 DEF FileInv

\* A crash leaves the file as it was, and an orphan .tmp.
LEMMA CrashKeeps ==
  ASSUME FileInv, FileTypeOK', FileCrash
  PROVE  FileInv' /\ UNCHANGED <<Shown, failed>>
<1>1. /\ UNCHANGED <<name, data, begun, failed>> /\ lock' = None
      /\ at' = [t \in Threads |-> "idle"] /\ items' = [t \in Threads |-> <<>>]
      /\ fd' = [t \in Threads |-> None]
  BY DEF FileCrash
<1>2. UNCHANGED Shown
  BY <1>1 DEF Shown
<1>4. None \notin Threads
  BY FileAssumption
<1> QED  BY <1>1, <1>2, <1>4 DEF FileInv

LEMMA BeginsKeep ==
  ASSUME locked, FileInv, FileTypeOK', UNCHANGED locked, NEW t \in Threads
  PROVE  /\ \A e \in Entries : AppendBegins(t, e) \/ DeleteBegins(t, e) =>
              FileInv' /\ UNCHANGED <<Shown, failed>>
         /\ ClearBegins(t) => FileInv' /\ UNCHANGED <<Shown, failed>>
<1>1. Shown \in Seq(Entries) /\ Len(Shown) <= Keep
  BY ShownList DEF FileInv, FileTypeOK
<1>2. ASSUME NEW e \in Entries, AppendBegins(t, e)
      PROVE  FileInv' /\ UNCHANGED <<Shown, failed>>
  <2> DEFINE l == Append(Shown, e)
  <2>1. l \in Seq(Entries)
    BY <1>1, RangeAppend
  <2>2. Asked(Newest(l))
    BY Zenon DEF Asked
  <2>3. Begin(t, l)
    BY <1>2 DEF AppendBegins
  <2> HIDE DEF l
  <2> QED  BY <2>1, <2>2, <2>3, BeginKeeps
<1>3. ASSUME NEW e \in Entries, DeleteBegins(t, e)
      PROVE  FileInv' /\ UNCHANGED <<Shown, failed>>
  <2> DEFINE l == Without(Shown, {e})
  <2>1. l \in Seq(Entries)
    <3>1. l \in Seq(Entries \ {e})
      BY <1>1, WithoutElements
    <3> QED  BY <3>1, SeqMonotonic
  <2>2. Len(l) <= Keep
    <3>1. Len(l) <= Len(Shown)
      BY <1>1, WithoutShorter
    <3> HIDE DEF l
    <3> QED  BY <1>1, <2>1, <3>1, FileAssumption, LenProperties
  <2>3. Asked(l)
    BY Zenon DEF Asked
  <2>4. Begin(t, l)
    BY <1>3 DEF DeleteBegins
  <2> HIDE DEF l
  <2>5. Newest(l) = l
    BY <2>1, <2>2, NewestFacts
  <2> QED  BY <2>1, <2>3, <2>4, <2>5, BeginKeeps
<1>4. ASSUME ClearBegins(t)
      PROVE  FileInv' /\ UNCHANGED <<Shown, failed>>
  <2>1. <<>> \in Seq(Entries) /\ Len(<<>>) <= Keep
    BY FileAssumption, EmptySeq
  <2>2. Asked(<<>>) /\ Newest(<<>>) = <<>>
    BY <2>1, NewestFacts DEF Asked
  <2>3. Begin(t, <<>>)
    BY <1>4 DEF ClearBegins
  <2> QED  BY <2>1, <2>2, <2>3, BeginKeeps
<1> QED  BY <1>2, <1>3, <1>4

LEMMA FileStarts == FileInit => FileInv /\ FileLog!Init
<1> SUFFICES ASSUME FileInit PROVE FileInv /\ FileLog!Init
  OBVIOUS
<1>1. name.json = None /\ Shown = <<>> /\ failed = FALSE
  BY DEF FileInit, Shown
<1>2. FileTypeOK
  BY BaseStarts DEF FileBase
<1>3. FileLog!Init
  <2>1. <<>> \in Seq(Entries) /\ Len(<<>>) = 0 /\ Keep >= 0
    BY FileAssumption
  <2> QED  BY <1>1, <2>1 DEF FileLog!Init, LogSeen
<1>4. None \notin Threads /\ 0 <= Keep
  BY FileAssumption
<1> QED  BY <1>1, <1>2, <1>3, <1>4 DEF FileInit, FileInv

LEMMA FileStepKeeps ==
  ASSUME locked, FileInv, FileTypeOK', FileNext
  PROVE  /\ FileInv' /\ (FileLog!Next \/ UNCHANGED <<Shown, failed>>)
         /\ failed' => Shown' = Shown
<1>1. UNCHANGED locked
  BY DEF FileNext
<1>2. ASSUME NEW t \in Threads, FileStep(t)
      PROVE  /\ FileInv' /\ (FileLog!Next \/ UNCHANGED <<Shown, failed>>)
             /\ failed' => Shown' = Shown
  <2>1. ASSUME NEW e \in Entries, AppendBegins(t, e) \/ DeleteBegins(t, e)
        PROVE  FileInv' /\ UNCHANGED <<Shown, failed>>
    BY Zenon, <1>1, <2>1, BeginsKeep
  <2>2. CASE ClearBegins(t)
    BY Zenon, <1>1, <2>2, BeginsKeep
  <2>3. CASE Open(t)
    BY Zenon, <1>1, <2>3, OpenKeeps
  <2>4. CASE Write(t)
    BY Zenon, <1>1, <2>4, WriteKeeps
  <2>5. CASE Replace(t)
    BY <1>1, <2>5, ReplaceKeeps
  <2>6. CASE FileFails(t)
    BY <1>1, <2>6, FailsKeeps
  <2> QED  BY <1>2, <2>1, <2>2, <2>3, <2>4, <2>5, <2>6 DEF FileStep
<1>3. CASE FileCrash
  BY <1>3, CrashKeeps
<1> QED  BY <1>2, <1>3 DEF FileNext

\* A step of a file with a lock, or of one without, or of nothing.
LEMMA FileStepLogs ==
  ASSUME locked => FileInv, FileTypeOK, FileTypeOK', [FileNext]_fileVars
  PROVE  /\ (locked => FileInv)' /\ [FileLog!Next]_<<LogSeen, locked /\ failed>>
         /\ locked /\ failed' => Shown' = Shown
<1>0. UNCHANGED locked
  BY DEF FileNext, fileVars
<1>1. CASE UNCHANGED fileVars
  <2>1. UNCHANGED <<Shown, failed>>
    BY <1>1 DEF fileVars, Shown
  <2>2. \A t \in Threads : Asked(items[t])' <=> Asked(items[t])
    BY <1>1, <2>1 DEF fileVars, Asked
  <2>3. (locked => FileInv)'
    BY <1>1, <2>1, <2>2 DEF fileVars, FileInv
  <2> QED  BY <1>0, <2>1, <2>3 DEF LogSeen
<1>2. CASE locked /\ FileNext
  <2>1. /\ FileInv' /\ (FileLog!Next \/ UNCHANGED <<Shown, failed>>)
        /\ failed' => Shown' = Shown
    BY <1>2, FileStepKeeps
  <2> QED  BY <1>0, <1>2, <2>1 DEF LogSeen
<1>3. CASE ~ locked
  <2>1. UNCHANGED <<LogSeen, locked /\ failed>>
    BY <1>0, <1>3 DEF LogSeen
  <2> QED  BY <1>0, <1>3, <2>1
<1> QED  BY <1>1, <1>2, <1>3

LEMMA FileAlways == FileSpec => [](locked => FileInv)
<1>1. FileInit => (locked => FileInv)
  BY FileStarts
<1>2. (locked => FileInv) /\ FileTypeOK /\ FileTypeOK' /\ [FileNext]_fileVars => (locked => FileInv)'
  BY FileStepLogs
<1> QED  BY <1>1, <1>2, FileTypes, PTL DEF FileSpec

\* With the lock no reader finds a file it cannot parse (engine.py:289-296).
THEOREM FileNeverTorn == FileSpec => []NeverTorn
<1>1. (locked => FileInv) => NeverTorn
  BY DEF FileInv, NeverTorn
<1> QED  BY <1>1, FileAlways, PTL

\* With the lock an operation that fails changes nothing (engine.py:291-296).
THEOREM FileFailureKeeps == FileSpec => FailureKeeps
<1>1. (locked => FileInv) /\ FileTypeOK /\ FileTypeOK' /\ [FileNext]_fileVars =>
        [locked /\ failed' => Shown' = Shown]_fileVars
  BY FileStepLogs
<1> QED  BY <1>1, FileAlways, FileTypes, PTL DEF FileSpec, FailureKeeps

\* With the lock the file, with its crashes, its errors and its threads, is a
\* log of the newest records (engine.py:246-302).
THEOREM FileIsLog == FileSpec => ImplementsFileLog
<1>1. FileInit => FileLog!Init
  BY FileStarts
<1>2. (locked => FileInv) /\ FileTypeOK /\ FileTypeOK' /\ [FileNext]_fileVars =>
        [FileLog!Next]_<<LogSeen, locked /\ failed>>
  BY FileStepLogs
<1> QED  BY <1>1, <1>2, FileAlways, FileTypes, PTL DEF FileSpec, ImplementsFileLog, FileLog!Spec

-----------------------------------------------------------------------------
(* The accounts: failures, logins and sessions *)

Ascending(s) ==
  /\ \A i \in 1..Len(s) : s[i] <= now
  /\ \A i, j \in 1..Len(s) : i <= j => s[i] <= s[j]

\* The failures counted are the last ones; the one before them began a lockout,
\* which is over when the next one is counted.
CountInv ==
  \A k \in Keys :
    /\ Ascending(guesses[k]) /\ failures[k] <= Len(guesses[k])
    /\ failures[k] < Len(guesses[k]) =>
         lockedUntil[k] >= guesses[k][Len(guesses[k]) - failures[k]] + Lockout

\* The times kept are the last of the logins, and those left out are a minute old.
RateInv ==
  \A k \in Keys :
    /\ Ascending(tries[k]) /\ Len(times[k]) <= Len(tries[k])
    /\ \A i \in 1..Len(times[k]) : times[k][i] = tries[k][Len(tries[k]) - Len(times[k]) + i]
    /\ \A i \in 1..(Len(tries[k]) - Len(times[k])) : now - tries[k][i] >= Window

LEMMA RecentType ==
  ASSUME NEW s \in Seq(Nat), now \in Nat
  PROVE  Recent(s) \in Seq(Nat)
<1> DEFINE c == Cardinality({i \in 1..Len(s) : now - s[i] >= Window})
<1>0. Len(s) \in Nat
  BY LenProperties
<1>1. Len(s) \in Nat /\ IsFiniteSet(1..Len(s)) /\ Cardinality(1..Len(s)) = Len(s)
  <2>1. 1 \in Int /\ Len(s) \in Int /\ (1 > Len(s) => Len(s) = 0)
    BY <1>0
  <2>2. IsFiniteSet(1..Len(s)) /\ Cardinality(1..Len(s)) = IF 1 > Len(s) THEN 0 ELSE Len(s) - 1 + 1
    BY Zenon, <2>1, FS_Interval
  <2> QED  BY <1>0, <2>1, <2>2
<1>2. c \in Nat /\ c <= Len(s)
  <2>1. {i \in 1..Len(s) : now - s[i] >= Window} \subseteq 1..Len(s)
    OBVIOUS
  <2> QED  BY <1>1, <2>1, FS_Subset, FS_CardinalityType
<1> HIDE DEF c
<1>3. SubSeq(s, 1 + c, Len(s)) \in Seq(Nat)
  BY <1>1, <1>2, SubSeqProperties
<1> QED  BY <1>3 DEF Recent, c

LEMMA AuthTyped ==
  ASSUME AuthTypeOK, [AuthNext]_authVars
  PROVE  AuthTypeOK'
<1>1. /\ Nobody \notin Keys /\ MaxFailures \in Nat \ {0} /\ Lockout \in Nat /\ Lifetime \in Nat
      /\ NoSessions \in Files /\ Idle \in Works
  BY AuthAssumption DEF NoSessions, Files, Idle, Works
<1>17. ASSUME Joins
       PROVE  beside' \in BOOLEAN
  BY <1>17 DEF Joins
<1>2. CASE UNCHANGED authVars
  BY <1>2 DEF authVars, counters, AuthTypeOK
<1>3. CASE Tick
  BY <1>3 DEF Tick, counters, AuthTypeOK
<1>4. ASSUME NEW k \in Keys, Count(k)
      PROVE  /\ guesses' \in [Keys -> Seq(Nat)] /\ failures' \in [Keys -> 0..(MaxFailures - 1)]
             /\ lockedUntil' \in [Keys -> Nat]
  <2>1. /\ Append(guesses[k], now) \in Seq(Nat) /\ now + Lockout \in Nat
        /\ failures[k] \in 0..(MaxFailures - 1) /\ 0 \in 0..(MaxFailures - 1)
    BY <1>1, AppendProperties DEF AuthTypeOK
  <2>2. failures[k] + 1 < MaxFailures => failures[k] + 1 \in 0..(MaxFailures - 1)
    BY <1>1, <2>1
  <2>3. guesses' \in [Keys -> Seq(Nat)]
    BY <1>4, <2>1 DEF Count, AuthTypeOK
  <2>4. lockedUntil' \in [Keys -> Nat]
    BY <1>4, <2>1 DEF Count, AuthTypeOK
  <2>5. failures' \in [Keys -> 0..(MaxFailures - 1)]
    <3> DEFINE f == IF failures[k] + 1 >= MaxFailures THEN 0 ELSE failures[k] + 1
    <3>1. f \in 0..(MaxFailures - 1)
      BY <1>1, <2>1, <2>2
    <3>2. failures' = [failures EXCEPT ![k] = f]
      BY <1>4 DEF Count
    <3> HIDE DEF f
    <3> QED  BY <3>1, <3>2 DEF AuthTypeOK
  <2> QED  BY <2>3, <2>4, <2>5
<1>5. ASSUME NEW k \in Keys, Forget(k)
      PROVE  guesses' \in [Keys -> Seq(Nat)] /\ failures' \in [Keys -> 0..(MaxFailures - 1)]
  BY <1>1, <1>5 DEF Forget, AuthTypeOK
<1>6. ASSUME NEW k \in Keys, Admit(k)
      PROVE  times' \in [Keys -> Seq(Nat)] /\ tries' \in [Keys -> Seq(Nat)]
  <2>1. Append(Recent(times[k]), now) \in Seq(Nat) /\ Append(tries[k], now) \in Seq(Nat)
    BY RecentType, AppendProperties DEF AuthTypeOK
  <2> QED  BY <1>6, <2>1 DEF Admit, AuthTypeOK
<1>7. ASSUME NEW k \in Keys, LoginFails(k)
      PROVE  AuthTypeOK'
  BY <1>4, <1>6, <1>7 DEF LoginFails, AuthTypeOK
<1>8. ASSUME NEW k \in Keys, RecoverFails(k)
      PROVE  AuthTypeOK'
  BY <1>4, <1>8 DEF RecoverFails, AuthTypeOK
<1>9. ASSUME NEW k \in Keys, NEW s \in Tokens, Login(k, s)
      PROVE  AuthTypeOK'
  <2> DEFINE file == [u \in Tokens |-> IF u = s THEN now + Lifetime
                                       ELSE IF sessions[u] > now THEN sessions[u] ELSE 0]
  <2>1. file \in Files
    BY <1>1 DEF Files, AuthTypeOK
  <2>2. work' = [op |-> "login", key |-> k, token |-> s, file |-> file]
    BY <1>9 DEF Login
  <2> HIDE DEF file
  <2>3. work' \in Works
    BY <2>1, <2>2 DEF Works
  <2>4. /\ Joins /\ Admit(k) /\ Forget(k)
        /\ UNCHANGED <<now, account, lockedUntil, sessions, leaving, granted>>
    BY <1>9 DEF Login
  <2> QED  BY <1>5, <1>6, <1>17, <2>3, <2>4 DEF AuthTypeOK
<1>10. ASSUME NEW k \in Keys, Setup(k) \/ Rename(k) \/ Recover(k)
       PROVE  AuthTypeOK'
  BY <1>1, <1>10, <1>17 DEF Setup, Rename, Recover, counters, Works, AuthTypeOK
<1>11. CASE Change
  BY <1>1, <1>11, <1>17 DEF Change, counters, Works, AuthTypeOK
<1>12. CASE Store
  <2>1. work.file \in Files /\ work.key \in Keys \cup {Nobody}
    BY DEF AuthTypeOK, Works
  <2>2. sessions' \in Files /\ granted' \in Files /\ work' \in Works
    BY <1>1, <1>12, <2>1 DEF Store, AuthTypeOK, Files
  <2>3. guesses' \in [Keys -> Seq(Nat)] /\ failures' \in [Keys -> 0..(MaxFailures - 1)]
    <3>1. 0 \in 0..(MaxFailures - 1) /\ <<>> \in Seq(Nat)
      BY <1>1, EmptySeq
    <3>2. CASE Forget(work.key)
      BY <3>1, <3>2 DEF Forget, AuthTypeOK
    <3>3. CASE UNCHANGED <<failures, guesses>>
      BY <3>3 DEF AuthTypeOK
    <3> QED  BY <1>12, <3>2, <3>3 DEF Store
  <2> QED  BY <1>12, <2>2, <2>3 DEF Store, AuthTypeOK
<1>13. CASE StoreFails
  BY <1>1, <1>13 DEF StoreFails, counters, AuthTypeOK
<1>14. ASSUME NEW c \in Clients, NEW s \in Tokens, LogoutReads(c, s)
       PROVE  AuthTypeOK'
  BY <1>14, <1>17 DEF LogoutReads, counters, Works, Files, AuthTypeOK
<1>15. ASSUME NEW c \in Clients, LogoutWrites(c) \/ LogoutFails(c)
       PROVE  AuthTypeOK'
  <2>1. leaving[c] \in Works /\ leaving[c].file \in Files
    BY DEF AuthTypeOK, Works
  <2>2. leaving' = [leaving EXCEPT ![c] = Idle] /\ UNCHANGED <<now, account, counters, work, beside>>
    BY <1>15 DEF LogoutWrites, LogoutFails
  <2>4. leaving' \in [Clients -> Works]
    BY <1>1, <2>2 DEF AuthTypeOK
  <2>3. sessions' \in Files /\ granted' \in Files
    <3>1. CASE LogoutWrites(c)
      BY <2>1, <3>1 DEF LogoutWrites, Files, AuthTypeOK
    <3>2. CASE LogoutFails(c)
      BY <3>2 DEF LogoutFails, AuthTypeOK
    <3> QED  BY <1>15, <3>1, <3>2
  <2> QED  BY <2>2, <2>3, <2>4 DEF counters, AuthTypeOK
<1>16. CASE AuthRestart
  BY <1>1, <1>16, EmptySeq DEF AuthRestart, AuthTypeOK
<1> QED  BY <1>2, <1>3, <1>7, <1>8, <1>9, <1>10, <1>11, <1>12, <1>13, <1>14, <1>15, <1>16 DEF AuthNext

\* Every variable of the accounts keeps its type.
THEOREM AuthTypes == AuthSpec => []AuthTypeOK
<1>1. AuthInit => AuthTypeOK
  <2> SUFFICES ASSUME AuthInit PROVE AuthTypeOK
    OBVIOUS
  <2>1. NoSessions \in Files /\ Idle \in Works
    BY DEF NoSessions, Idle, Files, Works
  <2>2. work \in Works /\ leaving \in [Clients -> Works] /\ sessions \in Files /\ granted \in Files
    BY <2>1 DEF AuthInit
  <2>3. beside \in BOOLEAN
    BY DEF AuthInit
  <2> QED  BY <2>2, <2>3, AuthAssumption, EmptySeq DEF AuthInit, AuthTypeOK
<1> QED  BY <1>1, AuthTyped, PTL DEF AuthSpec

LEMMA AscendingOn ==
  ASSUME NEW s \in Seq(Nat), now \in Nat, Ascending(s)
  PROVE  /\ Append(s, now) \in Seq(Nat) /\ Len(Append(s, now)) = Len(s) + 1
         /\ Append(s, now)[Len(s) + 1] = now
         /\ \A i \in 1..Len(s) : Append(s, now)[i] = s[i]
         /\ Ascending(Append(s, now))
<1> DEFINE u == Append(s, now)
<1>1. /\ u \in Seq(Nat) /\ Len(s) \in Nat /\ Len(u) = Len(s) + 1 /\ u[Len(s) + 1] = now
      /\ \A i \in 1..Len(s) : u[i] = s[i] /\ s[i] \in Nat /\ s[i] <= now
  BY AppendProperties, LenProperties, ElementOfSeq DEF Ascending
<1> HIDE DEF u
<1>2. ASSUME NEW i \in 1..Len(u)
      PROVE  u[i] <= now
  <2>1. CASE i = Len(s) + 1
    BY <1>1, <2>1
  <2>2. CASE i # Len(s) + 1
    <3>1. i \in 1..Len(s)
      BY <1>1, <2>2
    <3> QED  BY <1>1, <3>1
  <2> QED  BY <2>1, <2>2
<1>3. ASSUME NEW i \in 1..Len(u), NEW j \in 1..Len(u), i <= j
      PROVE  u[i] <= u[j]
  <2>1. CASE j = Len(s) + 1
    BY <1>1, <1>2, <2>1
  <2>2. CASE j # Len(s) + 1
    <3>1. i \in 1..Len(s) /\ j \in 1..Len(s)
      BY <1>1, <1>3, <2>2
    <3> QED  BY <1>1, <1>3, <3>1 DEF Ascending
  <2> QED  BY <2>1, <2>2
<1>4. Ascending(u)
  BY <1>2, <1>3 DEF Ascending
<1> QED  BY <1>1, <1>4 DEF u

\* A counted failure comes when the last lockout is over.
LEMMA CountKeeps ==
  ASSUME AuthTypeOK, CountInv, GuessesBounded, NEW k \in Keys, ~ IsLocked(k), Count(k), now' = now
  PROVE  CountInv' /\ GuessesBounded'
<1> DEFINE g == guesses[k]
           n == Len(guesses[k])
           f == failures[k]
           h == Append(guesses[k], now)
<1>1. /\ g \in Seq(Nat) /\ n \in Nat /\ n = Len(g) /\ f \in 0..(MaxFailures - 1) /\ now \in Nat
      /\ MaxFailures \in Nat \ {0} /\ Lockout \in Nat /\ lockedUntil[k] \in Nat /\ lockedUntil[k] <= now
  BY AuthAssumption, LenProperties DEF AuthTypeOK, IsLocked
<1>2. Ascending(g) /\ f <= n /\ (f < n => lockedUntil[k] >= g[n - f] + Lockout)
  BY DEF CountInv
<1>3. /\ h \in Seq(Nat) /\ Len(h) = n + 1 /\ h[n + 1] = now /\ Ascending(h)
      /\ \A i \in 1..n : h[i] = g[i] /\ g[i] \in Nat /\ g[i] <= now
  BY <1>1, <1>2, AscendingOn, ElementOfSeq DEF Ascending
<1>4. /\ guesses'[k] = h /\ \A l \in Keys \ {k} : guesses'[l] = guesses[l]
      /\ failures'[k] = (IF f + 1 >= MaxFailures THEN 0 ELSE f + 1)
      /\ \A l \in Keys \ {k} : failures'[l] = failures[l]
      /\ lockedUntil'[k] = (IF f + 1 >= MaxFailures THEN now + Lockout ELSE lockedUntil[k])
      /\ \A l \in Keys \ {k} : lockedUntil'[l] = lockedUntil[l]
  BY DEF Count, AuthTypeOK
<1> HIDE DEF g, n, f, h
<1>5. /\ Ascending(h) /\ failures'[k] <= n + 1
      /\ failures'[k] < n + 1 => lockedUntil'[k] >= h[(n + 1) - failures'[k]] + Lockout
  <2>1. CASE f + 1 >= MaxFailures
    BY <1>1, <1>3, <1>4, <2>1
  <2>2. CASE f + 1 < MaxFailures
    <3>1. failures'[k] = f + 1 /\ lockedUntil'[k] = lockedUntil[k]
      BY <1>1, <1>4, <2>2
    <3>2. f < n => n - f \in 1..n /\ (n + 1) - (f + 1) = n - f
      BY <1>1
    <3> QED  BY <1>1, <1>2, <1>3, <3>1, <3>2
  <2> QED  BY <1>1, <2>1, <2>2
<1>6. CountInv'
  <2> SUFFICES ASSUME NEW l \in Keys
               PROVE  (/\ Ascending(guesses[l]) /\ failures[l] <= Len(guesses[l])
                       /\ failures[l] < Len(guesses[l]) =>
                            lockedUntil[l] >= guesses[l][Len(guesses[l]) - failures[l]] + Lockout)'
    BY DEF CountInv
  <2>1. CASE l = k
    <3>1. guesses'[l] = h /\ Len(h) = n + 1
      BY <1>3, <1>4, <2>1
    <3>2. Ascending(guesses[l])'
      BY <1>5, <3>1 DEF Ascending
    <3>3. /\ failures'[l] <= Len(guesses'[l])
          /\ failures'[l] < Len(guesses'[l]) =>
               lockedUntil'[l] >= guesses'[l][Len(guesses'[l]) - failures'[l]] + Lockout
      BY Zenon, <1>5, <2>1, <3>1
    <3> QED  BY Zenon, <3>2, <3>3
  <2>2. CASE l # k
    BY <1>4, <2>2 DEF CountInv, Ascending
  <2> QED  BY <2>1, <2>2
<1>7. ASSUME NEW i \in 1..((n + 1) - MaxFailures)
      PROVE  h[i + MaxFailures] - h[i] >= Lockout
  <2>1. CASE i + MaxFailures \in 1..n
    <3>1. i \in 1..(n - MaxFailures) /\ i \in 1..n
      BY <1>1, <2>1
    <3>2. g[i + MaxFailures] - g[i] >= Lockout
      BY <3>1 DEF GuessesBounded, g, n
    <3> QED  BY <1>3, <2>1, <3>1, <3>2
  <2>2. CASE i + MaxFailures \notin 1..n
    <3>1. i = (n + 1) - MaxFailures /\ i + MaxFailures = n + 1 /\ i \in 1..n
      BY <1>1, <2>2
    <3> DEFINE x == n - f
    <3>2. f < n /\ x \in 1..n /\ i <= x
      BY <1>1, <1>2, <3>1
    <3>3. lockedUntil[k] >= g[x] + Lockout
      BY <1>2, <3>2
    <3> HIDE DEF x
    <3>4. g[i] <= g[x] /\ g[i] \in Nat /\ g[x] \in Nat
      BY <1>1, <1>2, <1>3, <3>1, <3>2 DEF Ascending
    <3>5. h[i] = g[i] /\ h[i + MaxFailures] = now
      BY <1>3, <3>1
    <3> QED  BY <1>1, <3>3, <3>4, <3>5
  <2> QED  BY <2>1, <2>2
<1>8. GuessesBounded'
  <2> SUFFICES ASSUME NEW l \in Keys, NEW i \in 1..(Len(guesses'[l]) - MaxFailures)
               PROVE  guesses'[l][i + MaxFailures] - guesses'[l][i] >= Lockout
    BY DEF GuessesBounded
  <2>1. CASE l = k
    <3>1. guesses'[l] = h /\ Len(h) = n + 1
      BY <1>3, <1>4, <2>1
    <3> QED  BY Zenon, <1>7, <3>1
  <2>2. CASE l # k
    BY <1>4, <2>2 DEF GuessesBounded
  <2> QED  BY <2>1, <2>2
<1> QED  BY <1>6, <1>8

\* What is left out are the first times, each a minute old; it was in order.
LEMMA RecentIs ==
  ASSUME NEW s \in Seq(Nat), now \in Nat, Ascending(s)
  PROVE  \E c \in 0..Len(s) :
           /\ Len(Recent(s)) = Len(s) - c
           /\ \A i \in 1..(Len(s) - c) : Recent(s)[i] = s[c + i]
           /\ \A i \in 1..c : now - s[i] >= Window
<1> DEFINE D == {i \in 1..Len(s) : now - s[i] >= Window}
<1>1. Len(s) \in Nat /\ Window \in Nat /\ \A i \in 1..Len(s) : s[i] \in Nat
  BY AuthAssumption, LenProperties, ElementOfSeq
<1>2. \E c \in 0..Len(s) : D = 1..c
  <2>1. CASE D = {}
    <3>1. 0 \in 0..Len(s) /\ 1..0 = {}
      BY <1>1
    <3> QED  BY <2>1, <3>1
  <2>2. CASE D # {}
    <3>1. D \subseteq 0..Len(s)
      BY <1>1
    <3> HIDE DEF D
    <3>2. PICK m \in D : \A k \in D : k <= m
      BY <1>1, <2>2, <3>1, Greatest
    <3>3. m \in 1..Len(s) /\ now - s[m] >= Window
      BY <3>2 DEF D
    <3>4. ASSUME NEW i \in 1..m
          PROVE  i \in D
      <4>1. i \in 1..Len(s) /\ i <= m
        BY <1>1, <3>3
      <4>2. s[i] <= s[m]
        BY <3>3, <4>1 DEF Ascending
      <4>3. s[i] \in Nat /\ s[m] \in Nat
        BY <1>1, <3>3, <4>1
      <4> QED  BY <1>1, <3>3, <4>1, <4>2, <4>3 DEF D
    <3>5. \A k \in D : k \in 1..m
      BY <3>1, <3>2, <3>3 DEF D
    <3>6. D = 1..m
      BY <3>4, <3>5
    <3> QED  BY <1>1, <3>3, <3>6
  <2> QED  BY <2>1, <2>2
<1>3. PICK c \in 0..Len(s) : D = 1..c
  BY <1>2
<1>4. Cardinality(D) = c
  <2>1. 1 \in Int /\ c \in Int /\ (1 > c => c = 0)
    BY <1>1
  <2>2. Cardinality(1..c) = IF 1 > c THEN 0 ELSE c - 1 + 1
    BY Zenon, <2>1, FS_Interval
  <2>3. Cardinality(1..c) = c
    BY <1>1, <2>1, <2>2
  <2> QED  BY Zenon, <1>3, <2>3
<1>5. Recent(s) = SubSeq(s, 1 + c, Len(s))
  BY Zenon, <1>4 DEF Recent
<1>6. \A i \in 1..c : now - s[i] >= Window
  BY <1>3
<1> HIDE DEF D
<1> DEFINE a == 1 + c
           r == SubSeq(s, a, Len(s))
<1>7. a \in 1..(Len(s) + 1) /\ (a <= Len(s) => Len(s) - a + 1 = Len(s) - c) /\ (a > Len(s) => c = Len(s))
  BY <1>1
<1> HIDE DEF a
<1>8. /\ Len(r) = IF a <= Len(s) THEN Len(s) - a + 1 ELSE 0
      /\ \A i \in 1..(Len(s) - a + 1) : r[i] = s[a + i - 1]
  BY <1>1, <1>7, SubSeqProperties
<1> HIDE DEF r
<1>9. Len(r) = Len(s) - c
  BY <1>1, <1>7, <1>8
<1>10. ASSUME NEW i \in 1..(Len(s) - c)
       PROVE  r[i] = s[c + i]
  <2>1. Len(s) - a + 1 = Len(s) - c /\ a + i - 1 = c + i
    BY <1>1 DEF a
  <2> QED  BY <1>8, <2>1
<1> QED  BY <1>5, <1>6, <1>9, <1>10 DEF a, r

\* A login that is admitted comes a minute after the one Rate before it.
LEMMA AdmitKeeps ==
  ASSUME AuthTypeOK, RateInv, RateKept, NEW k \in Keys, Admit(k), now' = now
  PROVE  RateInv' /\ RateKept'
<1> DEFINE t == tries[k]
           s == times[k]
           r == Recent(times[k])
           v == Append(tries[k], now)
           w == Append(Recent(times[k]), now)
<1>1. /\ t \in Seq(Nat) /\ s \in Seq(Nat) /\ r \in Seq(Nat) /\ Len(t) \in Nat /\ Len(s) \in Nat /\ Len(r) \in Nat
      /\ now \in Nat /\ Rate \in Nat /\ Window \in Nat
  BY AuthAssumption, RecentType, LenProperties DEF AuthTypeOK
<1>2. /\ Ascending(t) /\ Len(s) <= Len(t)
      /\ \A i \in 1..Len(s) : s[i] = t[Len(t) - Len(s) + i]
      /\ \A i \in 1..(Len(t) - Len(s)) : now - t[i] >= Window
  BY DEF RateInv
<1>3. Len(r) < Rate /\ times' = [times EXCEPT ![k] = w] /\ tries' = [tries EXCEPT ![k] = v]
  BY DEF Admit
<1>4. /\ v \in Seq(Nat) /\ Len(v) = Len(t) + 1 /\ v[Len(t) + 1] = now /\ Ascending(v)
      /\ \A i \in 1..Len(t) : v[i] = t[i] /\ t[i] \in Nat
  BY <1>1, <1>2, AscendingOn, ElementOfSeq
<1>5. Len(w) = Len(r) + 1 /\ w[Len(r) + 1] = now /\ \A i \in 1..Len(r) : w[i] = r[i]
  BY <1>1, AppendProperties
<1>6. Ascending(s)
  <2> HIDE DEF s, t
  <2> DEFINE d == Len(t) - Len(s)
  <2>1. \A i \in 1..Len(s) : d + i \in 1..Len(t) /\ s[i] = t[d + i]
    BY <1>1, <1>2
  <2>0. d \in Int
    BY <1>1
  <2> HIDE DEF d
  <2>2. \A i, j \in 1..Len(s) : i <= j => d + i <= d + j
    BY <2>0
  <2> QED  BY <1>2, <2>1, <2>2 DEF Ascending
<1>7. PICK c \in 0..Len(s) :
        /\ Len(r) = Len(s) - c
        /\ \A i \in 1..(Len(s) - c) : r[i] = s[c + i]
        /\ \A i \in 1..c : now - s[i] >= Window
  BY <1>1, <1>6, RecentIs
<1> HIDE DEF t, s, r, v, w
<1> DEFINE e == (Len(t) - Len(s)) + c
<1>8. e \in 0..Len(t) /\ Len(v) - Len(w) = e /\ Len(r) = Len(t) - e
  BY <1>1, <1>2, <1>4, <1>5, <1>7
<1>9. ASSUME NEW i \in 1..e
      PROVE  now - v[i] >= Window
  <2>1. i \in 1..Len(t)
    BY <1>1, <1>8
  <2>2. CASE i <= Len(t) - Len(s)
    <3>1. i \in 1..(Len(t) - Len(s))
      BY <1>1, <1>2, <2>1, <2>2
    <3> QED  BY <1>2, <1>4, <2>1, <3>1
  <2>3. CASE ~ (i <= Len(t) - Len(s))
    <3> DEFINE x == i - (Len(t) - Len(s))
    <3>1. x \in 1..c /\ x \in 1..Len(s) /\ (Len(t) - Len(s)) + x = i
      BY <1>1, <1>2, <1>7, <2>1, <2>3
    <3> HIDE DEF x
    <3>2. now - s[x] >= Window /\ s[x] = t[(Len(t) - Len(s)) + x]
      BY <1>2, <1>7, <3>1
    <3> QED  BY <1>4, <2>1, <3>1, <3>2
  <2> QED  BY <2>2, <2>3
<1>10. ASSUME NEW i \in 1..Len(w)
       PROVE  w[i] = v[e + i]
  <2>1. CASE i = Len(r) + 1
    <3>1. e + i = Len(t) + 1
      BY <1>1, <1>8, <2>1
    <3> QED  BY <1>4, <1>5, <2>1, <3>1
  <2>2. CASE i # Len(r) + 1
    <3>1. i \in 1..Len(r)
      BY <1>1, <1>5, <2>2
    <3> DEFINE x == c + i
    <3>2. x \in 1..Len(s) /\ (Len(t) - Len(s)) + x = e + i /\ e + i \in 1..Len(t)
      <4>1. i \in Nat /\ 1 <= i /\ i <= Len(r)
        BY <1>1, <3>1
      <4>2. x \in 1..Len(s)
        BY <1>1, <1>7, <4>1
      <4>3. (Len(t) - Len(s)) + x = e + i
        BY <1>1, <1>7, <4>1
      <4>4. e + i \in 1..Len(t)
        <5> HIDE DEF e
        <5> QED  BY <1>1, <1>8, <4>1
      <4> QED  BY <4>2, <4>3, <4>4
    <3>3. i \in 1..(Len(s) - c)
      BY <1>7, <3>1
    <3>4. w[i] = s[x]
      BY <1>5, <1>7, <3>1, <3>3
    <3> HIDE DEF x, e
    <3> QED  BY <1>2, <1>4, <3>2, <3>4
  <2> QED  BY <2>1, <2>2
<1>11. ASSUME NEW i \in 1..((Len(t) + 1) - Rate)
       PROVE  v[i + Rate] - v[i] >= Window
  <2>1. CASE i + Rate = Len(t) + 1
    <3>1. i \in 1..e
      BY <1>1, <1>3, <1>8, <2>1
    <3> QED  BY <1>4, <1>9, <2>1, <3>1
  <2>2. CASE i + Rate # Len(t) + 1
    <3>1. i \in 1..(Len(t) - Rate) /\ i \in 1..Len(t) /\ i + Rate \in 1..Len(t)
      BY <1>1, <2>2
    <3>2. t[i + Rate] - t[i] >= Window
      BY <3>1 DEF RateKept, t
    <3> QED  BY <1>4, <3>1, <3>2
  <2> QED  BY <2>1, <2>2
<1>12. /\ tries'[k] = v /\ times'[k] = w
       /\ \A l \in Keys \ {k} : tries'[l] = tries[l] /\ times'[l] = times[l]
  BY <1>3 DEF AuthTypeOK
<1> HIDE DEF e
<1>13. RateInv'
  <2> SUFFICES ASSUME NEW l \in Keys
               PROVE  (/\ Ascending(tries[l]) /\ Len(times[l]) <= Len(tries[l])
                       /\ \A i \in 1..Len(times[l]) : times[l][i] = tries[l][Len(tries[l]) - Len(times[l]) + i]
                       /\ \A i \in 1..(Len(tries[l]) - Len(times[l])) : now - tries[l][i] >= Window)'
    BY DEF RateInv
  <2>1. CASE l = k
    <3>1. tries'[l] = v /\ times'[l] = w
      BY <1>12, <2>1
    <3>2. Ascending(tries[l])'
      BY <1>4, <3>1 DEF Ascending
    <3>3. Len(w) <= Len(v)
      BY <1>1, <1>4, <1>8, <1>5
    <3> QED  BY Zenon, <1>8, <1>9, <1>10, <3>1, <3>2, <3>3
  <2>2. CASE l # k
    BY <1>12, <2>2 DEF RateInv, Ascending
  <2> QED  BY <2>1, <2>2
<1>14. RateKept'
  <2> SUFFICES ASSUME NEW l \in Keys, NEW i \in 1..(Len(tries'[l]) - Rate)
               PROVE  tries'[l][i + Rate] - tries'[l][i] >= Window
    BY DEF RateKept
  <2>1. CASE l = k
    <3>1. tries'[l] = v /\ Len(v) = Len(t) + 1
      BY <1>4, <1>12, <2>1
    <3> QED  BY Zenon, <1>11, <3>1
  <2>2. CASE l # k
    BY <1>12, <2>2 DEF RateKept
  <2> QED  BY <2>1, <2>2
<1> QED  BY <1>13, <1>14

\* Time that passes makes no time later than now, and no login newer.
LEMMA TimePasses ==
  ASSUME AuthTypeOK, CountInv, RateInv, GuessesBounded, RateKept, now' \in {now, now + 1},
         UNCHANGED counters
  PROVE  (CountInv /\ RateInv /\ GuessesBounded /\ RateKept)'
<1>1. /\ now \in Nat /\ Window \in Nat /\ UNCHANGED <<failures, lockedUntil, times, guesses, tries>>
      /\ guesses \in [Keys -> Seq(Nat)] /\ tries \in [Keys -> Seq(Nat)]
  BY AuthAssumption DEF counters, AuthTypeOK
<1>2. ASSUME NEW s \in Seq(Nat), Ascending(s)
      PROVE  Ascending(s)'
  <2>1. \A i \in 1..Len(s) : s[i] \in Nat
    BY ElementOfSeq
  <2> QED  BY <1>1, <1>2, <2>1 DEF Ascending
<1>3. \A k \in Keys : Ascending(guesses[k])' /\ Ascending(tries[k])'
  BY <1>1, <1>2 DEF CountInv, RateInv, Ascending
<1>4. ASSUME NEW k \in Keys, NEW i \in 1..(Len(tries[k]) - Len(times[k]))
      PROVE  now' - tries[k][i] >= Window
  <2>1. Len(tries[k]) \in Nat /\ Len(times[k]) \in Nat
    BY LenProperties DEF AuthTypeOK
  <2>2. now - tries[k][i] >= Window /\ Len(times[k]) <= Len(tries[k])
    BY DEF RateInv
  <2>3. i \in 1..Len(tries[k]) /\ tries[k] \in Seq(Nat)
    BY <1>1, <2>1, <2>2
  <2>4. tries[k][i] \in Nat
    BY <2>3, ElementOfSeq
  <2> QED  BY <1>1, <2>2, <2>4
<1>5. CountInv' /\ GuessesBounded' /\ RateKept'
  BY <1>1, <1>3 DEF CountInv, GuessesBounded, RateKept
<1>6. RateInv'
  BY <1>1, <1>3, <1>4 DEF RateInv
<1> QED  BY <1>5, <1>6

\* Nothing was failed since the success, so nothing has to be told apart.
LEMMA ForgetKeeps ==
  ASSUME AuthTypeOK, CountInv, GuessesBounded, NEW k, Forget(k), UNCHANGED lockedUntil, now' = now
  PROVE  CountInv' /\ GuessesBounded'
<1>1. \A l \in Keys : \/ guesses'[l] = <<>> /\ failures'[l] = 0
                      \/ guesses'[l] = guesses[l] /\ failures'[l] = failures[l]
  BY DEF Forget, AuthTypeOK
<1>2. Len(<<>>) = 0 /\ MaxFailures \in Nat \ {0}
  BY AuthAssumption
<1> SUFFICES ASSUME NEW l \in Keys
             PROVE  /\ (/\ Ascending(guesses[l]) /\ failures[l] <= Len(guesses[l])
                        /\ failures[l] < Len(guesses[l]) =>
                             lockedUntil[l] >= guesses[l][Len(guesses[l]) - failures[l]] + Lockout)'
                    /\ \A i \in 1..(Len(guesses'[l]) - MaxFailures) :
                         guesses'[l][i + MaxFailures] - guesses'[l][i] >= Lockout
  BY DEF CountInv, GuessesBounded
<1>3. CASE guesses'[l] = <<>> /\ failures'[l] = 0
  BY <1>2, <1>3 DEF Ascending
<1>4. CASE guesses'[l] = guesses[l] /\ failures'[l] = failures[l]
  BY <1>4 DEF CountInv, GuessesBounded, Ascending
<1> QED  BY <1>1, <1>3, <1>4

LEMMA RatesStay ==
  ASSUME RateInv, RateKept, UNCHANGED <<times, tries, now>>
  PROVE  RateInv' /\ RateKept'
BY DEF RateInv, RateKept, Ascending

LEMMA CountsStay ==
  ASSUME CountInv, GuessesBounded, UNCHANGED <<guesses, failures, lockedUntil, now>>
  PROVE  CountInv' /\ GuessesBounded'
BY DEF CountInv, GuessesBounded, Ascending

LEMMA CountersKeep ==
  ASSUME AuthTypeOK, CountInv, RateInv, GuessesBounded, RateKept, [AuthNext]_authVars
  PROVE  (CountInv /\ RateInv /\ GuessesBounded /\ RateKept)'
<1>1. CASE UNCHANGED authVars
  BY <1>1, TimePasses DEF authVars
<1>2. CASE Tick
  BY <1>2, TimePasses DEF Tick
<1>3. CASE Change \/ StoreFails
  BY <1>3, TimePasses DEF Change, StoreFails
<1>4. ASSUME NEW k \in Keys, Setup(k) \/ Rename(k) \/ Recover(k)
      PROVE  (CountInv /\ RateInv /\ GuessesBounded /\ RateKept)'
  BY <1>4, TimePasses DEF Setup, Rename, Recover
<1>5. ASSUME NEW k \in Keys, LoginFails(k)
      PROVE  (CountInv /\ RateInv /\ GuessesBounded /\ RateKept)'
  BY <1>5, CountKeeps, AdmitKeeps DEF LoginFails, Admit
<1>6. ASSUME NEW k \in Keys, RecoverFails(k)
      PROVE  (CountInv /\ RateInv /\ GuessesBounded /\ RateKept)'
  BY <1>6, CountKeeps, RatesStay DEF RecoverFails
<1>7. ASSUME NEW k \in Keys, NEW s \in Tokens, Login(k, s)
      PROVE  (CountInv /\ RateInv /\ GuessesBounded /\ RateKept)'
  <2>1. Admit(k) /\ Forget(k) /\ UNCHANGED <<now, lockedUntil>>
    BY <1>7 DEF Login
  <2> QED  BY <2>1, AdmitKeeps, ForgetKeeps
<1>8. CASE Store
  <2>1. UNCHANGED <<now, lockedUntil, times, tries>>
    BY <1>8 DEF Store
  <2>2. CASE Forget(work.key)
    BY <2>1, <2>2, ForgetKeeps, RatesStay
  <2>3. CASE UNCHANGED <<failures, guesses>>
    BY <2>1, <2>3, CountsStay, RatesStay
  <2> QED  BY <1>8, <2>2, <2>3 DEF Store
<1>9. ASSUME NEW c \in Clients,
             LogoutWrites(c) \/ LogoutFails(c) \/ \E s \in Tokens : LogoutReads(c, s)
      PROVE  (CountInv /\ RateInv /\ GuessesBounded /\ RateKept)'
  BY <1>9, TimePasses DEF LogoutWrites, LogoutFails, LogoutReads
<1>10. CASE AuthRestart
  <2>1. \A k \in Keys : /\ guesses'[k] = <<>> /\ tries'[k] = <<>> /\ times'[k] = <<>>
                        /\ failures'[k] = 0
    BY <1>10 DEF AuthRestart
  <2>2. Len(<<>>) = 0 /\ MaxFailures \in Nat \ {0} /\ Rate \in Nat \ {0}
    BY AuthAssumption
  <2>3. CountInv' /\ GuessesBounded'
    BY <2>1, <2>2 DEF CountInv, GuessesBounded, Ascending
  <2>4. RateKept'
    BY <2>1, <2>2 DEF RateKept
  <2>5. RateInv'
    <3>1. \A k \in Keys : Len(tries'[k]) = 0 /\ Len(times'[k]) = 0
      BY <2>1, <2>2
    <3>2. \A k \in Keys : /\ 1..Len(tries'[k]) = {} /\ 1..Len(times'[k]) = {}
                          /\ 1..(Len(tries'[k]) - Len(times'[k])) = {}
      <4>1. 1..0 = {} /\ 0 - 0 = 0
        OBVIOUS
      <4> QED  BY Zenon, <3>1, <4>1
    <3>3. \A k \in Keys : Len(times'[k]) <= Len(tries'[k])
      BY <3>1
    <3> QED  BY Zenon, <3>2, <3>3 DEF RateInv, Ascending
  <2> QED  BY <2>3, <2>4, <2>5
<1> QED  BY <1>1, <1>2, <1>3, <1>4, <1>5, <1>6, <1>7, <1>8, <1>9, <1>10 DEF AuthNext

LEMMA CountersAlways == AuthSpec => [](CountInv /\ RateInv /\ GuessesBounded /\ RateKept)
<1>1. AuthInit => CountInv /\ RateInv /\ GuessesBounded /\ RateKept
  <2> SUFFICES ASSUME AuthInit PROVE CountInv /\ RateInv /\ GuessesBounded /\ RateKept
    OBVIOUS
  <2>1. /\ \A k \in Keys : guesses[k] = <<>> /\ tries[k] = <<>> /\ times[k] = <<>> /\ failures[k] = 0
        /\ Len(<<>>) = 0 /\ MaxFailures \in Nat \ {0} /\ Rate \in Nat \ {0}
    BY AuthAssumption DEF AuthInit
  <2>2. CountInv /\ GuessesBounded
    BY <2>1 DEF CountInv, GuessesBounded, Ascending
  <2>3. RateKept
    BY <2>1 DEF RateKept
  <2>4. RateInv
    <3>1. \A k \in Keys : Len(tries[k]) = 0 /\ Len(times[k]) = 0
      BY <2>1
    <3>2. \A k \in Keys : /\ 1..Len(tries[k]) = {} /\ 1..Len(times[k]) = {}
                          /\ 1..(Len(tries[k]) - Len(times[k])) = {}
      <4>1. 1..0 = {} /\ 0 - 0 = 0
        OBVIOUS
      <4> QED  BY Zenon, <3>1, <4>1
    <3>3. \A k \in Keys : Len(times[k]) <= Len(tries[k])
      BY <3>1
    <3> QED  BY Zenon, <3>2, <3>3 DEF RateInv, Ascending
  <2> QED  BY <2>2, <2>3, <2>4
<1>2. /\ CountInv /\ RateInv /\ GuessesBounded /\ RateKept
      /\ AuthTypeOK /\ [AuthNext]_authVars
      => (CountInv /\ RateInv /\ GuessesBounded /\ RateKept)'
  BY CountersKeep
<1> QED  BY <1>1, <1>2, AuthTypes, PTL DEF AuthSpec

\* For every MAX_FAILURES and LOCKOUT_SEC: however failed logins and failed
\* recoveries of a name are mixed, MaxFailures + 1 of them in a row, without a
\* success or a restart between, take Lockout at least (auth.py:126-148, 163-168, 181-206).
THEOREM GuessesAreBounded == AuthSpec => []GuessesBounded
BY CountersAlways, PTL

\* For every rate and window: no window of time has more logins of a name, right
\* or wrong, than the rate (auth.py:185-191).
THEOREM RateIsKept == AuthSpec => []RateKept
BY CountersAlways, PTL

\* Unless a logout ran beside it, one request at a time is between its read and its write, and what it has read
\* is still in the file but for sessions that have ended.
SessInv ==
  /\ \A c \in Clients : leaving[c] # Idle =>
       /\ work = Idle /\ \A d \in Clients \ {c} : leaving[d] = Idle
       /\ leaving[c].token \in Tokens /\ leaving[c].file = [sessions EXCEPT ![leaving[c].token] = 0]
  /\ (work.op = "none" => work = Idle) /\ work.op # "logout"
  /\ work.op = "login" =>
       /\ work.token \in Tokens
       /\ \A s \in Tokens \ {work.token} :
            work.file[s] = sessions[s] \/ (work.file[s] = 0 /\ sessions[s] <= now)
  /\ work.op \in {"change", "recover"} => work.file = NoSessions

LEMMA SessKeeps ==
  ASSUME ~ beside, ~ beside', AuthTypeOK, SessInv, SessionsAsGranted, [AuthNext]_authVars
  PROVE  SessInv' /\ SessionsAsGranted'
<1>1. /\ Idle.op = "none" /\ Idle.file = NoSessions /\ \A s \in Tokens : NoSessions[s] = 0
      /\ sessions \in [Tokens -> Nat] /\ granted \in [Tokens -> Nat] /\ now \in Nat
      /\ work \in Works /\ work.file \in [Tokens -> Nat]
  BY DEF Idle, NoSessions, AuthTypeOK, Files, Works
<1>2. ASSUME UNCHANGED <<sessions, granted, work, leaving>>, now' \in {now, now + 1}
      PROVE  SessInv' /\ SessionsAsGranted'
  <2>1. SessInv'
    BY <1>1, <1>2 DEF SessInv
  <2>2. SessionsAsGranted'
    BY <1>1, <1>2 DEF SessionsAsGranted
  <2> QED  BY <2>1, <2>2
<1>3. ASSUME Joins
      PROVE  work = Idle /\ \A c \in Clients : leaving[c] = Idle
  BY <1>3 DEF Joins
<1>4. ASSUME UNCHANGED <<sessions, granted, now>>
      PROVE  SessionsAsGranted'
  BY <1>4 DEF SessionsAsGranted
<1>5. CASE UNCHANGED authVars
  BY <1>2, <1>5 DEF authVars
<1>6. CASE Tick
  BY <1>2, <1>6 DEF Tick
<1>7. ASSUME NEW k \in Keys, Setup(k) \/ Rename(k) \/ LoginFails(k) \/ RecoverFails(k)
      PROVE  SessInv' /\ SessionsAsGranted'
  BY <1>2, <1>7 DEF Setup, Rename, LoginFails, RecoverFails
<1>8. ASSUME NEW k \in Keys, NEW s \in Tokens, Login(k, s)
      PROVE  SessInv' /\ SessionsAsGranted'
  <2> DEFINE file == [u \in Tokens |-> IF u = s THEN now + Lifetime
                                       ELSE IF sessions[u] > now THEN sessions[u] ELSE 0]
  <2>1. /\ Joins /\ UNCHANGED <<sessions, granted, now, leaving>>
        /\ work' = [op |-> "login", key |-> k, token |-> s, file |-> file]
    BY <1>8 DEF Login
  <2>2. \A u \in Tokens \ {s} : file[u] = sessions[u] \/ (file[u] = 0 /\ sessions[u] <= now)
    BY <1>1
  <2> HIDE DEF file
  <2>3. work'.op = "login" /\ work'.token = s /\ work'.file = file
    BY <2>1
  <2>4. \A c \in Clients : leaving'[c] = Idle
    BY <1>3, <2>1
  <2>5. SessInv'
    BY <2>1, <2>2, <2>3, <2>4 DEF SessInv
  <2> QED  BY <1>4, <2>1, <2>5
<1>9. ASSUME NEW k \in Keys, Recover(k)
      PROVE  SessInv' /\ SessionsAsGranted'
  <2>1. Joins /\ UNCHANGED <<sessions, granted, now, leaving>>
    BY <1>9 DEF Recover
  <2>2. work'.op = "recover" /\ work'.file = NoSessions
    BY <1>9 DEF Recover, Idle
  <2>3. \A c \in Clients : leaving'[c] = Idle
    BY <1>3, <2>1
  <2>4. SessInv'
    BY <2>2, <2>3 DEF SessInv
  <2> QED  BY <1>4, <2>1, <2>4
<1>10. CASE Change
  <2>1. Joins /\ UNCHANGED <<sessions, granted, now, leaving>>
    BY <1>10 DEF Change
  <2>2. work'.op = "change" /\ work'.file = NoSessions
    BY <1>10 DEF Change, Idle
  <2>3. \A c \in Clients : leaving'[c] = Idle
    BY <1>3, <2>1
  <2>4. SessInv'
    BY <2>2, <2>3 DEF SessInv
  <2> QED  BY <1>4, <2>1, <2>4
<1>11. CASE Store
  <2>1. /\ work.op # "none" /\ sessions' = work.file /\ work' = Idle /\ UNCHANGED <<now, leaving>>
        /\ granted' = IF work.op = "login" THEN [granted EXCEPT ![work.token] = work.file[work.token]]
                      ELSE NoSessions
    BY <1>11 DEF Store
  <2>2. \A c \in Clients : leaving'[c] = Idle
    BY <1>1, <2>1 DEF SessInv
  <2>3. SessInv'
    BY <1>1, <2>1, <2>2 DEF SessInv
  <2>4. CASE work.op = "login"
    <3> SUFFICES ASSUME NEW s \in Tokens, sessions'[s] > now \/ granted'[s] > now
                 PROVE  sessions'[s] = granted'[s]
      BY <2>1, <2>3 DEF SessionsAsGranted
    <3>1. /\ work.token \in Tokens /\ sessions'[s] = work.file[s]
          /\ granted'[s] = IF s = work.token THEN work.file[s] ELSE granted[s]
      BY <1>1, <2>1, <2>4 DEF SessInv
    <3>2. CASE s = work.token
      BY <3>1, <3>2
    <3>3. CASE s # work.token
      <4>1. work.file[s] = sessions[s] \/ (work.file[s] = 0 /\ sessions[s] <= now)
        BY <2>4, <3>3 DEF SessInv
      <4>2. sessions[s] \in Nat /\ granted[s] \in Nat /\ (sessions[s] > now \/ granted[s] > now => sessions[s] = granted[s])
        BY <1>1 DEF SessionsAsGranted
      <4> QED  BY <1>1, <3>1, <3>3, <4>1, <4>2
    <3> QED  BY <3>2, <3>3
  <2>5. CASE work.op # "login"
    <3>1. sessions' = NoSessions /\ granted' = NoSessions
      <4>1. work.op \in {"change", "recover", "logout"}
        BY <1>1, <2>1, <2>5 DEF Works
      <4>2. work.op \in {"change", "recover"}
        BY <4>1 DEF SessInv
      <4> QED  BY <1>1, <2>1, <2>5, <4>2 DEF SessInv
    <3> QED  BY <2>3, <3>1 DEF SessionsAsGranted
  <2> QED  BY <2>3, <2>4, <2>5
<1>12. CASE StoreFails
  <2>1. work.op # "none" /\ work' = Idle /\ UNCHANGED <<sessions, granted, now, leaving>>
    BY <1>12 DEF StoreFails
  <2>2. \A c \in Clients : leaving'[c] = Idle
    BY <1>1, <2>1 DEF SessInv
  <2>3. SessInv'
    BY <1>1, <2>1, <2>2 DEF SessInv
  <2> QED  BY <1>4, <2>1, <2>3
<1>13. ASSUME NEW c \in Clients, NEW s \in Tokens, LogoutReads(c, s)
       PROVE  SessInv' /\ SessionsAsGranted'
  <2> DEFINE out == [op |-> "logout", key |-> Nobody, token |-> s, file |-> [sessions EXCEPT ![s] = 0]]
  <2>1. /\ work = Idle /\ (\A d \in Clients : leaving[d] = Idle) /\ UNCHANGED <<sessions, granted, now, work>>
        /\ leaving' = [leaving EXCEPT ![c] = out]
    BY <1>3, <1>13 DEF LogoutReads
  <2>2. out.token = s /\ out.file = [sessions EXCEPT ![s] = 0]
    OBVIOUS
  <2> HIDE DEF out
  <2>3. leaving'[c] = out /\ \A d \in Clients \ {c} : leaving'[d] = Idle
    BY <2>1 DEF AuthTypeOK
  <2>4. SessInv'
    BY <1>1, <2>1, <2>2, <2>3 DEF SessInv
  <2> QED  BY <1>4, <2>1, <2>4
<1>14. ASSUME NEW c \in Clients, LogoutWrites(c)
       PROVE  SessInv' /\ SessionsAsGranted'
  <2> DEFINE s == leaving[c].token
  <2>1. /\ leaving[c] # Idle /\ sessions' = leaving[c].file /\ granted' = [granted EXCEPT ![s] = 0]
        /\ leaving' = [leaving EXCEPT ![c] = Idle] /\ UNCHANGED <<now, work>>
    BY <1>14 DEF LogoutWrites
  <2>2. /\ work = Idle /\ s \in Tokens /\ sessions' = [sessions EXCEPT ![s] = 0]
        /\ \A d \in Clients : leaving'[d] = Idle
    BY <2>1 DEF SessInv, AuthTypeOK
  <2> HIDE DEF s
  <2>3. SessInv'
    BY <1>1, <2>1, <2>2 DEF SessInv
  <2>4. SessionsAsGranted'
    BY <1>1, <2>1, <2>2 DEF SessionsAsGranted
  <2> QED  BY <2>3, <2>4
<1>15. ASSUME NEW c \in Clients, LogoutFails(c)
       PROVE  SessInv' /\ SessionsAsGranted'
  <2>1. /\ leaving[c] # Idle /\ leaving' = [leaving EXCEPT ![c] = Idle]
        /\ UNCHANGED <<sessions, granted, now, work>>
    BY <1>15 DEF LogoutFails, counters
  <2>2. work = Idle /\ \A d \in Clients : leaving'[d] = Idle
    BY <2>1 DEF SessInv, AuthTypeOK
  <2>3. SessInv'
    BY <1>1, <2>1, <2>2 DEF SessInv
  <2> QED  BY <1>4, <2>1, <2>3
<1>16. CASE AuthRestart
  <2>1. /\ work' = Idle /\ (\A c \in Clients : leaving'[c] = Idle) /\ UNCHANGED <<sessions, granted, now>>
    BY <1>16 DEF AuthRestart
  <2>2. SessInv'
    BY <1>1, <2>1 DEF SessInv
  <2> QED  BY <1>4, <2>1, <2>2
<1> QED
  BY <1>5, <1>6, <1>7, <1>8, <1>9, <1>10, <1>11, <1>12, <1>13, <1>14, <1>15, <1>16 DEF AuthNext

LEMMA BesideStays ==
  ASSUME [AuthNext]_authVars, beside
  PROVE  beside'
<1>1. Joins \/ UNCHANGED beside => beside'
  BY DEF Joins
<1> QED
  BY <1>1 DEF AuthNext, authVars, Tick, Change, Store, StoreFails, AuthRestart, Setup, Rename,
              LoginFails, RecoverFails, Recover, Login, LogoutWrites, LogoutFails, LogoutReads

\* Where no logout runs beside another request: the file has, of the sessions
\* that have not ended, those that were granted, whatever write fails and
\* whenever the service is restarted (auth.py:206-236).
THEOREM SessionsStand == AuthSpec => []SessionsAsGranted
<1> DEFINE Inv == (~ beside => SessInv) /\ SessionsAsGranted
<1>1. AuthInit => Inv
  BY DEF AuthInit, SessInv, SessionsAsGranted, Idle, NoSessions
<1>2. Inv /\ AuthTypeOK /\ [AuthNext]_authVars => Inv'
  <2> SUFFICES ASSUME Inv, AuthTypeOK, [AuthNext]_authVars, ~ beside'
               PROVE  SessInv' /\ SessionsAsGranted'
    BY DEF SessionsAsGranted
  <2>1. ~ beside
    BY BesideStays
  <2> QED  BY <2>1, SessKeeps
<1> QED  BY <1>1, <1>2, AuthTypes, PTL DEF AuthSpec

-----------------------------------------------------------------------------
(* Both services *)

\* A behaviour of the two is one of each: what holds of each holds of both.
THEOREM ServicesAreBoth == ServicesSpec => FileSpec /\ AuthSpec
<1>1. ServicesInit => FileInit /\ AuthInit
  BY DEF ServicesInit
<1>2. [ServicesNext]_servicesVars => [FileNext]_fileVars /\ [AuthNext]_authVars
  BY DEF ServicesNext, servicesVars
<1> QED  BY <1>1, <1>2, PTL DEF ServicesSpec, FileSpec, AuthSpec

\* Every variable of both services keeps its type.
THEOREM ServicesTypes == ServicesSpec => []ServicesTypeOK
<1> DEFINE Scenes == scene \in {"repairs", "measurements", "accounts"}
<1>1. ServicesInit => Scenes
  BY DEF ServicesInit
<1>2. Scenes /\ [ServicesNext]_servicesVars => Scenes'
  BY DEF ServicesNext, servicesVars
<1>3. Scenes /\ FileTypeOK /\ AuthTypeOK => ServicesTypeOK
  BY DEF ServicesTypeOK
<1> HIDE DEF Scenes
<1> QED  BY <1>1, <1>2, <1>3, ServicesAreBoth, FileTypes, AuthTypes, PTL DEF ServicesSpec
=============================================================================
