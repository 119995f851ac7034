------------------------- MODULE RadiusServerProofs -------------------------
(***************************************************************************)
(* Proofs about RadiusProtocol and RadiusServer, for any devices, clients, *)
(* policies, packets of any bytes, administrators and starts of the server. *)
(*                                                                         *)
(* The first half is about the protocol: what the parser accepts, what it  *)
(* returns, and what a device reads in an answer.  The second half is about *)
(* the server.                                                             *)
(***************************************************************************)
EXTENDS RadiusServer, DictTheorems, SequenceTheorems, FiniteSetTheorems

-----------------------------------------------------------------------------
(***************************************************************************)
(* Proofs about RadiusProtocol: what the parser accepts and what it        *)
(* returns, for packets of any bytes.                                      *)
(*                                                                         *)
(* The parser is a recursive function of the offset.  Induction is over    *)
(* sets of naturals, so that every step is about sets.                     *)
(***************************************************************************)

\* What _parse_attributes makes of bytes: a type and at most 253 bytes.
Attribute == {a \in [type : Byte, value : Seq(Byte)] : Len(a.value) <= 253}

\* Bytes are numbers up to 255.
LEMMA BytesAreNumbers == Byte \subseteq Nat /\ \A b \in Byte : b <= 255
BY DEF Byte

-----------------------------------------------------------------------------
(* Induction *)

\* A set of naturals has a least element.
LEMMA LeastNatural ==
    ASSUME NEW S, S \subseteq Nat, S # {}
    PROVE  \E n \in S : \A m \in S : n <= m
<1> DEFINE R == OpToRel(<, Nat)
<1>1. IsWellFoundedOn(R, Nat)
  BY NatLessThanWellFounded
<1>2. \A m, n \in Nat : m < n => <<m, n>> \in R
  BY DEF OpToRel
<1> HIDE DEF R
<1>3. \E n \in S : \A m \in S : ~(<<m, n>> \in R)
  BY <1>1, WFMin, Zenon
<1>4. PICK n \in S : \A m \in S : ~(<<m, n>> \in R)
  BY <1>3
<1>5. ASSUME NEW m \in S PROVE n <= m
  <2>1. m \in Nat /\ n \in Nat /\ ~(m < n)
    BY <1>2, <1>4
  <2> QED
    BY <2>1
<1> QED
  BY <1>4, <1>5

\* Induction over a set: what holds of a number if it holds of all smaller
\* ones holds of every number.
LEMMA SetInduction ==
    ASSUME NEW S,
           \A n \in Nat : (\A m \in Nat : m < n => m \in S) => n \in S
    PROVE  \A n \in Nat : n \in S
<1> SUFFICES ASSUME Nat \ S # {} PROVE FALSE
  OBVIOUS
<1> DEFINE T == Nat \ S
<1>1. T \subseteq Nat /\ T # {}
  OBVIOUS
<1> HIDE DEF T
<1>2. PICK n \in T : \A m \in T : n <= m
  BY <1>1, LeastNatural
<1>3. \A m \in Nat : m < n => m \in S
  <2> SUFFICES ASSUME NEW m \in Nat, m < n, m \notin S PROVE FALSE
    OBVIOUS
  <2>1. m \in T /\ n \in Nat
    BY <1>1 DEF T
  <2>2. n <= m
    BY <1>2, <2>1
  <2> QED
    BY <2>1, <2>2
<1> QED
  BY <1>1, <1>2, <1>3 DEF T

-----------------------------------------------------------------------------
(* The parser satisfies its recursion *)

\* what the parser returns for the attributes after o bytes, if f says it for
\* those further on
ParseAfter(data, f, o) ==
    IF o = Len(data) THEN {<<>>}
    ELSE IF AttributeFits(data, o)
    THEN {<<AttributeAt(data, o)>> \o rest : rest \in f[o + data[o + 2]]}
    ELSE {}

\* The recursive function of ParseAttributes.
From(data) == CHOOSE f : f = [o \in 0..Len(data) |-> ParseAfter(data, f, o)]

\* The attributes after o bytes depend on what is further on only.
LEMMA ParseLooksAhead ==
    ASSUME NEW data \in Seq(Byte), NEW o \in 0..Len(data), NEW f, NEW g,
           \A p \in (o + 1)..Len(data) : f[p] = g[p]
    PROVE  ParseAfter(data, f, o) = ParseAfter(data, g, o)
<1>1. Len(data) \in Nat /\ \A i \in 1..Len(data) : data[i] \in Byte
  BY LenProperties, ElementOfSeq
<1>2. ASSUME AttributeFits(data, o)
      PROVE  o + data[o + 2] \in (o + 1)..Len(data)
  <2>1. (o + 2) \in 1..Len(data) /\ data[o + 2] >= 2 /\ o + data[o + 2] <= Len(data)
    BY <1>1, <1>2 DEF AttributeFits
  <2>2. data[o + 2] \in Byte
    BY <1>1, <2>1
  <2>3. data[o + 2] \in Nat
    BY <2>2, BytesAreNumbers
  <2> QED
    BY <1>1, <2>1, <2>3
<1> QED
  BY <1>2 DEF ParseAfter

\* There is a function that satisfies the recursion.
LEMMA ParserExists ==
    ASSUME NEW data \in Seq(Byte)
    PROVE  \E f : f = [o \in 0..Len(data) |-> ParseAfter(data, f, o)]
<1> DEFINE N == Len(data)
           Upto(n) == \E f : f = [o \in (N - n)..N |-> ParseAfter(data, f, o)]
           S == {n \in Nat : n <= N => Upto(n)}
<1>1. N \in Nat
  BY LenProperties
<1>2. ASSUME NEW n \in Nat, \A m \in Nat : m < n => m \in S
      PROVE  n \in S
  <2> SUFFICES ASSUME n <= N PROVE Upto(n)
    OBVIOUS
  <2>1. \E f : \A o \in (N - n + 1)..N :
            f[o] = ParseAfter(data, f, o)
    <3>1. CASE n = 0
      BY <1>1, <3>1
    <3>2. CASE n > 0
      <4>1. (n - 1) \in Nat /\ n - 1 < n
        BY <3>2
      <4>2. Upto(n - 1)
        <5>1. (n - 1) \in S
          BY <1>2, <4>1
        <5>2. n - 1 <= N
          BY <1>1
        <5> QED
          BY <5>1, <5>2
      <4>3. PICK f : f = [o \in (N - (n - 1))..N |-> ParseAfter(data, f, o)]
        BY <4>2
      <4>4. (N - (n - 1))..N = (N - n + 1)..N
        BY <1>1
      <4> QED
        BY <4>3, <4>4
    <3> QED
      BY <3>1, <3>2
  <2>2. PICK f : \A o \in (N - n + 1)..N : f[o] = ParseAfter(data, f, o)
    BY <2>1
  <2> DEFINE g == [o \in (N - n)..N |->
                    IF o = N - n THEN ParseAfter(data, f, o) ELSE f[o]]
  <2>3. \A p \in (N - n + 1)..N : g[p] = f[p]
    BY <1>1
  <2>4. \A o \in (N - n)..N : g[o] = ParseAfter(data, f, o)
    BY <1>1, <2>2
  <2> HIDE DEF g
  <2>5. ASSUME NEW o \in (N - n)..N
        PROVE  ParseAfter(data, f, o) = ParseAfter(data, g, o)
    <3>1. o \in 0..Len(data)
      BY <1>1
    <3>2. \A p \in (o + 1)..Len(data) : f[p] = g[p]
      BY <1>1, <2>3
    <3> QED
      BY <3>1, <3>2, ParseLooksAhead
  <2>6. g = [o \in (N - n)..N |-> ParseAfter(data, g, o)]
    <3>1. \A o \in (N - n)..N : g[o] = ParseAfter(data, g, o)
      BY <2>4, <2>5
    <3>2. g = [o \in (N - n)..N |-> g[o]]
      BY DEF g
    <3> QED
      BY <3>1, <3>2
  <2> QED
    BY <2>6
<1> HIDE DEF S
<1>3. N \in S
  BY <1>1, <1>2, SetInduction
<1>4. Upto(N)
  BY <1>1, <1>3 DEF S
<1>5. N - N = 0
  BY <1>1
<1> QED
  BY <1>4, <1>5

\* So the parser is that function.
LEMMA ParserDefined ==
    ASSUME NEW data \in Seq(Byte)
    PROVE  /\ ParseAttributes(data) = From(data)[0]
           /\ \A o \in 0..Len(data) :
                From(data)[o] = ParseAfter(data, From(data), o)
<1>1. From(data) = [o \in 0..Len(data) |-> ParseAfter(data, From(data), o)]
  BY ParserExists DEF From
<1>2. ParseAttributes(data) = From(data)[0]
  BY DEF ParseAttributes, From, ParseAfter
<1> QED
  BY <1>1, <1>2

\* What a sequence of bytes is, and what is left of it after k bytes.
LEMMA BytesType ==
    ASSUME NEW data \in Seq(Byte)
    PROVE  /\ Len(data) \in Nat
           /\ DOMAIN data = 1..Len(data)
           /\ \A i \in 1..Len(data) : data[i] \in Byte /\ data[i] \in Nat
BY LenProperties, ElementOfSeq, BytesAreNumbers

\* A piece of a sequence of bytes.
LEMMA PieceProperties ==
    ASSUME NEW data \in Seq(Byte), NEW m \in 1..(Len(data) + 1),
           NEW n \in (m - 1)..Len(data)
    PROVE  /\ SubSeq(data, m, n) \in Seq(Byte)
           /\ Len(SubSeq(data, m, n)) = n - m + 1
           /\ \A i \in 1..(n - m + 1) : SubSeq(data, m, n)[i] = data[m + i - 1]
<1>1. Len(data) \in Nat /\ \A i \in 1..Len(data) : data[i] \in Byte
  BY BytesType
<1>2. m \in Int /\ n \in Int /\ \A i \in m..n : data[i] \in Byte
  BY <1>1
<1>3. /\ SubSeq(data, m, n) \in Seq(Byte)
      /\ Len(SubSeq(data, m, n)) = IF m <= n THEN n - m + 1 ELSE 0
      /\ \A i \in 1..(n - m + 1) : SubSeq(data, m, n)[i] = data[m + i - 1]
  BY <1>2, SubSeqProperties
<1> QED
  BY <1>1, <1>2, <1>3

\* The bytes after the first k.
After(data, k) == SubSeq(data, k + 1, Len(data))

\* The bytes after the first k.
LEMMA AfterProperties ==
    ASSUME NEW data \in Seq(Byte), NEW k \in 0..Len(data)
    PROVE  /\ After(data, k) \in Seq(Byte)
           /\ Len(After(data, k)) = Len(data) - k
           /\ \A i \in 1..(Len(data) - k) : After(data, k)[i] = data[i + k]
<1>1. Len(data) \in Nat
  BY BytesType
<1>2. /\ k + 1 \in 1..(Len(data) + 1) /\ Len(data) \in ((k + 1) - 1)..Len(data)
      /\ Len(data) - (k + 1) + 1 = Len(data) - k
      /\ \A i \in 1..(Len(data) - k) : (k + 1) + i - 1 = i + k
  BY <1>1
<1>3. /\ After(data, k) \in Seq(Byte)
      /\ Len(After(data, k)) = Len(data) - (k + 1) + 1
      /\ \A i \in 1..(Len(data) - (k + 1) + 1) : After(data, k)[i] = data[(k + 1) + i - 1]
  BY <1>2, PieceProperties DEF After
<1> HIDE DEF After
<1> QED
  BY <1>2, <1>3

\* The value of an attribute that fits.
LEMMA ValueProperties ==
    ASSUME NEW data \in Seq(Byte), NEW o \in 0..Len(data), AttributeFits(data, o)
    PROVE  /\ (o + 1) \in 1..Len(data) /\ (o + 2) \in 1..Len(data)
           /\ data[o + 2] \in 2..255 /\ o + data[o + 2] \in (o + 2)..Len(data)
           /\ AttributeAt(data, o) \in Attribute
           /\ AttributeAt(data, o).type = data[o + 1]
           /\ Len(AttributeAt(data, o).value) = data[o + 2] - 2
           /\ \A i \in 1..(data[o + 2] - 2) :
                AttributeAt(data, o).value[i] = data[o + 2 + i]
<1> DEFINE n == data[o + 2]
           v == SubSeq(data, o + 3, o + n)
<1>1. Len(data) \in Nat /\ \A i \in 1..Len(data) : data[i] \in Byte /\ data[i] \in Nat
  BY BytesType
<1>2. (o + 1) \in 1..Len(data) /\ (o + 2) \in 1..Len(data)
  BY <1>1 DEF AttributeFits
<1>3. n \in Byte /\ n \in Nat /\ n >= 2 /\ o + n <= Len(data)
  BY <1>1, <1>2 DEF AttributeFits
<1> HIDE DEF n
<1>14. n <= 255
  BY <1>3, BytesAreNumbers
<1>4. n \in 2..255
  BY <1>3, <1>14
<1>5. /\ o + 3 \in 1..(Len(data) + 1) /\ o + n \in ((o + 3) - 1)..Len(data)
      /\ (o + n) - (o + 3) + 1 = n - 2
      /\ \A i \in 1..(n - 2) : (o + 3) + i - 1 = o + 2 + i
  BY <1>1, <1>3
<1>7. /\ v \in Seq(Byte) /\ Len(v) = n - 2
      /\ \A i \in 1..(n - 2) : v[i] = data[(o + 3) + i - 1]
  BY <1>5, PieceProperties
<1> HIDE DEF v
<1>8. Len(v) = n - 2
  BY <1>7
<1>9. ASSUME NEW i \in 1..(n - 2) PROVE v[i] = data[o + 2 + i]
  BY <1>5, <1>7
<1>10. AttributeAt(data, o) = [type |-> data[o + 1], value |-> v]
  BY DEF AttributeAt, v, n
<1>11. data[o + 1] \in Byte
  BY <1>1, <1>2
<1>12. AttributeAt(data, o) \in Attribute
  <2>1. Len(v) <= 253
    BY <1>4, <1>8
  <2>2. v \in Seq(Byte)
    BY <1>7
  <2> QED
    BY <1>10, <1>11, <2>1, <2>2 DEF Attribute
<1>13. o + n \in (o + 2)..Len(data)
  BY <1>1, <1>3
<1> QED
  BY <1>2, <1>4, <1>8, <1>9, <1>10, <1>12, <1>13 DEF n

\* The attribute at an offset is the one at the beginning of what is left.
LEMMA AttributeAfter ==
    ASSUME NEW data \in Seq(Byte), NEW k \in 0..Len(data),
           NEW o \in 0..(Len(data) - k)
    PROVE  /\ AttributeFits(After(data, k), o) <=> AttributeFits(data, o + k)
           /\ AttributeFits(data, o + k) =>
                /\ After(data, k)[o + 2] = data[o + k + 2]
                /\ AttributeAt(After(data, k), o) = AttributeAt(data, o + k)
<1> DEFINE rest == After(data, k)
<1>1. Len(data) \in Nat
  BY BytesType
<1>2. /\ rest \in Seq(Byte) /\ Len(rest) = Len(data) - k
      /\ \A i \in 1..(Len(data) - k) : rest[i] = data[i + k]
  BY AfterProperties
<1> HIDE DEF rest
<1>3. ASSUME o + 2 <= Len(data) - k
      PROVE  rest[o + 2] = data[o + k + 2] /\ rest[o + 1] = data[o + k + 1]
  <2>1. (o + 2) \in 1..(Len(data) - k) /\ (o + 1) \in 1..(Len(data) - k)
        /\ (o + 2) + k = o + k + 2 /\ (o + 1) + k = o + k + 1
    <3>1. (o + 2) \in 1..(Len(data) - k)
      BY <1>1, <1>3
    <3>2. (o + 1) \in 1..(Len(data) - k)
      BY <1>1, <1>3
    <3>3. (o + 2) + k = o + k + 2 /\ (o + 1) + k = o + k + 1
      OBVIOUS
    <3> QED
      BY <3>1, <3>2, <3>3
  <2>2. rest[o + 2] = data[(o + 2) + k]
    BY <1>2, <2>1
  <2>3. rest[o + 1] = data[(o + 1) + k]
    BY <1>2, <2>1
  <2> QED
    BY <2>1, <2>2, <2>3
<1>4. AttributeFits(rest, o) <=> AttributeFits(data, o + k)
  <2>1. o + 2 <= Len(rest) <=> (o + k) + 2 <= Len(data)
    BY <1>1, <1>2
  <2>2. CASE o + 2 <= Len(rest)
    <3>1. rest[o + 2] = data[(o + k) + 2] /\ data[(o + k) + 2] \in Nat
      <4>1. (o + k) + 2 \in 1..Len(data)
        BY <1>1, <2>1, <2>2
      <4> QED
        BY <1>2, <1>3, <2>2, <4>1, BytesType
    <3> QED
      BY <1>1, <1>2, <2>1, <2>2, <3>1 DEF AttributeFits
  <2> QED
    BY <2>1, <2>2 DEF AttributeFits
<1>5. ASSUME AttributeFits(data, o + k)
      PROVE  /\ rest[o + 2] = data[o + k + 2]
             /\ AttributeAt(rest, o) = AttributeAt(data, o + k)
  <2>1. o \in 0..Len(rest) /\ (o + k) \in 0..Len(data)
    BY <1>1, <1>2
  <2>2. o + 2 <= Len(data) - k
    BY <1>1, <1>5 DEF AttributeFits
  <2>3. rest[o + 2] = data[o + k + 2] /\ rest[o + 1] = data[o + k + 1]
    BY <1>3, <2>2
  <2> DEFINE n == data[o + k + 2]
             a == AttributeAt(rest, o)
             b == AttributeAt(data, o + k)
  <2>4. /\ a \in Attribute /\ a.type = rest[o + 1]
        /\ Len(a.value) = rest[o + 2] - 2
        /\ \A i \in 1..(rest[o + 2] - 2) : a.value[i] = rest[o + 2 + i]
    BY <1>2, <1>4, <1>5, <2>1, ValueProperties
  <2>5. /\ b \in Attribute /\ b.type = data[o + k + 1]
        /\ Len(b.value) = n - 2 /\ n \in 2..255 /\ (o + k) + n <= Len(data)
        /\ \A i \in 1..(n - 2) : b.value[i] = data[o + k + 2 + i]
    BY <1>1, <1>5, <2>1, ValueProperties
  <2> HIDE DEF n, a, b
  <2>6. rest[o + 2] = n
    BY <2>3 DEF n
  <2>11. n \in Nat /\ o + k + n <= Len(data)
    BY <1>1, <2>5
  <2>7. ASSUME NEW i \in 1..(n - 2) PROVE a.value[i] = b.value[i]
    <3>1. (o + 2 + i) \in 1..(Len(data) - k) /\ (o + 2 + i) + k = o + k + 2 + i
      BY <1>1, <2>11
    <3>2. rest[o + 2 + i] = data[o + k + 2 + i]
      BY <1>2, <3>1
    <3> QED
      BY <2>4, <2>5, <2>6, <3>2
  <2>8. a.value \in Seq(Byte) /\ b.value \in Seq(Byte) /\ Len(a.value) = Len(b.value)
    BY <2>4, <2>5, <2>6 DEF Attribute
  <2>9. a.value = b.value
    BY <2>5, <2>7, <2>8, SeqEqual
  <2>10. a = [type |-> a.type, value |-> a.value] /\ b = [type |-> b.type, value |-> b.value]
    BY <2>4, <2>5 DEF Attribute
  <2> QED
    BY <2>3, <2>4, <2>5, <2>9, <2>10 DEF a, b
<1> QED
  BY <1>4, <1>5 DEF rest

-----------------------------------------------------------------------------
(* Sequences laid end to end *)

\* The fold of FlattenSeq, from one sequence to the next.
FlatAt(seqs, f, i) == IF i = 1 THEN seqs[i] ELSE f[i - 1] \o seqs[i]

\* The recursive function of that fold.
Flat(seqs) == CHOOSE f : f = [i \in 1..Len(seqs) |-> FlatAt(seqs, f, i)]

\* There is a function that satisfies the recursion of FlattenSeq.
LEMMA FlatExists ==
    ASSUME NEW seqs, Len(seqs) \in Nat
    PROVE  \E f : f = [i \in 1..Len(seqs) |-> FlatAt(seqs, f, i)]
<1> DEFINE N == Len(seqs)
           Upto(n) == \E f : f = [i \in 1..n |-> FlatAt(seqs, f, i)]
           S == {n \in Nat : n <= N => Upto(n)}
<1>1. N \in Nat
  OBVIOUS
<1>2. ASSUME NEW n \in Nat, \A m \in Nat : m < n => m \in S
      PROVE  n \in S
  <2> SUFFICES ASSUME n <= N PROVE Upto(n)
    OBVIOUS
  <2>1. \E f : \A i \in 1..(n - 1) : f[i] = FlatAt(seqs, f, i)
    <3>1. CASE n = 0
      BY <3>1
    <3>2. CASE n > 0
      <4>1. (n - 1) \in Nat /\ n - 1 < n /\ n - 1 <= N
        BY <1>1, <3>2
      <4>2. Upto(n - 1)
        BY <1>2, <4>1
      <4> QED
        BY <4>2
    <3> QED
      BY <3>1, <3>2
  <2>2. PICK f : \A i \in 1..(n - 1) : f[i] = FlatAt(seqs, f, i)
    BY <2>1
  <2> DEFINE g == [i \in 1..n |-> IF i = n THEN FlatAt(seqs, f, n) ELSE f[i]]
  <2>3. \A i \in 1..(n - 1) : g[i] = f[i]
    OBVIOUS
  <2>4. \A i \in 1..n : g[i] = FlatAt(seqs, f, i)
    BY <2>2
  <2>5. g = [i \in 1..n |-> g[i]]
    OBVIOUS
  <2> HIDE DEF g
  <2>6. \A i \in 1..n : FlatAt(seqs, f, i) = FlatAt(seqs, g, i)
    BY <2>3 DEF FlatAt
  <2> QED
    BY <2>4, <2>5, <2>6
<1> HIDE DEF S
<1>3. N \in S
  BY <1>1, <1>2, SetInduction
<1> QED
  BY <1>1, <1>3 DEF S

\* So FlattenSeq returns the last value of that function.
LEMMA FlatDefined ==
    ASSUME NEW seqs, Len(seqs) \in Nat
    PROVE  /\ Len(seqs) = 0 => FlattenSeq(seqs) = seqs
           /\ Len(seqs) # 0 => FlattenSeq(seqs) = Flat(seqs)[Len(seqs)]
           /\ \A i \in 1..Len(seqs) : Flat(seqs)[i] = FlatAt(seqs, Flat(seqs), i)
<1>1. Flat(seqs) = [i \in 1..Len(seqs) |-> FlatAt(seqs, Flat(seqs), i)]
  BY FlatExists DEF Flat
<1>2. Len(seqs) # 0 => FlattenSeq(seqs) = Flat(seqs)[Len(seqs)]
  BY DEF FlattenSeq, Flat, FlatAt
<1>3. Len(seqs) = 0 => FlattenSeq(seqs) = seqs
  BY DEF FlattenSeq
<1> QED
  BY <1>1, <1>2, <1>3

\* Every value on the way is a sequence.
LEMMA FlatType ==
    ASSUME NEW T, NEW seqs \in Seq(Seq(T))
    PROVE  \A n \in 1..Len(seqs) : Flat(seqs)[n] \in Seq(T)
<1> DEFINE S == {n \in Nat : n \in 1..Len(seqs) => Flat(seqs)[n] \in Seq(T)}
<1>1. Len(seqs) \in Nat /\ \A i \in 1..Len(seqs) : seqs[i] \in Seq(T)
  BY LenProperties, ElementOfSeq
<1>2. \A i \in 1..Len(seqs) : Flat(seqs)[i] = FlatAt(seqs, Flat(seqs), i)
  BY <1>1, FlatDefined
<1>3. ASSUME NEW n \in Nat, \A m \in Nat : m < n => m \in S
      PROVE  n \in S
  <2> SUFFICES ASSUME n \in 1..Len(seqs) PROVE Flat(seqs)[n] \in Seq(T)
    OBVIOUS
  <2>1. Flat(seqs)[n] = FlatAt(seqs, Flat(seqs), n) /\ seqs[n] \in Seq(T)
    BY <1>1, <1>2
  <2>2. CASE n = 1
    BY <2>1, <2>2 DEF FlatAt
  <2>3. CASE n # 1
    <3>1. n - 1 \in Nat /\ n - 1 < n /\ n - 1 \in 1..Len(seqs)
      BY <1>1, <2>3
    <3>2. Flat(seqs)[n - 1] \in Seq(T)
      BY <1>3, <3>1
    <3>3. Flat(seqs)[n - 1] \o seqs[n] \in Seq(T)
      BY <2>1, <3>2, ConcatProperties
    <3> QED
      BY <2>1, <2>3, <3>3 DEF FlatAt
  <2> QED
    BY <2>2, <2>3
<1> HIDE DEF S
<1>4. \A n \in Nat : n \in S
  BY <1>3, SetInduction
<1> QED
  BY <1>1, <1>4 DEF S

\* What is flattened is a sequence.
LEMMA FlattenType ==
    ASSUME NEW T, NEW seqs \in Seq(Seq(T))
    PROVE  FlattenSeq(seqs) \in Seq(T)
<1>1. Len(seqs) \in Nat
  BY LenProperties
<1>2. CASE Len(seqs) = 0
  <2>1. seqs = <<>>
    BY <1>2, EmptySeq
  <2>2. FlattenSeq(seqs) = seqs
    BY <1>1, <1>2, FlatDefined
  <2>3. <<>> \in Seq(T)
    BY EmptySeq
  <2> QED
    BY <2>1, <2>2, <2>3
<1>3. CASE Len(seqs) # 0
  <2>1. Len(seqs) \in 1..Len(seqs)
    BY <1>1, <1>3
  <2> QED
    BY <1>1, <1>3, <2>1, FlatType, FlatDefined
<1> QED
  BY <1>2, <1>3

\* The first sequence comes first.
LEMMA FlattenFirst ==
    ASSUME NEW T, NEW x \in Seq(T), NEW rest \in Seq(Seq(T))
    PROVE  FlattenSeq(<<x>> \o rest) = x \o FlattenSeq(rest)
<1> DEFINE one == <<x>>
           seqs == one \o rest
           N == Len(rest)
<1>1. one \in Seq(Seq(T)) /\ Len(one) = 1 /\ one[1] = x
  OBVIOUS
<1> HIDE DEF one
<1>2. /\ seqs \in Seq(Seq(T)) /\ Len(seqs) = 1 + N
      /\ \A i \in 1..(1 + N) : seqs[i] = IF i <= 1 THEN one[i] ELSE rest[i - 1]
  <2>1. /\ one \o rest \in Seq(Seq(T)) /\ Len(one \o rest) = Len(one) + Len(rest)
        /\ \A i \in 1..(Len(one) + Len(rest)) :
            (one \o rest)[i] = IF i <= Len(one) THEN one[i] ELSE rest[i - Len(one)]
    BY <1>1, ConcatProperties
  <2> QED
    BY <1>1, <2>1
<1>3. N \in Nat
  BY LenProperties
<1> HIDE DEF seqs
<1>4. seqs[1] = x /\ \A i \in 1..N : seqs[i + 1] = rest[i]
  BY <1>1, <1>2, <1>3
<1> DEFINE f == Flat(seqs)
           g == Flat(rest)
<1>5. \A i \in 1..(N + 1) : f[i] = FlatAt(seqs, f, i)
  BY <1>2, <1>3, FlatDefined
<1>6. \A i \in 1..N : g[i] = FlatAt(rest, g, i)
  BY <1>3, FlatDefined
<1>7. \A i \in 1..N : g[i] \in Seq(T)
  BY FlatType
<1>8. \A i \in 1..N : rest[i] \in Seq(T)
  BY ElementOfSeq
<1>15. \A s, t \in Seq(T) : (x \o s) \o t = x \o (s \o t)
  BY ConcatAssociative
<1> HIDE DEF f, g, N
<1>9. f[1] = x
  <2>1. 1 \in 1..(N + 1)
    BY <1>3
  <2> QED
    BY <1>4, <1>5, <2>1 DEF FlatAt
<1> DEFINE S == {n \in Nat : n \in 1..N => f[n + 1] = x \o g[n]}
<1>10. ASSUME NEW n \in Nat, \A m \in Nat : m < n => m \in S
       PROVE  n \in S
  <2> SUFFICES ASSUME n \in 1..N PROVE f[n + 1] = x \o g[n]
    OBVIOUS
  <2>1. /\ n + 1 \in 1..(N + 1) /\ n + 1 # 1 /\ (n + 1) - 1 = n
        /\ seqs[n + 1] = rest[n]
    BY <1>3, <1>4
  <2>2. f[n + 1] = f[n] \o rest[n]
    BY <1>5, <2>1 DEF FlatAt
  <2>3. CASE n = 1
    BY <1>6, <1>9, <2>2, <2>3 DEF FlatAt
  <2>4. CASE n # 1
    <3>1. n - 1 \in Nat /\ n - 1 < n /\ n - 1 \in 1..N /\ (n - 1) + 1 = n
      BY <1>3, <2>4
    <3>2. f[n] = x \o g[n - 1]
      BY <1>10, <3>1
    <3>3. g[n] = g[n - 1] \o rest[n]
      BY <1>6, <2>4 DEF FlatAt
    <3>4. (x \o g[n - 1]) \o rest[n] = x \o (g[n - 1] \o rest[n])
      <4>1. g[n - 1] \in Seq(T) /\ rest[n] \in Seq(T)
        BY <1>7, <1>8, <3>1
      <4> QED
        BY <1>15, <4>1
    <3> QED
      BY <2>2, <3>2, <3>3, <3>4
  <2> QED
    BY <2>3, <2>4
<1> HIDE DEF S
<1>11. \A n \in Nat : n \in S
  BY <1>10, SetInduction
<1>12. FlattenSeq(seqs) = f[N + 1]
  <2>1. Len(seqs) \in Nat /\ Len(seqs) # 0 /\ Len(seqs) = N + 1
    BY <1>2, <1>3 DEF N
  <2> QED
    BY <2>1, FlatDefined DEF f
<1>13. CASE N = 0
  <2>1. rest = <<>>
    BY <1>13, EmptySeq DEF N
  <2>2. FlattenSeq(rest) = <<>>
    BY <1>3, <1>13, <2>1, FlatDefined DEF N
  <2>3. x \o <<>> = x
    BY ConcatEmptySeq
  <2> QED
    BY <1>9, <1>12, <1>13, <2>2, <2>3 DEF seqs, one
<1>14. CASE N # 0
  <2>1. N \in 1..N
    BY <1>3, <1>14
  <2>2. f[N + 1] = x \o g[N]
    BY <1>11, <2>1, <1>3 DEF S
  <2>3. FlattenSeq(rest) = g[N]
    BY <1>3, <1>14, FlatDefined DEF N, g
  <2> QED
    BY <1>12, <2>2, <2>3 DEF seqs, one
<1> QED
  BY <1>13, <1>14

-----------------------------------------------------------------------------
(* What is parsed of a packet *)

\* What the parser does after k bytes is what it does with the rest.
LEMMA ParserSuffix ==
    ASSUME NEW data \in Seq(Byte), NEW k \in 0..Len(data)
    PROVE  \A o \in 0..(Len(data) - k) : From(After(data, k))[o] = From(data)[o + k]
<1> DEFINE rest == After(data, k)
           N == Len(data) - k
           f == From(rest)
           g == From(data)
           S == {n \in Nat : n <= N => f[N - n] = g[(N - n) + k]}
<1>1. Len(data) \in Nat /\ N \in Nat
  BY BytesType
<1>2. rest \in Seq(Byte) /\ Len(rest) = N
  BY AfterProperties
<1>3. \A o \in 0..N : f[o] = ParseAfter(rest, f, o)
  BY <1>2, ParserDefined
<1>4. \A o \in 0..Len(data) : g[o] = ParseAfter(data, g, o)
  BY ParserDefined
<1>5. \A o \in 0..N :
        /\ AttributeFits(rest, o) <=> AttributeFits(data, o + k)
        /\ AttributeFits(data, o + k) =>
            /\ rest[o + 2] = data[o + k + 2]
            /\ AttributeAt(rest, o) = AttributeAt(data, o + k)
  BY AttributeAfter
<1>6. \A o \in 0..N : AttributeFits(data, o + k) =>
        /\ data[o + k + 2] \in 2..255
        /\ o + k + data[o + k + 2] <= Len(data)
  <2> TAKE o \in 0..N
  <2> HAVE AttributeFits(data, o + k)
  <2>1. (o + k) \in 0..Len(data)
    BY <1>1
  <2>2. /\ data[(o + k) + 2] \in 2..255
        /\ (o + k) + data[(o + k) + 2] \in ((o + k) + 2)..Len(data)
    BY <2>1, ValueProperties
  <2> QED
    BY <1>1, <2>2
<1> HIDE DEF rest, f, g
<1>7. ASSUME NEW n \in Nat, \A m \in Nat : m < n => m \in S
      PROVE  n \in S
  <2> SUFFICES ASSUME n <= N PROVE f[N - n] = g[(N - n) + k]
    OBVIOUS
  <2> DEFINE o == N - n
  <2>1. o \in 0..N /\ (o + k) \in 0..Len(data) /\ (o = N <=> o + k = Len(data))
    BY <1>1
  <2> HIDE DEF N
  <2>2. f[o] = ParseAfter(rest, f, o) /\ g[o + k] = ParseAfter(data, g, o + k)
    BY <1>3, <1>4, <2>1
  <2> HIDE DEF o
  <2>3. CASE o = N
    BY <1>2, <2>1, <2>2, <2>3 DEF ParseAfter, o
  <2>4. CASE o # N /\ ~AttributeFits(data, o + k)
    BY <1>2, <1>5, <2>1, <2>2, <2>4 DEF ParseAfter, o
  <2>5. CASE o # N /\ AttributeFits(data, o + k)
    <3> DEFINE b == data[o + k + 2]
    <3>1. b \in 2..255 /\ o + k + b <= Len(data) /\ rest[o + 2] = b
      BY <1>5, <1>6, <2>1, <2>5
    <3> HIDE DEF b
    <3>2. PICK m \in Nat : m = n - b
      BY <1>1, <2>1, <3>1 DEF o, N
    <3>3. m < n /\ m <= N /\ N - m = o + b /\ (N - m) + k = o + k + b
      BY <1>1, <2>1, <3>1, <3>2 DEF o
    <3>4. f[o + b] = g[o + k + b]
      <4>1. m \in S
        BY <1>7, <3>3
      <4>2. f[N - m] = g[(N - m) + k]
        BY <3>3, <4>1
      <4> QED
        BY <3>3, <4>2
    <3>5. f[o] = {<<AttributeAt(rest, o)>> \o r : r \in f[o + b]}
      BY <1>2, <1>5, <2>1, <2>2, <2>5, <3>1 DEF ParseAfter
    <3>6. g[o + k] = {<<AttributeAt(data, o + k)>> \o r : r \in g[o + k + b]}
      BY <2>1, <2>2, <2>5 DEF ParseAfter, b
    <3>7. AttributeAt(rest, o) = AttributeAt(data, o + k)
      BY <1>5, <2>1, <2>5
    <3> QED
      BY <3>4, <3>5, <3>6, <3>7 DEF o
  <2> QED
    BY <2>3, <2>4, <2>5
<1> HIDE DEF S
<1>8. \A n \in Nat : n \in S
  BY <1>7, SetInduction
<1>9. ASSUME NEW o \in 0..N PROVE f[o] = g[o + k]
  <2>1. N - o \in Nat /\ N - o <= N /\ N - (N - o) = o
    BY <1>1
  <2>2. N - o \in S
    BY <1>8, <2>1
  <2> HIDE DEF N
  <2> QED
    BY <2>1, <2>2 DEF S
<1> QED
  BY <1>9 DEF f, g, rest

\* What the parser returns, by the first attribute and the rest.
LEMMA ParseStep ==
    ASSUME NEW data \in Seq(Byte)
    PROVE  /\ data = <<>> => ParseAttributes(data) = {<<>>}
           /\ data # <<>> /\ ~AttributeFits(data, 0) => ParseAttributes(data) = {}
           /\ AttributeFits(data, 0) =>
                ParseAttributes(data) =
                    {<<AttributeAt(data, 0)>> \o r :
                        r \in ParseAttributes(After(data, data[2]))}
<1>1. Len(data) \in Nat /\ (data = <<>> <=> Len(data) = 0)
  BY BytesType, EmptySeq
<1>2. /\ ParseAttributes(data) = From(data)[0]
      /\ From(data)[0] = ParseAfter(data, From(data), 0)
  BY <1>1, ParserDefined
<1>3. data = <<>> => ParseAttributes(data) = {<<>>}
  BY <1>1, <1>2 DEF ParseAfter
<1>4. data # <<>> /\ ~AttributeFits(data, 0) => ParseAttributes(data) = {}
  BY <1>1, <1>2 DEF ParseAfter
<1>5. ASSUME AttributeFits(data, 0)
      PROVE  ParseAttributes(data) =
                {<<AttributeAt(data, 0)>> \o r :
                    r \in ParseAttributes(After(data, data[2]))}
  <2>1. 0 \in 0..Len(data)
    BY <1>1
  <2>2. data[0 + 2] \in 2..255 /\ 0 + data[0 + 2] \in (0 + 2)..Len(data)
    BY <1>5, <2>1, ValueProperties
  <2> DEFINE b == data[2]
  <2>8. 0 + 2 = 2
    OBVIOUS
  <2>9. b \in 2..255 /\ 0 + b \in (0 + 2)..Len(data)
    BY <2>2, <2>8
  <2>3. b \in 0..Len(data) /\ 0 # Len(data) /\ 0 + data[0 + 2] = b
    <3>1. 0 + data[0 + 2] = 0 + b
      BY <2>8
    <3> HIDE DEF b
    <3>2. b \in 0..Len(data) /\ 0 # Len(data) /\ 0 + b = b
      BY <1>1, <2>9
    <3> QED
      BY <3>1, <3>2
  <2>4. ParseAttributes(data) = {<<AttributeAt(data, 0)>> \o r : r \in From(data)[b]}
    BY <1>2, <1>5, <2>3 DEF ParseAfter
  <2> HIDE DEF b
  <2>5. After(data, b) \in Seq(Byte) /\ Len(After(data, b)) = Len(data) - b
    BY <2>3, AfterProperties
  <2>6. ParseAttributes(After(data, b)) = From(After(data, b))[0]
    BY <2>5, ParserDefined
  <2>7. From(After(data, b))[0] = From(data)[b]
    <3>1. 0 \in 0..(Len(data) - b) /\ 0 + b = b
      BY <1>1, <2>3
    <3>2. From(After(data, b))[0] = From(data)[0 + b]
      BY <2>3, <3>1, ParserSuffix
    <3> QED
      BY <3>1, <3>2
  <2> QED
    BY <2>4, <2>6, <2>7 DEF b
<1> QED
  BY <1>3, <1>4, <1>5

\* the bytes of one attribute
BytesOf(a) == <<a.type, Len(a.value) + 2>> \o a.value

\* The bytes of an attribute begin with its type and its length.
LEMMA BytesOfProperties ==
    ASSUME NEW a \in Attribute
    PROVE  /\ BytesOf(a) \in Seq(Byte)
           /\ Len(BytesOf(a)) = Len(a.value) + 2
           /\ Len(a.value) \in 0..253
           /\ BytesOf(a)[1] = a.type /\ BytesOf(a)[2] = Len(a.value) + 2
           /\ \A i \in 1..Len(a.value) : BytesOf(a)[i + 2] = a.value[i]
<1> DEFINE v == a.value
           n == Len(v)
           m == n + 2
           head == <<a.type, m>>
<1>1. v \in Seq(Byte) /\ a.type \in Byte /\ n <= 253
  BY DEF Attribute
<1> HIDE DEF head
<1>2. n \in Nat
  BY <1>1, BytesType
<1> HIDE DEF v, n
<1>3. n \in 0..253
  <2>1. n <= 253
    BY <1>1
  <2> QED
    BY <1>2, <2>1
<1>4. m \in 0..255
  BY <1>3
<1> HIDE DEF m
<1>5. m \in Byte
  BY <1>4 DEF Byte
<1>6. head \in Seq(Byte) /\ Len(head) = 2 /\ head[1] = a.type /\ head[2] = m
  BY <1>1, <1>5 DEF head
<1>7. /\ head \o v \in Seq(Byte) /\ Len(head \o v) = Len(head) + Len(v)
      /\ \A i \in 1..(Len(head) + Len(v)) :
            (head \o v)[i] = IF i <= Len(head) THEN head[i] ELSE v[i - Len(head)]
  <2>1. head \in Seq(Byte) /\ v \in Seq(Byte)
    BY <1>1, <1>6
  <2> QED
    BY <2>1, ConcatProperties
<1> DEFINE bytes == head \o v
<1>8. /\ Len(bytes) = 2 + n
      /\ \A i \in 1..(2 + n) : bytes[i] = IF i <= 2 THEN head[i] ELSE v[i - 2]
  <2>1. Len(head) = 2 /\ Len(v) = n
    BY <1>6 DEF n
  <2> QED
    BY <1>7, <2>1
<1>9. bytes \in Seq(Byte)
  BY <1>7
<1> HIDE DEF bytes
<1>10. bytes[1] = a.type /\ bytes[2] = m
  <2>1. 1 \in 1..(2 + n) /\ 2 \in 1..(2 + n) /\ 1 <= 2 /\ 2 <= 2
    BY <1>2
  <2>2. bytes[1] = head[1] /\ bytes[2] = head[2]
    BY <1>8, <2>1
  <2> QED
    BY <1>6, <2>2
<1>11. ASSUME NEW i \in 1..n PROVE bytes[i + 2] = v[i]
  <2>1. i + 2 \in 1..(2 + n) /\ ~(i + 2 <= 2) /\ (i + 2) - 2 = i
    BY <1>2
  <2> QED
    BY <1>8, <2>1
<1>12. Len(bytes) = n + 2
  BY <1>2, <1>8
<1>13. BytesOf(a) = bytes
  BY DEF BytesOf, bytes, head, m, n, v
<1> QED
  BY <1>3, <1>9, <1>10, <1>11, <1>12, <1>13 DEF m, n, v

\* The bytes of a sequence of attributes are bytes.
LEMMA AttributeBytesType ==
    ASSUME NEW attrs \in Seq(Attribute)
    PROVE  AttributeBytes(attrs) \in Seq(Byte)
<1> DEFINE pieces == [i \in 1..Len(attrs) |-> BytesOf(attrs[i])]
<1>1. Len(attrs) \in Nat /\ DOMAIN attrs = 1..Len(attrs)
  BY LenProperties
<1>2. \A i \in 1..Len(attrs) : BytesOf(attrs[i]) \in Seq(Byte)
  BY ElementOfSeq, BytesOfProperties
<1>3. pieces \in Seq(Seq(Byte))
  BY <1>1, <1>2
<1>4. AttributeBytes(attrs) = FlattenSeq(pieces)
  BY <1>1 DEF AttributeBytes, BytesOf
<1> QED
  BY <1>3, <1>4, FlattenType

\* The bytes of the first attribute come first.
LEMMA AttributeBytesFirst ==
    ASSUME NEW a \in Attribute, NEW rest \in Seq(Attribute)
    PROVE  /\ <<a>> \o rest \in Seq(Attribute)
           /\ AttributeBytes(<<a>> \o rest) = BytesOf(a) \o AttributeBytes(rest)
<1> DEFINE one == <<a>>
           attrs == one \o rest
           N == Len(rest)
           tail == [i \in 1..N |-> BytesOf(rest[i])]
           first == <<BytesOf(a)>>
           pieces == [i \in 1..Len(attrs) |-> BytesOf(attrs[i])]
<1>1. one \in Seq(Attribute) /\ Len(one) = 1 /\ one[1] = a
  OBVIOUS
<1>2. N \in Nat /\ DOMAIN rest = 1..N /\ \A i \in 1..N : rest[i] \in Attribute
  BY LenProperties, ElementOfSeq
<1> HIDE DEF one
<1>3. /\ attrs \in Seq(Attribute) /\ Len(attrs) = Len(one) + N
      /\ \A i \in 1..(Len(one) + N) :
            attrs[i] = IF i <= Len(one) THEN one[i] ELSE rest[i - Len(one)]
  BY <1>1, ConcatProperties
<1> HIDE DEF attrs, N
<1>4. DOMAIN attrs = 1..Len(attrs)
  BY <1>3, LenProperties
<1>5. tail \in Seq(Seq(Byte)) /\ Len(tail) = N
  <2>1. \A i \in 1..N : BytesOf(rest[i]) \in Seq(Byte)
    BY <1>2, BytesOfProperties
  <2> QED
    BY <1>2, <2>1
<1>6. BytesOf(a) \in Seq(Byte)
  BY BytesOfProperties
<1>7. first \in Seq(Seq(Byte)) /\ Len(first) = 1 /\ first[1] = BytesOf(a)
  BY <1>6
<1>8. AttributeBytes(attrs) = FlattenSeq(pieces)
  BY <1>4 DEF AttributeBytes, BytesOf
<1>9. AttributeBytes(rest) = FlattenSeq(tail)
  BY <1>2 DEF AttributeBytes, BytesOf
<1>10. \A i \in 1..N : tail[i] = BytesOf(rest[i])
  OBVIOUS
<1>14. /\ Len(pieces) = Len(attrs) /\ \A i \in 1..Len(attrs) : pieces[i] = BytesOf(attrs[i])
       /\ pieces \in Seq(Seq(Byte))
  <2>1. \A i \in 1..Len(attrs) : BytesOf(attrs[i]) \in Seq(Byte)
    BY <1>3, ElementOfSeq, BytesOfProperties
  <2>2. Len(attrs) \in Nat
    BY <1>1, <1>2, <1>3
  <2> QED
    BY <2>1, <2>2
<1> HIDE DEF first, tail, pieces
<1>11. /\ first \o tail \in Seq(Seq(Byte)) /\ Len(first \o tail) = Len(first) + Len(tail)
       /\ \A i \in 1..(Len(first) + Len(tail)) :
            (first \o tail)[i] = IF i <= Len(first) THEN first[i] ELSE tail[i - Len(first)]
  BY <1>5, <1>7, ConcatProperties
<1>12. pieces = first \o tail
  <2>1. Len(pieces) = Len(first \o tail)
    BY <1>1, <1>3, <1>5, <1>7, <1>11, <1>14
  <2>2. ASSUME NEW i \in 1..Len(pieces) PROVE pieces[i] = (first \o tail)[i]
    <3>1. i \in 1..(1 + N) /\ pieces[i] = BytesOf(attrs[i])
      BY <1>1, <1>3, <1>14
    <3>2. CASE i = 1
      <4>1. attrs[1] = a
        BY <1>1, <1>2, <1>3
      <4>2. (first \o tail)[1] = BytesOf(a)
        BY <1>2, <1>5, <1>7, <1>11
      <4> QED
        BY <3>1, <3>2, <4>1, <4>2
    <3>3. CASE i # 1
      <4>1. i - 1 \in 1..N /\ ~(i <= 1)
        BY <1>2, <3>1, <3>3
      <4>2. attrs[i] = rest[i - 1]
        BY <1>1, <1>3, <3>1, <4>1
      <4>3. (first \o tail)[i] = tail[i - 1]
        BY <1>5, <1>7, <1>11, <3>1, <4>1
      <4> QED
        BY <1>10, <3>1, <4>1, <4>2, <4>3
    <3> QED
      BY <3>2, <3>3
  <2> QED
    BY <1>11, <1>14, <2>1, <2>2, SeqEqual
<1>13. FlattenSeq(first \o tail) = BytesOf(a) \o FlattenSeq(tail)
  BY <1>5, <1>6, FlattenFirst DEF first
<1> QED
  BY <1>3, <1>8, <1>9, <1>12, <1>13 DEF attrs, one

\* A sequence begins with its first element.
LEMMA FirstOfOne == \A x : <<x>> = <<x>> \o <<>>
OBVIOUS

\* The same of two elements.
LEMMA FirstOfTwo == \A x, y : <<x, y>> = <<x>> \o <<y>>
<1> TAKE x, y
<1> DEFINE s == <<x>>
           t == <<y>>
           st == s \o t
           T == {x, y}
<1>1. s \in Seq(T) /\ Len(s) = 1 /\ s[1] = x
  OBVIOUS
<1>2. t \in Seq(T) /\ Len(t) = 1 /\ t[1] = y
  OBVIOUS
<1> HIDE DEF s, t
<1>3. /\ st \in Seq(T) /\ Len(st) = Len(s) + Len(t)
      /\ \A i \in 1..(Len(s) + Len(t)) :
            st[i] = IF i <= Len(s) THEN s[i] ELSE t[i - Len(s)]
  BY <1>1, <1>2, ConcatProperties
<1> HIDE DEF st
<1>4. Len(st) = 2 /\ st[1] = x /\ st[2] = y
  BY <1>1, <1>2, <1>3
<1> DEFINE two == <<x, y>>
<1>5. two \in Seq(T) /\ Len(two) = 2 /\ two[1] = x /\ two[2] = y
  OBVIOUS
<1> HIDE DEF two
<1>6. Len(two) = Len(st) /\ \A i \in 1..Len(two) : two[i] = st[i]
  BY <1>4, <1>5
<1>7. two = st
  BY <1>3, <1>5, <1>6, SeqEqual
<1> QED
  BY <1>7 DEF two, st, s, t

\* The same of three elements.
LEMMA FirstOfThree == \A x, y, z : <<x, y, z>> = <<x>> \o <<y, z>>
OBVIOUS

\* No attributes have no bytes.
LEMMA AttributeBytesNone == AttributeBytes(<<>>) = <<>>
<1> DEFINE pieces == [i \in DOMAIN <<>> |-> BytesOf(<<>>[i])]
<1>1. pieces = <<>>
  OBVIOUS
<1>2. AttributeBytes(<<>>) = FlattenSeq(pieces)
  BY DEF AttributeBytes, BytesOf
<1>3. Len(<<>>) = 0
  OBVIOUS
<1>4. FlattenSeq(<<>>) = <<>>
  BY <1>3, FlatDefined
<1> QED
  BY <1>1, <1>2, <1>4

\* Bytes that begin with those of an attribute are parsed to it and the rest.
LEMMA FirstAttribute ==
    ASSUME NEW a \in Attribute, NEW rest \in Seq(Byte)
    PROVE  LET data == BytesOf(a) \o rest
           IN  /\ data \in Seq(Byte) /\ data # <<>> /\ AttributeFits(data, 0)
               /\ AttributeAt(data, 0) = a /\ After(data, data[2]) = rest
<1> DEFINE bytes == BytesOf(a)
           data == bytes \o rest
           n == Len(a.value)
<1>1. /\ bytes \in Seq(Byte) /\ Len(bytes) = n + 2 /\ n \in 0..253
      /\ bytes[1] = a.type /\ bytes[2] = n + 2
      /\ \A i \in 1..n : bytes[i + 2] = a.value[i]
  BY BytesOfProperties
<1>2. Len(rest) \in Nat
  BY BytesType
<1> HIDE DEF bytes
<1>3. /\ data \in Seq(Byte) /\ Len(data) = Len(bytes) + Len(rest)
      /\ \A i \in 1..(Len(bytes) + Len(rest)) :
            data[i] = IF i <= Len(bytes) THEN bytes[i] ELSE rest[i - Len(bytes)]
  BY <1>1, ConcatProperties
<1> HIDE DEF data, n
<1>12. n \in Nat
  <2>1. n \in 0..253
    BY <1>1
  <2> QED
    BY <2>1
<1>4. /\ data[1] = a.type /\ data[2] = n + 2 /\ Len(data) = n + 2 + Len(rest)
      /\ \A i \in 1..n : data[i + 2] = bytes[i + 2]
      /\ \A i \in 1..Len(rest) : data[(n + 2) + i] = rest[i]
  <2>1. Len(data) = n + 2 + Len(rest)
    BY <1>1, <1>2, <1>3
  <2>2. \A i \in 1..(n + 2) : data[i] = bytes[i]
    BY <1>1, <1>2, <1>3
  <2>3. ASSUME NEW i \in 1..Len(rest) PROVE data[(n + 2) + i] = rest[i]
    <3>1. /\ (n + 2) + i \in 1..(Len(bytes) + Len(rest)) /\ ~((n + 2) + i <= Len(bytes))
          /\ ((n + 2) + i) - Len(bytes) = i
      BY <1>1, <1>2
    <3> QED
      BY <1>3, <3>1
  <2>4. 1 \in 1..(n + 2) /\ 2 \in 1..(n + 2) /\ \A i \in 1..n : i + 2 \in 1..(n + 2)
    <3>1. 1 \in 1..(n + 2)
      BY <1>12
    <3>2. 2 \in 1..(n + 2)
      BY <1>12
    <3>3. ASSUME NEW i \in 1..n PROVE i + 2 \in 1..(n + 2)
      BY <1>12
    <3> QED
      BY <3>1, <3>2, <3>3
  <2> QED
    BY <1>1, <2>1, <2>2, <2>3, <2>4
<1>5. AttributeFits(data, 0)
  <2>1. /\ 0 + 2 = 2 /\ 2 <= Len(data) /\ data[2] >= 2 /\ 0 + data[2] <= Len(data)
    <3>1. Len(rest) \in Nat
      BY <1>2
    <3>2. n \in Nat
      BY <1>12
    <3>3. Len(data) = n + 2 + Len(rest) /\ data[2] = n + 2
      BY <1>4
    <3>4. Len(data) >= n + 2 /\ n + 2 >= 2
      BY <3>1, <3>2, <3>3
    <3>5. 0 + (n + 2) <= Len(data) /\ 2 <= Len(data)
      BY <3>1, <3>2, <3>3
    <3> QED
      BY <3>3, <3>4, <3>5
  <2> QED
    BY <2>1 DEF AttributeFits
<1>6. 0 \in 0..Len(data) /\ 0 + 1 = 1 /\ 0 + 2 = 2 /\ (n + 2) - 2 = n
      /\ \A i \in 1..n : 0 + 2 + i = i + 2
  <2>1. Len(data) = n + 2 + Len(rest)
    BY <1>4
  <2>2. 0 \in 0..Len(data)
    BY <1>2, <1>12, <2>1
  <2>3. 0 + 1 = 1 /\ 0 + 2 = 2 /\ (n + 2) - 2 = n
    BY <1>12
  <2>4. \A i \in 1..n : 0 + 2 + i = i + 2
    BY <1>12
  <2> QED
    BY <2>2, <2>3, <2>4
<1>7. /\ AttributeAt(data, 0) \in Attribute
      /\ AttributeAt(data, 0).type = data[0 + 1]
      /\ Len(AttributeAt(data, 0).value) = data[0 + 2] - 2
      /\ \A i \in 1..(data[0 + 2] - 2) :
                AttributeAt(data, 0).value[i] = data[0 + 2 + i]
  BY <1>3, <1>5, <1>6, ValueProperties
<1> DEFINE b == AttributeAt(data, 0)
<1>8. /\ b \in Attribute /\ b.type = a.type /\ Len(b.value) = n
      /\ \A i \in 1..n : b.value[i] = data[i + 2]
  BY <1>4, <1>6, <1>7
<1> HIDE DEF b
<1>9. b = a
  <2>1. b.value \in Seq(Byte) /\ a.value \in Seq(Byte)
    BY <1>8 DEF Attribute
  <2>2. \A i \in 1..Len(b.value) : b.value[i] = a.value[i]
    BY <1>1, <1>4, <1>8
  <2>3. Len(b.value) = Len(a.value)
    BY <1>8 DEF n
  <2>4. b.value = a.value
    BY <2>1, <2>2, <2>3, SeqEqual
  <2>5. b = [type |-> b.type, value |-> b.value] /\ a = [type |-> a.type, value |-> a.value]
    BY <1>8 DEF Attribute
  <2> QED
    BY <1>8, <2>4, <2>5
<1>10. After(data, data[2]) = rest
  <2>1. n + 2 \in 0..Len(data) /\ Len(data) - (n + 2) = Len(rest)
    BY <1>1, <1>2, <1>4
  <2>2. /\ After(data, n + 2) \in Seq(Byte) /\ Len(After(data, n + 2)) = Len(data) - (n + 2)
        /\ \A i \in 1..(Len(data) - (n + 2)) : After(data, n + 2)[i] = data[i + (n + 2)]
    BY <1>3, <2>1, AfterProperties
  <2>3. ASSUME NEW i \in 1..Len(rest) PROVE After(data, n + 2)[i] = rest[i]
    <3>1. i + (n + 2) = (n + 2) + i
      BY <1>1, <1>2
    <3> QED
      BY <1>4, <2>1, <2>2, <3>1
  <2>4. After(data, n + 2) = rest
    BY <2>1, <2>2, <2>3, SeqEqual
  <2> QED
    BY <1>4, <2>4
<1>11. data # <<>>
  BY <1>1, <1>2, <1>4
<1> QED
  BY <1>3, <1>5, <1>9, <1>10, <1>11 DEF b, data, bytes

\* A packet whose first attribute fits is the bytes of that attribute, then
\* the rest.
LEMMA PacketOfFirst ==
    ASSUME NEW data \in Seq(Byte), AttributeFits(data, 0)
    PROVE  /\ AttributeAt(data, 0) \in Attribute
           /\ data[2] \in 2..255 /\ data[2] \in 0..Len(data)
           /\ After(data, data[2]) \in Seq(Byte)
           /\ Len(After(data, data[2])) = Len(data) - data[2]
           /\ data = BytesOf(AttributeAt(data, 0)) \o After(data, data[2])
<1> DEFINE a == AttributeAt(data, 0)
           n == data[2]
<1>1. Len(data) \in Nat
  BY BytesType
<1>2. 0 \in 0..Len(data) /\ 0 + 1 = 1 /\ 0 + 2 = 2 /\ \A i \in Nat : 0 + 2 + i = i + 2
  BY <1>1
<1>3. /\ data[0 + 2] \in 2..255 /\ 0 + data[0 + 2] \in (0 + 2)..Len(data)
      /\ a \in Attribute /\ a.type = data[0 + 1]
      /\ Len(a.value) = data[0 + 2] - 2
      /\ \A i \in 1..(data[0 + 2] - 2) : a.value[i] = data[0 + 2 + i]
  BY <1>2, ValueProperties
<1> HIDE DEF a
<1>4. /\ n \in 2..255 /\ 0 + n \in 2..Len(data) /\ a.type = data[1] /\ Len(a.value) = n - 2
      /\ \A i \in 1..(n - 2) : a.value[i] = data[0 + 2 + i]
  BY <1>2, <1>3
<1>5. n = data[2]
  OBVIOUS
<1> HIDE DEF n
<1>6. n \in 0..Len(data)
  BY <1>1, <1>4
<1>7. /\ After(data, n) \in Seq(Byte) /\ Len(After(data, n)) = Len(data) - n
      /\ \A i \in 1..(Len(data) - n) : After(data, n)[i] = data[i + n]
  BY <1>6, AfterProperties
<1> DEFINE bytes == BytesOf(a)
           rest == After(data, n)
           whole == bytes \o rest
<1>8. /\ bytes \in Seq(Byte) /\ Len(bytes) = Len(a.value) + 2
      /\ bytes[1] = a.type /\ bytes[2] = Len(a.value) + 2
      /\ \A i \in 1..Len(a.value) : bytes[i + 2] = a.value[i]
  BY <1>3, BytesOfProperties
<1> HIDE DEF bytes, rest
<1>9. /\ whole \in Seq(Byte) /\ Len(whole) = Len(bytes) + Len(rest)
      /\ \A i \in 1..(Len(bytes) + Len(rest)) :
            whole[i] = IF i <= Len(bytes) THEN bytes[i] ELSE rest[i - Len(bytes)]
  <2>1. bytes \in Seq(Byte) /\ rest \in Seq(Byte)
    BY <1>7, <1>8 DEF rest
  <2> QED
    BY <2>1, ConcatProperties
<1> HIDE DEF whole
<1>10. Len(bytes) = n /\ Len(rest) = Len(data) - n
  BY <1>4, <1>7, <1>8 DEF rest
<1>11. Len(whole) = Len(data)
  BY <1>1, <1>6, <1>9, <1>10
<1>12. ASSUME NEW i \in 1..Len(data) PROVE data[i] = whole[i]
  <2>1. i \in 1..(Len(bytes) + Len(rest))
    BY <1>1, <1>6, <1>10
  <2>2. CASE i = 1
    BY <1>4, <1>8, <1>9, <1>10, <2>1, <2>2
  <2>3. CASE i = 2
    BY <1>4, <1>5, <1>8, <1>9, <1>10, <2>1, <2>3
  <2>4. CASE i > 2 /\ i <= n
    <3>1. i - 2 \in 1..(n - 2) /\ (i - 2) + 2 = i /\ 0 + 2 + (i - 2) = i
      BY <1>4, <2>4
    <3>2. bytes[(i - 2) + 2] = a.value[i - 2] /\ a.value[i - 2] = data[0 + 2 + (i - 2)]
      BY <1>4, <1>8, <3>1
    <3>3. whole[i] = bytes[i]
      BY <1>9, <1>10, <2>1, <2>4
    <3> QED
      BY <3>1, <3>2, <3>3
  <2>5. CASE ~(i <= n)
    <3>1. i - n \in 1..(Len(data) - n) /\ (i - n) + n = i
      BY <1>1, <1>6, <2>5
    <3>2. rest[i - n] = data[i]
      BY <1>7, <3>1 DEF rest
    <3> QED
      BY <1>9, <1>10, <2>1, <2>5, <3>2
  <2> QED
    BY <2>2, <2>3, <2>4, <2>5
<1>13. data = whole
  BY <1>9, <1>11, <1>12, SeqEqual
<1> QED
  BY <1>3, <1>4, <1>5, <1>6, <1>7, <1>13 DEF whole, bytes, rest, a

\* What is parsed are attributes, and building them gives back the bytes.
LEMMA ParseBuilds ==
    ASSUME NEW data \in Seq(Byte), NEW attrs \in ParseAttributes(data)
    PROVE  attrs \in Seq(Attribute) /\ AttributeBytes(attrs) = data
<1> DEFINE Right(d) == \A as \in ParseAttributes(d) :
                            as \in Seq(Attribute) /\ AttributeBytes(as) = d
           S == {n \in Nat : \A d \in Seq(Byte) : Len(d) = n => Right(d)}
<1>1. ASSUME NEW n \in Nat, \A m \in Nat : m < n => m \in S
      PROVE  n \in S
  <2> SUFFICES ASSUME NEW d \in Seq(Byte), Len(d) = n PROVE Right(d)
    OBVIOUS
  <2> SUFFICES ASSUME NEW as \in ParseAttributes(d)
               PROVE  as \in Seq(Attribute) /\ AttributeBytes(as) = d
    OBVIOUS
  <2>1. CASE d = <<>>
    <3>3. ParseAttributes(d) = {<<>>}
      BY <2>1, ParseStep
    <3>1. as = <<>>
      BY <3>3
    <3>2. <<>> \in Seq(Attribute)
      BY EmptySeq
    <3> QED
      BY <2>1, <3>1, <3>2, AttributeBytesNone
  <2>2. CASE d # <<>> /\ ~AttributeFits(d, 0)
    BY <2>2, ParseStep
  <2>3. CASE AttributeFits(d, 0)
    <3> DEFINE a == AttributeAt(d, 0)
               rest == After(d, d[2])
    <3>1. /\ a \in Attribute /\ d[2] \in 2..255 /\ rest \in Seq(Byte)
          /\ Len(rest) = Len(d) - d[2] /\ d = BytesOf(a) \o rest
      BY <2>3, PacketOfFirst
    <3>2. PICK r \in ParseAttributes(rest) : as = <<a>> \o r
      BY <2>3, ParseStep
    <3>3. Len(rest) \in Nat /\ Len(rest) < n
      <4>1. Len(rest) \in Nat
        BY <3>1, BytesType
      <4> DEFINE k == d[2]
      <4>2. k \in 2..255 /\ Len(rest) = n - k
        BY <3>1
      <4> HIDE DEF rest, k
      <4> QED
        BY <4>1, <4>2
    <3> HIDE DEF rest, a
    <3>4. Right(rest)
      BY <1>1, <3>1, <3>3
    <3>5. r \in Seq(Attribute) /\ AttributeBytes(r) = rest
      BY <3>2, <3>4
    <3>6. /\ <<a>> \o r \in Seq(Attribute)
          /\ AttributeBytes(<<a>> \o r) = BytesOf(a) \o AttributeBytes(r)
      BY <3>1, <3>5, AttributeBytesFirst
    <3> QED
      BY <3>1, <3>2, <3>5, <3>6
  <2> QED
    BY <2>1, <2>2, <2>3
<1> HIDE DEF S
<1>2. \A n \in Nat : n \in S
  BY <1>1, SetInduction
<1>3. Len(data) \in S
  BY <1>2, BytesType
<1>4. Right(data)
  BY <1>3 DEF S
<1> QED
  BY <1>4

\* What is built of attributes is parsed back to them, and to nothing else.
LEMMA BuildParses ==
    ASSUME NEW attrs \in Seq(Attribute)
    PROVE  ParseAttributes(AttributeBytes(attrs)) = {attrs}
<1> DEFINE Right(as) == ParseAttributes(AttributeBytes(as)) = {as}
           S == {n \in Nat : \A as \in Seq(Attribute) : Len(as) = n => Right(as)}
<1>1. ASSUME NEW n \in Nat, \A m \in Nat : m < n => m \in S
      PROVE  n \in S
  <2> SUFFICES ASSUME NEW as \in Seq(Attribute), Len(as) = n PROVE Right(as)
    OBVIOUS
  <2>1. CASE n = 0
    <3>1. as = <<>>
      BY <2>1, EmptySeq
    <3>2. <<>> \in Seq(Byte)
      BY EmptySeq
    <3>3. ParseAttributes(<<>>) = {<<>>}
      BY <3>2, ParseStep
    <3> QED
      BY <3>1, <3>3, AttributeBytesNone
  <2>2. CASE n # 0
    <3> DEFINE a == as[1]
               r == SubSeq(as, 2, Len(as))
    <3>1. 1 \in 1..Len(as) /\ Len(as) \in 1..Len(as) /\ 1 + 1 = 2
      BY <2>2
    <3>2. as = <<a>> \o r
      <4>1. SubSeq(as, 1, Len(as)) = as
        BY SubSeqFull
      <4>2. SubSeq(as, 1, Len(as)) = <<as[1]>> \o SubSeq(as, 1 + 1, Len(as))
        BY <3>1, SubSeqRecursiveFirst
      <4> QED
        BY <3>1, <4>1, <4>2
    <3>3. a \in Attribute
      BY <3>1, ElementOfSeq
    <3>4. r \in Seq(Attribute) /\ Len(r) = n - 1
      <4>3. as # <<>>
        BY <2>2, EmptySeq
      <4>1. Tail(as) \in Seq(Attribute) /\ Len(Tail(as)) = Len(as) - 1
        BY <4>3, HeadTailProperties
      <4>2. Tail(as) = r
        BY <4>3, TailIsSubSeq
      <4> QED
        BY <4>1, <4>2
    <3> HIDE DEF a, r
    <3> DEFINE rest == AttributeBytes(r)
               data == BytesOf(a) \o rest
    <3>5. rest \in Seq(Byte) /\ ParseAttributes(rest) = {r}
      <4>1. n - 1 \in Nat /\ n - 1 < n
        BY <2>2
      <4>2. n - 1 \in S
        BY <1>1, <4>1
      <4> QED
        BY <3>4, <4>2, AttributeBytesType
    <3>6. AttributeBytes(as) = data
      BY <3>2, <3>3, <3>4, AttributeBytesFirst
    <3>7. /\ data \in Seq(Byte) /\ AttributeFits(data, 0)
          /\ AttributeAt(data, 0) = a /\ After(data, data[2]) = rest
      BY <3>3, <3>5, FirstAttribute
    <3> HIDE DEF rest, data
    <3>8. ParseAttributes(data) = {<<a>> \o s : s \in ParseAttributes(rest)}
      BY <3>7, ParseStep
    <3> QED
      BY <3>2, <3>5, <3>6, <3>8
  <2> QED
    BY <2>1, <2>2
<1> HIDE DEF S
<1>2. \A n \in Nat : n \in S
  BY <1>1, SetInduction
<1>3. Len(attrs) \in S
  BY <1>2, LenProperties
<1> QED
  BY <1>3 DEF S

-----------------------------------------------------------------------------
(* What the parser accepts *)

\* b is the next cut after a, and where the attribute at a ends.
NextCut(data, cuts, a, b) ==
    /\ b >= a + 2
    /\ data[a + 2] = b - a
    /\ \A c \in cuts : c <= a \/ b <= c

\* The cuts Grammatical asks for.
CutsOf(data, cuts) ==
    /\ cuts \subseteq 0..Len(data)
    /\ 0 \in cuts /\ Len(data) \in cuts
    /\ \A a \in cuts : a # Len(data) => \E b \in cuts : NextCut(data, cuts, a, b)

\* Grammatical bytes are those that can be cut.
LEMMA GrammaticalCuts ==
    ASSUME NEW data
    PROVE  Grammatical(data) <=> \E cuts : CutsOf(data, cuts)
<1>1. ASSUME NEW cuts \in SUBSET (0..Len(data)), {0, Len(data)} \subseteq cuts,
             \A a \in cuts \ {Len(data)} :
                \E b \in cuts :
                    /\ b >= a + 2
                    /\ data[a + 2] = b - a
                    /\ \A c \in cuts : c <= a \/ b <= c
      PROVE  CutsOf(data, cuts)
  <2>1. ASSUME NEW a \in cuts, a # Len(data)
        PROVE  \E b \in cuts : NextCut(data, cuts, a, b)
    <3>1. a \in cuts \ {Len(data)}
      BY <2>1
    <3> QED
      BY <1>1, <3>1 DEF NextCut
  <2> QED
    BY <1>1, <2>1 DEF CutsOf
<1>2. ASSUME NEW cuts, CutsOf(data, cuts)
      PROVE  Grammatical(data)
  <2>1. /\ cuts \in SUBSET (0..Len(data)) /\ {0, Len(data)} \subseteq cuts
        /\ \A a \in cuts \ {Len(data)} :
                \E b \in cuts :
                    /\ b >= a + 2
                    /\ data[a + 2] = b - a
                    /\ \A c \in cuts : c <= a \/ b <= c
    BY <1>2 DEF CutsOf, NextCut
  <2> QED
    BY <2>1 DEF Grammatical
<1>3. Grammatical(data) => \E cuts : CutsOf(data, cuts)
  <2> SUFFICES ASSUME Grammatical(data) PROVE \E cuts : CutsOf(data, cuts)
    OBVIOUS
  <2>1. PICK cuts \in SUBSET (0..Len(data)) :
            /\ {0, Len(data)} \subseteq cuts
            /\ \A a \in cuts \ {Len(data)} :
                \E b \in cuts :
                    /\ b >= a + 2
                    /\ data[a + 2] = b - a
                    /\ \A c \in cuts : c <= a \/ b <= c
    BY DEF Grammatical
  <2> QED
    BY <1>1, <2>1
<1> QED
  BY <1>2, <1>3

\* The first cut is where the first attribute ends.
LEMMA FirstCut ==
    ASSUME NEW data \in Seq(Byte), data # <<>>, NEW cuts, CutsOf(data, cuts)
    PROVE  /\ AttributeFits(data, 0) /\ data[2] \in cuts
           /\ \A c \in cuts : c <= 0 \/ data[2] <= c
<1>1. Len(data) \in Nat /\ Len(data) # 0
  BY BytesType, EmptySeq
<1>2. PICK b \in cuts : NextCut(data, cuts, 0, b)
  BY <1>1 DEF CutsOf
<1>3. 0 + 2 = 2 /\ b \in 0..Len(data)
  BY <1>2 DEF CutsOf
<1>4. b >= 2 /\ data[2] = b - 0
  BY <1>2, <1>3 DEF NextCut
<1>5. data[2] = b
  BY <1>3, <1>4
<1>6. AttributeFits(data, 0)
  <2>1. 2 <= Len(data) /\ 0 + b <= Len(data)
    BY <1>1, <1>3, <1>4
  <2> QED
    BY <1>3, <1>4, <1>5, <2>1 DEF AttributeFits
<1>7. \A c \in cuts : c <= 0 \/ b <= c
  BY <1>2 DEF NextCut
<1> QED
  BY <1>5, <1>6, <1>7

\* Cuts of a packet are cuts of what is left after the first attribute.
LEMMA CutsOfRest ==
    ASSUME NEW data \in Seq(Byte), AttributeFits(data, 0),
           NEW cuts, CutsOf(data, cuts)
    PROVE  \E rest : CutsOf(After(data, data[2]), rest)
<1> DEFINE n == data[2]
           rest == After(data, n)
           new == {c \in 0..Len(rest) : c + n \in cuts}
           N == Len(data)
           M == Len(rest)
<1>1. N \in Nat
  BY BytesType
<1>2. n \in 2..255 /\ n \in 0..N /\ rest \in Seq(Byte) /\ M = N - n
  BY PacketOfFirst
<1>3. data # <<>>
  <2> HIDE DEF n, N, M, rest, new
  <2>1. N # 0
    BY <1>1, <1>2
  <2> QED
    BY <2>1, EmptySeq DEF N
<1>4. n \in cuts
  BY <1>3, FirstCut
<1>5. \A i \in 1..(N - n) : rest[i] = data[i + n]
  BY <1>2, AfterProperties
<1>6. /\ cuts \subseteq 0..N /\ N \in cuts
      /\ \A a \in cuts : a # N => \E b \in cuts : NextCut(data, cuts, a, b)
  BY DEF CutsOf
<1>7. new = {c \in 0..M : c + n \in cuts}
  OBVIOUS
<1> HIDE DEF n, rest, new, N, M
<1>8. new \subseteq 0..M /\ 0 \in new /\ M \in new
  <2>1. 0 \in 0..M /\ M \in 0..M /\ 0 + n = n /\ M + n = N
    BY <1>1, <1>2
  <2> QED
    BY <1>4, <1>6, <1>7, <2>1
<1>9. ASSUME NEW a \in new, a # M PROVE \E b \in new : NextCut(rest, new, a, b)
  <2>1. a \in 0..M /\ a + n \in cuts /\ a + n # N
    BY <1>1, <1>2, <1>7, <1>9
  <2>2. PICK b \in cuts : NextCut(data, cuts, a + n, b)
    BY <1>6, <2>1
  <2>3. /\ b \in 0..N /\ b >= (a + n) + 2 /\ data[(a + n) + 2] = b - (a + n)
        /\ \A c \in cuts : c <= a + n \/ b <= c
    BY <1>6, <2>2 DEF NextCut
  <2>4. /\ b - n \in 0..M /\ (b - n) + n = b /\ a + 2 \in 1..(N - n)
        /\ (a + 2) + n = (a + n) + 2 /\ b - (a + n) = (b - n) - a /\ b - n >= a + 2
    BY <1>1, <1>2, <2>1, <2>3
  <2>5. b - n \in new
    BY <1>7, <2>4
  <2>6. rest[a + 2] = (b - n) - a
    BY <1>5, <2>3, <2>4
  <2>7. ASSUME NEW c \in new PROVE c <= a \/ b - n <= c
    <3>1. c \in 0..M /\ c + n \in cuts
      BY <1>7
    <3>2. c + n <= a + n \/ b <= c + n
      BY <2>3, <3>1
    <3> QED
      BY <1>2, <2>1, <2>3, <3>1, <3>2
  <2>8. NextCut(rest, new, a, b - n)
    BY <2>4, <2>6, <2>7 DEF NextCut
  <2> QED
    BY <2>5, <2>8
<1>10. CutsOf(rest, new)
  BY <1>8, <1>9 DEF CutsOf, M
<1> QED
  BY <1>10 DEF rest, n

\* Cuts of what is left after the first attribute give cuts of the packet.
LEMMA CutsOfPacket ==
    ASSUME NEW data \in Seq(Byte), AttributeFits(data, 0),
           NEW old, CutsOf(After(data, data[2]), old)
    PROVE  \E cuts : CutsOf(data, cuts)
<1> DEFINE n == data[2]
           rest == After(data, n)
           cuts == {0} \cup {c + n : c \in old}
           N == Len(data)
           M == Len(rest)
<1>1. N \in Nat
  BY BytesType
<1>2. n \in 2..255 /\ n \in 0..N /\ rest \in Seq(Byte) /\ M = N - n
  BY PacketOfFirst
<1>3. \A i \in 1..(N - n) : rest[i] = data[i + n]
  BY <1>2, AfterProperties
<1>4. /\ old \subseteq 0..M /\ 0 \in old /\ M \in old
      /\ \A a \in old : a # M => \E b \in old : NextCut(rest, old, a, b)
  BY DEF CutsOf
<1>5. data[2] = n
  OBVIOUS
<1> HIDE DEF n, rest, N, M
<1>6. \A c \in old : c \in 0..M /\ c \in Nat /\ c + n \in n..N
  BY <1>1, <1>2, <1>4
<1>7. cuts \subseteq 0..N /\ 0 \in cuts /\ N \in cuts /\ n \in cuts
  <2>1. 0 + n = n /\ M + n = N
    BY <1>1, <1>2
  <2>2. n \in cuts /\ N \in cuts
    BY <1>4, <2>1
  <2>3. \A c \in old : c + n \in 0..N
    BY <1>1, <1>2, <1>6
  <2>4. 0 \in 0..N
    BY <1>1
  <2> QED
    BY <2>2, <2>3, <2>4
<1>8. ASSUME NEW a \in cuts, a # N PROVE \E b \in cuts : NextCut(data, cuts, a, b)
  <2>1. CASE a = 0
    <3>1. \A c \in cuts : c <= 0 \/ n <= c
      BY <1>2, <1>6
    <3>2. n >= 0 + 2 /\ data[0 + 2] = n - 0
      BY <1>2, <1>5
    <3>3. NextCut(data, cuts, 0, n)
      BY <3>1, <3>2 DEF NextCut
    <3> QED
      BY <1>7, <2>1, <3>3
  <2>2. CASE a # 0
    <3>1. PICK x \in old : a = x + n
      BY <2>2
    <3>2. x # M
      BY <1>1, <1>2, <1>8, <3>1
    <3>3. PICK y \in old : NextCut(rest, old, x, y)
      BY <1>4, <3>2
    <3>4. /\ y >= x + 2 /\ rest[x + 2] = y - x /\ \A c \in old : c <= x \/ y <= c
      BY <3>3 DEF NextCut
    <3>5. x \in 0..M /\ y \in 0..M
      BY <1>6
    <3>6. /\ x + 2 \in 1..(N - n) /\ (x + 2) + n = a + 2 /\ y - x = (y + n) - a
          /\ y + n >= a + 2
      BY <1>1, <1>2, <3>1, <3>4, <3>5
    <3>7. data[a + 2] = (y + n) - a
      BY <1>3, <3>4, <3>6
    <3>8. ASSUME NEW c \in cuts PROVE c <= a \/ y + n <= c
      <4>1. CASE c = 0
        BY <1>2, <3>1, <3>5, <4>1
      <4>2. CASE c # 0
        <5>1. PICK d \in old : c = d + n
          BY <4>2
        <5>2. d \in 0..M /\ (d <= x \/ y <= d)
          BY <1>6, <3>4
        <5> QED
          BY <1>2, <3>1, <3>5, <5>1, <5>2
      <4> QED
        BY <4>1, <4>2
    <3>9. NextCut(data, cuts, a, y + n)
      BY <3>6, <3>7, <3>8 DEF NextCut
    <3>10. y + n \in cuts
      BY <3>3
    <3> QED
      BY <3>9, <3>10
  <2> QED
    BY <2>1, <2>2
<1> HIDE DEF cuts
<1>9. CutsOf(data, cuts)
  BY <1>7, <1>8 DEF CutsOf, N
<1> QED
  BY <1>9

\* The parser accepts exactly the bytes that can be cut into attributes.
LEMMA ParserAcceptsGrammar ==
    ASSUME NEW data \in Seq(Byte)
    PROVE  ParseAttributes(data) # {} <=> Grammatical(data)
<1> DEFINE Right(d) == ParseAttributes(d) # {} <=> \E cuts : CutsOf(d, cuts)
           S == {n \in Nat : \A d \in Seq(Byte) : Len(d) = n => Right(d)}
<1>1. ASSUME NEW n \in Nat, \A m \in Nat : m < n => m \in S
      PROVE  n \in S
  <2> SUFFICES ASSUME NEW d \in Seq(Byte), Len(d) = n PROVE Right(d)
    OBVIOUS
  <2>1. CASE d = <<>>
    <3>1. ParseAttributes(d) # {}
      BY <2>1, ParseStep
    <3>2. Len(d) = 0
      BY <2>1, EmptySeq
    <3>3. CutsOf(d, {0})
      BY <3>2 DEF CutsOf
    <3> QED
      BY <3>1, <3>3
  <2>2. CASE d # <<>> /\ ~AttributeFits(d, 0)
    <3>1. ParseAttributes(d) = {}
      BY <2>2, ParseStep
    <3>2. ~\E cuts : CutsOf(d, cuts)
      BY <2>2, FirstCut
    <3> QED
      BY <3>1, <3>2
  <2>3. CASE AttributeFits(d, 0)
    <3> DEFINE rest == After(d, d[2])
               k == d[2]
    <3>1. k \in 2..255 /\ rest \in Seq(Byte) /\ Len(rest) = n - k
      BY <2>3, PacketOfFirst
    <3>2. ParseAttributes(d) = {<<AttributeAt(d, 0)>> \o r : r \in ParseAttributes(rest)}
      BY <2>3, ParseStep
    <3>3. (\E cuts : CutsOf(d, cuts)) => \E cuts : CutsOf(rest, cuts)
      BY <2>3, CutsOfRest
    <3>4. (\E cuts : CutsOf(rest, cuts)) => \E cuts : CutsOf(d, cuts)
      BY <2>3, CutsOfPacket
    <3>5. Len(rest) \in Nat
      BY <3>1, BytesType
    <3> HIDE DEF rest, k
    <3>6. Len(rest) < n
      BY <3>1, <3>5
    <3>7. Len(rest) \in S
      BY <1>1, <3>5, <3>6
    <3>8. Right(rest)
      BY <3>1, <3>7
    <3> QED
      BY <3>2, <3>3, <3>4, <3>8
  <2> QED
    BY <2>1, <2>2, <2>3
<1> HIDE DEF S
<1>2. \A n \in Nat : n \in S
  BY <1>1, SetInduction
<1>3. Len(data) \in S
  BY <1>2, BytesType
<1>4. Right(data)
  BY <1>3 DEF S
<1> QED
  BY <1>4, GrammaticalCuts

-----------------------------------------------------------------------------
(* Whole packets *)

\* A packet parses exactly if its attributes fill the declared length.
LEMMA PacketParses ==
    ASSUME NEW d, IsDatagram(d)
    PROVE  LET n == d.length - HeaderSize
           IN  /\ ParsePacket(d) # {} <=>
                    /\ d.whole /\ n \in 0..(MaxPacketSize - HeaderSize)
                    /\ n <= Len(d.tail)
                    /\ Grammatical(SubSeq(d.tail, 1, n))
               /\ \A p \in ParsePacket(d) :
                    /\ p.attributes \in Seq(Attribute)
                    /\ BuildPacket(p) = [d EXCEPT !.tail = SubSeq(d.tail, 1, n)]
<1> DEFINE n == d.length - HeaderSize
           bytes == SubSeq(d.tail, 1, n)
           In == /\ d.whole
                 /\ HeaderSize <= d.length /\ d.length <= MaxPacketSize
                 /\ d.length <= HeaderSize + Len(d.tail)
           Pack(as) == [code |-> d.code, identifier |-> d.identifier,
                        authenticator |-> d.authenticator, attributes |-> as]
<1>1. d.whole \in BOOLEAN /\ d.length \in Int /\ d.tail \in Seq(Byte)
  BY DEF IsDatagram
<1>2. Len(d.tail) \in Nat
  BY <1>1, BytesType
<1>3. ParsePacket(d) = IF In THEN {Pack(as) : as \in ParseAttributes(bytes)} ELSE {}
  BY DEF ParsePacket
<1>4. In <=> d.whole /\ n \in 0..(MaxPacketSize - HeaderSize) /\ n <= Len(d.tail)
  <2>1. \A l \in Int, m \in Nat :
            20 <= l /\ l <= 4096 /\ l <= 20 + m
                <=> l - 20 \in 0..(4096 - 20) /\ l - 20 <= m
    OBVIOUS
  <2> DEFINE l == d.length
             m == Len(d.tail)
  <2>2. l \in Int /\ m \in Nat
    BY <1>1, <1>2
  <2> HIDE DEF l, m
  <2>3. 20 <= l /\ l <= 4096 /\ l <= 20 + m <=> l - 20 \in 0..(4096 - 20) /\ l - 20 <= m
    BY <2>1, <2>2
  <2> QED
    BY <2>3 DEF HeaderSize, MaxPacketSize, l, m
<1>5. ASSUME In PROVE bytes \in Seq(Byte) /\ Len(bytes) = n
  <2>1. n \in Nat /\ n <= Len(d.tail)
    BY <1>4, <1>5
  <2>2. 1 \in 1..(Len(d.tail) + 1) /\ n \in (1 - 1)..Len(d.tail) /\ n - 1 + 1 = n
    BY <1>2, <2>1
  <2> HIDE DEF n
  <2> QED
    BY <1>1, <2>2, PieceProperties
<1>6. d = [whole |-> d.whole, code |-> d.code, identifier |-> d.identifier,
           length |-> d.length, authenticator |-> d.authenticator, tail |-> d.tail]
  BY DEF IsDatagram
<1> HIDE DEF bytes, In
<1>7. ASSUME NEW p \in ParsePacket(d)
      PROVE  /\ p.attributes \in Seq(Attribute)
             /\ BuildPacket(p) = [d EXCEPT !.tail = bytes]
  <2>1. In
    BY <1>3, <1>7
  <2>2. PICK as \in ParseAttributes(bytes) : p = Pack(as)
    BY <1>3, <2>1
  <2>3. as \in Seq(Attribute) /\ AttributeBytes(as) = bytes
    BY <1>5, <2>1, ParseBuilds
  <2>4. Len(bytes) = n /\ HeaderSize + n = d.length /\ d.whole = TRUE
    BY <1>1, <1>4, <1>5, <2>1 DEF HeaderSize
  <2>5. BuildPacket(p) =
            [whole |-> TRUE, code |-> d.code, identifier |-> d.identifier,
             length |-> HeaderSize + Len(bytes),
             authenticator |-> d.authenticator, tail |-> bytes]
    BY <2>2, <2>3 DEF BuildPacket
  <2> HIDE DEF n
  <2>6. [d EXCEPT !.tail = bytes] =
            [whole |-> d.whole, code |-> d.code, identifier |-> d.identifier,
             length |-> d.length, authenticator |-> d.authenticator, tail |-> bytes]
    BY <1>6
  <2> QED
    BY <2>2, <2>3, <2>4, <2>5, <2>6
<1>8. ParsePacket(d) # {} <=> In /\ Grammatical(bytes)
  BY <1>3, <1>5, ParserAcceptsGrammar
<1> QED
  BY <1>4, <1>7, <1>8 DEF bytes

\* A datagram with another authenticator.
LEMMA ExceptAuthenticator ==
    ASSUME NEW d, NEW w, NEW c, NEW i, NEW l, NEW a, NEW t, NEW x,
           d = [whole |-> w, code |-> c, identifier |-> i, length |-> l,
                authenticator |-> a, tail |-> t]
    PROVE  [d EXCEPT !.authenticator = x]
                = [whole |-> w, code |-> c, identifier |-> i, length |-> l,
                   authenticator |-> x, tail |-> t]
OBVIOUS

\* What is built and signed parses back to itself and verifies.
LEMMA SignedPacketParses ==
    ASSUME NEW r, NEW authenticator, NEW secret,
           r.attributes \in Seq(Attribute),
           Len(AttributeBytes(r.attributes)) <= MaxPacketSize - HeaderSize
    PROVE  LET answer == SignResponse(BuildPacket(r), authenticator, secret)
           IN  /\ answer.code = r.code
               /\ ParsePacket(answer) =
                    {[code |-> r.code, identifier |-> r.identifier,
                      authenticator |-> answer.authenticator,
                      attributes |-> r.attributes]}
               /\ Verifies(answer, authenticator, secret)
<1> DEFINE bytes == AttributeBytes(r.attributes)
           raw == BuildPacket(r)
           sum == Digest(raw, authenticator, secret)
           answer == SignResponse(raw, authenticator, secret)
           n == Len(bytes)
<1>1. bytes \in Seq(Byte)
  BY AttributeBytesType
<1>2. n \in Nat /\ n <= 4076
  BY <1>1, BytesType DEF MaxPacketSize, HeaderSize
<1> HIDE DEF n, sum
<1>3. raw = [whole |-> TRUE, code |-> r.code, identifier |-> r.identifier,
             length |-> HeaderSize + n,
             authenticator |-> r.authenticator, tail |-> bytes]
  BY DEF BuildPacket, n
<1> HIDE DEF raw
<1>4. answer = [raw EXCEPT !.authenticator = sum]
  BY DEF SignResponse, sum
<1>5. answer = [whole |-> TRUE, code |-> r.code, identifier |-> r.identifier,
                length |-> HeaderSize + n, authenticator |-> sum, tail |-> bytes]
  BY <1>3, <1>4
<1> HIDE DEF answer
<1>6. /\ answer.whole /\ answer.code = r.code /\ answer.identifier = r.identifier
      /\ answer.length = HeaderSize + n /\ answer.authenticator = sum
      /\ answer.tail = bytes
  BY <1>5
<1>7. /\ HeaderSize <= HeaderSize + n /\ HeaderSize + n <= MaxPacketSize
      /\ (HeaderSize + n) - HeaderSize = n
  BY <1>2 DEF HeaderSize, MaxPacketSize
<1>8. SubSeq(bytes, 1, n) = bytes
  BY <1>1, SubSeqFull DEF n
<1>9. ParseAttributes(bytes) = {r.attributes}
  BY BuildParses
<1> HIDE DEF bytes
<1>10. HeaderSize + n <= HeaderSize + Len(bytes)
  BY <1>2 DEF n, HeaderSize
<1>11. ParsePacket(answer) =
         {[code |-> r.code, identifier |-> r.identifier,
           authenticator |-> answer.authenticator, attributes |-> as] :
            as \in ParseAttributes(SubSeq(bytes, 1, n))}
  BY <1>6, <1>7, <1>10 DEF ParsePacket
<1>12. Verifies(answer, authenticator, secret)
  <2> DEFINE yes == TRUE
             own == [whole |-> yes, code |-> r.code, identifier |-> r.identifier,
                     length |-> HeaderSize + n, authenticator |-> authenticator,
                     tail |-> bytes]
  <2>4. answer = [whole |-> yes, code |-> r.code, identifier |-> r.identifier,
                  length |-> HeaderSize + n, authenticator |-> sum, tail |-> bytes]
    BY <1>5
  <2>5. raw = [whole |-> yes, code |-> r.code, identifier |-> r.identifier,
               length |-> HeaderSize + n, authenticator |-> r.authenticator,
               tail |-> bytes]
    BY <1>3
  <2> HIDE DEF yes
  <2>2. [answer EXCEPT !.authenticator = authenticator] = own
    BY <2>4, ExceptAuthenticator
  <2>3. [raw EXCEPT !.authenticator = authenticator] = own
    BY <2>5, ExceptAuthenticator
  <2>1. [answer EXCEPT !.authenticator = authenticator]
            = [raw EXCEPT !.authenticator = authenticator]
    BY <2>2, <2>3
  <2> QED
    BY <1>6, <2>1 DEF Verifies, Digest, sum
<1>13. ParsePacket(answer) =
         {[code |-> r.code, identifier |-> r.identifier,
           authenticator |-> answer.authenticator, attributes |-> r.attributes]}
  <2>1. ParseAttributes(SubSeq(bytes, 1, n)) = {r.attributes}
    BY <1>8, <1>9
  <2> QED
    BY <1>11, <2>1
<1> QED
  BY <1>6, <1>12, <1>13 DEF answer, raw

-----------------------------------------------------------------------------
(* Answers *)

\* What validate_vlan_id accepts.
VlanIds == 1..4094

\* A decimal digit of n, in ASCII.
Digit(n, power) == 48 + ((n \div power) % 10)

\* The digits of a number below 5000, by their places.
LEMMA AsciiDigits ==
    ASSUME NEW n \in VlanIds
    PROVE  \/ /\ n \in 1..9 /\ Ascii(n) = <<Digit(n, 1)>>
              /\ n = Digit(n, 1) - 48
           \/ /\ n \in 10..99 /\ Ascii(n) = <<Digit(n, 10), Digit(n, 1)>>
              /\ n = 10 * (Digit(n, 10) - 48) + (Digit(n, 1) - 48)
           \/ /\ n \in 100..999 /\ Ascii(n) = <<Digit(n, 100), Digit(n, 10), Digit(n, 1)>>
              /\ n = 100 * (Digit(n, 100) - 48) + 10 * (Digit(n, 10) - 48)
                        + (Digit(n, 1) - 48)
           \/ /\ n \in 1000..4094
              /\ Ascii(n) = <<Digit(n, 1000), Digit(n, 100), Digit(n, 10), Digit(n, 1)>>
              /\ n = 1000 * (Digit(n, 1000) - 48) + 100 * (Digit(n, 100) - 48)
                        + 10 * (Digit(n, 10) - 48) + (Digit(n, 1) - 48)
<1>0. n \in 1..4094
  BY DEF VlanIds
<1>1. CASE n \in 1..9
  <2>0. /\ n \div 1 \in Int /\ n \div 10 \in Int
        /\ n \div 100 \in Int /\ n \div 1000 \in Int
    BY <1>1
  <2>1. n = (n \div 1) % 10
    BY <1>1
  <2>2. n = Digit(n, 1) - 48
    BY <2>0, <2>1 DEF Digit
  <2>3. Ascii(n) = <<Digit(n, 1)>>
    BY <1>1 DEF Ascii, Digit
  <2> QED
    BY <1>1, <2>2, <2>3
<1>2. CASE n \in 10..99
  <2>0. /\ n \div 1 \in Int /\ n \div 10 \in Int
        /\ n \div 100 \in Int /\ n \div 1000 \in Int
    BY <1>2
  <2>1. n = 10 * ((n \div 10) % 10) + ((n \div 1) % 10)
    BY <1>2
  <2>2. n = 10 * (Digit(n, 10) - 48) + (Digit(n, 1) - 48)
    BY <2>0, <2>1 DEF Digit
  <2>3. Ascii(n) = <<Digit(n, 10), Digit(n, 1)>>
    BY <1>2 DEF Ascii, Digit
  <2> QED
    BY <1>2, <2>2, <2>3
<1>3. CASE n \in 100..999
  <2>0. /\ n \div 1 \in Int /\ n \div 10 \in Int
        /\ n \div 100 \in Int /\ n \div 1000 \in Int
    BY <1>3
  <2>1. n = 100 * ((n \div 100) % 10) + 10 * ((n \div 10) % 10) + ((n \div 1) % 10)
    BY <1>3
  <2>2. n = 100 * (Digit(n, 100) - 48) + 10 * (Digit(n, 10) - 48) + (Digit(n, 1) - 48)
    BY <2>0, <2>1 DEF Digit
  <2>3. Ascii(n) = <<Digit(n, 100), Digit(n, 10), Digit(n, 1)>>
    BY <1>3 DEF Ascii, Digit
  <2> QED
    BY <1>3, <2>2, <2>3
<1>4. CASE n \in 1000..4094
  <2>0. /\ n \div 1 \in Int /\ n \div 10 \in Int
        /\ n \div 100 \in Int /\ n \div 1000 \in Int
    BY <1>4
  <2>1. n = 1000 * ((n \div 1000) % 10) + 100 * ((n \div 100) % 10)
                + 10 * ((n \div 10) % 10) + ((n \div 1) % 10)
    BY <1>4
  <2>2. n = 1000 * (Digit(n, 1000) - 48) + 100 * (Digit(n, 100) - 48)
                + 10 * (Digit(n, 10) - 48) + (Digit(n, 1) - 48)
    BY <2>0, <2>1 DEF Digit
  <2>3. Ascii(n) = <<Digit(n, 1000), Digit(n, 100), Digit(n, 10), Digit(n, 1)>>
    BY <1>4 DEF Ascii, Digit
  <2> QED
    BY <1>4, <2>2, <2>3
<1> QED
  BY <1>0, <1>1, <1>2, <1>3, <1>4

\* The digits of a VLAN are at most four bytes.
LEMMA AsciiType ==
    ASSUME NEW v \in VlanIds
    PROVE  Ascii(v) \in Seq(Byte) /\ Len(Ascii(v)) \in 1..4
<1>1. ASSUME NEW power \in {1, 10, 100, 1000} PROVE Digit(v, power) \in Byte
  BY DEF Digit, Byte, VlanIds
<1>2. \A x \in Byte : <<x>> \in Seq(Byte) /\ Len(<<x>>) = 1
  OBVIOUS
<1>3. \A x, y \in Byte : <<x, y>> \in Seq(Byte) /\ Len(<<x, y>>) = 2
  OBVIOUS
<1>4. \A x, y, z \in Byte : <<x, y, z>> \in Seq(Byte) /\ Len(<<x, y, z>>) = 3
  OBVIOUS
<1>5. \A w, x, y, z \in Byte : <<w, x, y, z>> \in Seq(Byte) /\ Len(<<w, x, y, z>>) = 4
  OBVIOUS
<1>6. /\ Digit(v, 1) \in Byte /\ Digit(v, 10) \in Byte
      /\ Digit(v, 100) \in Byte /\ Digit(v, 1000) \in Byte
  BY <1>1
<1>7. \/ Ascii(v) = <<Digit(v, 1)>>
      \/ Ascii(v) = <<Digit(v, 10), Digit(v, 1)>>
      \/ Ascii(v) = <<Digit(v, 100), Digit(v, 10), Digit(v, 1)>>
      \/ Ascii(v) = <<Digit(v, 1000), Digit(v, 100), Digit(v, 10), Digit(v, 1)>>
  BY AsciiDigits
<1>8. CASE Ascii(v) = <<Digit(v, 1)>>
  BY <1>2, <1>6, <1>8
<1>9. CASE Ascii(v) = <<Digit(v, 10), Digit(v, 1)>>
  BY <1>3, <1>6, <1>9
<1>10. CASE Ascii(v) = <<Digit(v, 100), Digit(v, 10), Digit(v, 1)>>
  BY <1>4, <1>6, <1>10
<1>11. CASE Ascii(v) = <<Digit(v, 1000), Digit(v, 100), Digit(v, 10), Digit(v, 1)>>
  BY <1>5, <1>6, <1>11
<1> QED
  BY <1>7, <1>8, <1>9, <1>10, <1>11

\* Different VLANs have different digits.
LEMMA AsciiInjective ==
    ASSUME NEW v \in VlanIds, NEW w \in VlanIds, Ascii(v) = Ascii(w)
    PROVE  v = w
<1>1. \A x : Len(<<x>>) = 1 /\ <<x>>[1] = x
  OBVIOUS
<1>2. \A x, y : Len(<<x, y>>) = 2 /\ <<x, y>>[1] = x /\ <<x, y>>[2] = y
  OBVIOUS
<1>3. \A x, y, z : /\ Len(<<x, y, z>>) = 3
                   /\ <<x, y, z>>[1] = x /\ <<x, y, z>>[2] = y /\ <<x, y, z>>[3] = z
  OBVIOUS
<1>4. \A t, x, y, z : /\ Len(<<t, x, y, z>>) = 4
                      /\ <<t, x, y, z>>[1] = t /\ <<t, x, y, z>>[2] = x
                      /\ <<t, x, y, z>>[3] = y /\ <<t, x, y, z>>[4] = z
  OBVIOUS
<1> DEFINE Reads(n) ==
             LET a == Ascii(n)
             IN  \/ Len(a) = 1 /\ n = a[1] - 48
                 \/ Len(a) = 2 /\ n = 10 * (a[1] - 48) + (a[2] - 48)
                 \/ Len(a) = 3 /\ n = 100 * (a[1] - 48) + 10 * (a[2] - 48) + (a[3] - 48)
                 \/ Len(a) = 4 /\ n = 1000 * (a[1] - 48) + 100 * (a[2] - 48)
                                        + 10 * (a[3] - 48) + (a[4] - 48)
<1>5. ASSUME NEW n \in VlanIds PROVE Reads(n)
  <2>1. CASE Ascii(n) = <<Digit(n, 1)>> /\ n = Digit(n, 1) - 48
    BY <1>1, <2>1
  <2>2. CASE /\ Ascii(n) = <<Digit(n, 10), Digit(n, 1)>>
             /\ n = 10 * (Digit(n, 10) - 48) + (Digit(n, 1) - 48)
    BY <1>2, <2>2
  <2>3. CASE /\ Ascii(n) = <<Digit(n, 100), Digit(n, 10), Digit(n, 1)>>
             /\ n = 100 * (Digit(n, 100) - 48) + 10 * (Digit(n, 10) - 48)
                        + (Digit(n, 1) - 48)
    BY <1>3, <2>3
  <2>4. CASE /\ Ascii(n) = <<Digit(n, 1000), Digit(n, 100), Digit(n, 10), Digit(n, 1)>>
             /\ n = 1000 * (Digit(n, 1000) - 48) + 100 * (Digit(n, 100) - 48)
                        + 10 * (Digit(n, 10) - 48) + (Digit(n, 1) - 48)
    BY <1>4, <2>4
  <2> HIDE DEF Reads
  <2> QED
    BY <2>1, <2>2, <2>3, <2>4, AsciiDigits
<1> HIDE DEF Reads
<1>6. Reads(v) /\ Reads(w)
  BY <1>5
<1> QED
  BY <1>6 DEF Reads

\* The attributes of an accept are attributes, and few.
LEMMA AcceptAttributesType ==
    ASSUME NEW v, v = None \/ v \in VlanIds
    PROVE  /\ AcceptAttributes(v) \in Seq(Attribute)
           /\ Len(AttributeBytes(AcceptAttributes(v))) <= MaxPacketSize - HeaderSize
<1>1. CASE v = None
  <2>1. AcceptAttributes(v) = <<>>
    BY <1>1 DEF AcceptAttributes
  <2>2. <<>> \in Seq(Attribute) /\ Len(<<>>) = 0
    BY EmptySeq
  <2> QED
    BY <2>1, <2>2, AttributeBytesNone DEF MaxPacketSize, HeaderSize
<1>2. CASE v # None
  <2> DEFINE a == [type |-> ATTR_TUNNEL_TYPE, value |-> FourBytes(13)]
             b == [type |-> ATTR_TUNNEL_MEDIUM_TYPE, value |-> FourBytes(6)]
             c == [type |-> ATTR_TUNNEL_PRIVATE_GROUP_ID, value |-> Ascii(v)]
  <2>1. AcceptAttributes(v) = <<a, b, c>>
    BY <1>2 DEF AcceptAttributes
  <2>0. ASSUME NEW t \in Byte, NEW x \in Seq(Byte), Len(x) \in 1..4
        PROVE  /\ [type |-> t, value |-> x] \in Attribute
               /\ Len([type |-> t, value |-> x].value) <= 4
    <3> DEFINE n == Len(x)
    <3>1. n \in 1..4
      BY <2>0
    <3> HIDE DEF n
    <3>2. n <= 4 /\ n <= 253
      BY <3>1
    <3> QED
      BY <3>2 DEF Attribute, n
  <2>2. /\ a \in Attribute /\ Len(a.value) <= 4
        /\ b \in Attribute /\ Len(b.value) <= 4
    <3>1. 0 \in Byte /\ 13 \in Byte /\ 6 \in Byte /\ 64 \in Byte /\ 65 \in Byte
      BY DEF Byte
    <3>2. FourBytes(13) \in Seq(Byte) /\ FourBytes(6) \in Seq(Byte)
          /\ Len(FourBytes(13)) = 4 /\ Len(FourBytes(6)) = 4
      BY <3>1 DEF FourBytes
    <3>3. 4 \in 1..4
      OBVIOUS
    <3> QED
      BY <2>0, <3>1, <3>2, <3>3 DEF ATTR_TUNNEL_TYPE, ATTR_TUNNEL_MEDIUM_TYPE
  <2>3. c \in Attribute /\ Len(c.value) <= 4
    <3>1. 81 \in Byte
      BY DEF Byte
    <3>5. v \in VlanIds
      BY <1>2
    <3>2. Ascii(v) \in Seq(Byte) /\ Len(Ascii(v)) \in 1..4
      BY <3>5, AsciiType
    <3> QED
      BY <2>0, <3>1, <3>2 DEF ATTR_TUNNEL_PRIVATE_GROUP_ID
  <2> HIDE DEF a, b, c
  <2>4. /\ <<>> \in Seq(Attribute) /\ AttributeBytes(<<>>) = <<>> /\ Len(<<>>) = 0
        /\ <<c>> \in Seq(Attribute) /\ <<b, c>> \in Seq(Attribute)
        /\ <<a, b, c>> \in Seq(Attribute)
        /\ <<c>> = <<c>> \o <<>> /\ <<b, c>> = <<b>> \o <<c>>
        /\ <<a, b, c>> = <<a>> \o <<b, c>>
    <3>1. <<>> \in Seq(Attribute) /\ Len(<<>>) = 0
      BY EmptySeq
    <3>2. a \in Attribute /\ b \in Attribute /\ c \in Attribute
      BY <2>2, <2>3
    <3>3. /\ <<c>> \in Seq(Attribute) /\ <<b, c>> \in Seq(Attribute)
          /\ <<a, b, c>> \in Seq(Attribute)
      BY <3>2
    <3>4. <<c>> = <<c>> \o <<>> /\ <<b, c>> = <<b>> \o <<c>>
          /\ <<a, b, c>> = <<a>> \o <<b, c>>
      BY FirstOfOne, FirstOfTwo, FirstOfThree
    <3> QED
      BY <3>1, <3>3, <3>4, AttributeBytesNone
  <2>5. /\ AttributeBytes(<<c>>) = BytesOf(c) \o <<>>
        /\ AttributeBytes(<<b, c>>) = BytesOf(b) \o AttributeBytes(<<c>>)
        /\ AttributeBytes(<<a, b, c>>) = BytesOf(a) \o AttributeBytes(<<b, c>>)
    <3>1. AttributeBytes(<<c>> \o <<>>) = BytesOf(c) \o AttributeBytes(<<>>)
      BY <2>3, <2>4, AttributeBytesFirst
    <3>2. AttributeBytes(<<b>> \o <<c>>) = BytesOf(b) \o AttributeBytes(<<c>>)
      BY <2>2, <2>4, AttributeBytesFirst
    <3>3. AttributeBytes(<<a>> \o <<b, c>>) = BytesOf(a) \o AttributeBytes(<<b, c>>)
      BY <2>2, <2>4, AttributeBytesFirst
    <3> QED
      BY <2>4, <3>1, <3>2, <3>3
  <2>6. ASSUME NEW x \in Attribute, Len(x.value) <= 4, NEW t \in Seq(Byte)
        PROVE  Len(BytesOf(x) \o t) <= 6 + Len(t)
    <3>1. /\ BytesOf(x) \in Seq(Byte) /\ Len(BytesOf(x)) = Len(x.value) + 2
          /\ Len(x.value) \in 0..253
      BY BytesOfProperties
    <3> DEFINE bytes == BytesOf(x)
    <3>4. bytes \in Seq(Byte)
      BY <3>1
    <3> HIDE DEF bytes
    <3>5. Len(bytes \o t) = Len(bytes) + Len(t)
      BY <3>4, ConcatProperties
    <3>2. Len(BytesOf(x) \o t) = Len(BytesOf(x)) + Len(t)
      BY <3>5 DEF bytes
    <3>3. Len(t) \in Nat
      BY BytesType
    <3> QED
      BY <2>6, <3>1, <3>2, <3>3
  <2>7. /\ <<>> \in Seq(Byte) /\ AttributeBytes(<<c>>) \in Seq(Byte)
        /\ AttributeBytes(<<b, c>>) \in Seq(Byte) /\ AttributeBytes(<<a, b, c>>) \in Seq(Byte)
    BY <2>4, EmptySeq, AttributeBytesType
  <2> DEFINE x == Len(AttributeBytes(<<c>>))
             y == Len(AttributeBytes(<<b, c>>))
             z == Len(AttributeBytes(<<a, b, c>>))
  <2>8. x \in Nat /\ y \in Nat /\ z \in Nat
    BY <2>7, BytesType
  <2>9. x <= 6 + 0 /\ y <= 6 + x /\ z <= 6 + y
    BY <2>2, <2>3, <2>4, <2>5, <2>6, <2>7
  <2> HIDE DEF x, y, z
  <2>10. z <= MaxPacketSize - HeaderSize
    BY <2>8, <2>9 DEF MaxPacketSize, HeaderSize
  <2> QED
    BY <2>1, <2>4, <2>10 DEF z
<1> QED
  BY <1>1, <1>2

\* The VLAN is read from the answer as it was written.
LEMMA AcceptAssigns ==
    ASSUME NEW v, v = None \/ v \in VlanIds, NEW p, p.attributes = AcceptAttributes(v)
    PROVE  GetAttribute(p, ATTR_TUNNEL_PRIVATE_GROUP_ID) =
                IF v = None THEN {} ELSE {Ascii(v)}
<1> DEFINE at == {i \in DOMAIN p.attributes :
                    p.attributes[i].type = ATTR_TUNNEL_PRIVATE_GROUP_ID}
<1>1. GetAttribute(p, ATTR_TUNNEL_PRIVATE_GROUP_ID)
        = {p.attributes[i].value : i \in {i \in at : \A j \in at : i <= j}}
  BY DEF GetAttribute
<1>2. CASE v = None
  <2>1. p.attributes = <<>>
    BY <1>2 DEF AcceptAttributes
  <2>2. at = {}
    BY <2>1
  <2> QED
    BY <1>1, <1>2, <2>2
<1>3. CASE v # None
  <2>1. /\ DOMAIN p.attributes = 1..3
        /\ p.attributes[1].type = 64 /\ p.attributes[2].type = 65
        /\ p.attributes[3].type = 81 /\ p.attributes[3].value = Ascii(v)
    BY <1>3 DEF AcceptAttributes, ATTR_TUNNEL_TYPE, ATTR_TUNNEL_MEDIUM_TYPE,
                ATTR_TUNNEL_PRIVATE_GROUP_ID
  <2>2. at = {3}
    BY <2>1 DEF ATTR_TUNNEL_PRIVATE_GROUP_ID
  <2> HIDE DEF at
  <2>3. {i \in at : \A j \in at : i <= j} = {3}
    BY <2>2
  <2> QED
    BY <1>1, <1>3, <2>1, <2>3
<1> QED
  BY <1>2, <1>3

\* An Access-Accept, as the device that sent the request reads it.
LEMMA AcceptReads ==
    ASSUME NEW request, NEW secret, NEW v, v = None \/ v \in VlanIds
    PROVE  LET answer == BuildAccessAccept(request, secret, v)
           IN  /\ answer.code = CODE_ACCESS_ACCEPT
               /\ Verifies(answer, request.authenticator, secret)
               /\ \E p : /\ ParsePacket(answer) = {p} /\ p.identifier = request.identifier
                        /\ GetAttribute(p, ATTR_TUNNEL_PRIVATE_GROUP_ID) =
                                IF v = None THEN {} ELSE {Ascii(v)}
<1> DEFINE r == [code |-> CODE_ACCESS_ACCEPT, identifier |-> request.identifier,
                 authenticator |-> <<>>, attributes |-> AcceptAttributes(v)]
           answer == SignResponse(BuildPacket(r), request.authenticator, secret)
<1>1. /\ r.code = CODE_ACCESS_ACCEPT /\ r.identifier = request.identifier
      /\ r.attributes = AcceptAttributes(v)
  OBVIOUS
<1>2. BuildAccessAccept(request, secret, v) = answer
  BY DEF BuildAccessAccept
<1> HIDE DEF r
<1>3. /\ answer.code = r.code
      /\ ParsePacket(answer) =
            {[code |-> r.code, identifier |-> r.identifier,
              authenticator |-> answer.authenticator, attributes |-> r.attributes]}
      /\ Verifies(answer, request.authenticator, secret)
  <2>1. /\ r.attributes \in Seq(Attribute)
        /\ Len(AttributeBytes(r.attributes)) <= MaxPacketSize - HeaderSize
    BY <1>1, AcceptAttributesType
  <2> QED
    BY <2>1, SignedPacketParses
<1> HIDE DEF answer
<1> DEFINE p == [code |-> r.code, identifier |-> r.identifier,
                 authenticator |-> answer.authenticator, attributes |-> r.attributes]
<1>4. ParsePacket(answer) = {p} /\ p.identifier = request.identifier
      /\ p.attributes = AcceptAttributes(v)
  BY <1>1, <1>3
<1> HIDE DEF p
<1>5. GetAttribute(p, ATTR_TUNNEL_PRIVATE_GROUP_ID) = IF v = None THEN {} ELSE {Ascii(v)}
  BY <1>4, AcceptAssigns
<1> QED
  BY <1>1, <1>2, <1>3, <1>4, <1>5

\* An Access-Reject, as the device that sent the request reads it.
LEMMA RejectReads ==
    ASSUME NEW request, NEW secret
    PROVE  LET answer == BuildAccessReject(request, secret)
           IN  /\ answer.code = CODE_ACCESS_REJECT
               /\ Verifies(answer, request.authenticator, secret)
               /\ \E p : /\ ParsePacket(answer) = {p} /\ p.identifier = request.identifier
                        /\ GetAttribute(p, ATTR_TUNNEL_PRIVATE_GROUP_ID) = {}
<1> DEFINE r == [code |-> CODE_ACCESS_REJECT, identifier |-> request.identifier,
                 authenticator |-> <<>>, attributes |-> <<>>]
           answer == SignResponse(BuildPacket(r), request.authenticator, secret)
<1>1. /\ r.code = CODE_ACCESS_REJECT /\ r.identifier = request.identifier
      /\ r.attributes = <<>>
  OBVIOUS
<1>2. BuildAccessReject(request, secret) = answer
  BY DEF BuildAccessReject
<1> HIDE DEF r
<1>3. /\ answer.code = r.code
      /\ ParsePacket(answer) =
            {[code |-> r.code, identifier |-> r.identifier,
              authenticator |-> answer.authenticator, attributes |-> r.attributes]}
      /\ Verifies(answer, request.authenticator, secret)
  <2>1. <<>> \in Seq(Attribute) /\ Len(<<>>) = 0
    BY EmptySeq
  <2>2. /\ r.attributes \in Seq(Attribute)
        /\ Len(AttributeBytes(r.attributes)) <= MaxPacketSize - HeaderSize
    BY <1>1, <2>1, AttributeBytesNone DEF MaxPacketSize, HeaderSize
  <2> QED
    BY <2>2, SignedPacketParses
<1> HIDE DEF answer
<1> DEFINE p == [code |-> r.code, identifier |-> r.identifier,
                 authenticator |-> answer.authenticator, attributes |-> r.attributes]
<1>4. ParsePacket(answer) = {p} /\ p.identifier = request.identifier /\ p.attributes = <<>>
  BY <1>1, <1>3
<1> HIDE DEF p
<1>5. GetAttribute(p, ATTR_TUNNEL_PRIVATE_GROUP_ID) = {}
  BY <1>4 DEF GetAttribute
<1> QED
  BY <1>1, <1>2, <1>3, <1>4, <1>5

-----------------------------------------------------------------------------
(***************************************************************************)
(* Proofs about RadiusServer.                                              *)
(*                                                                         *)
(* What holds of the memory, and of one listener, is stated about values,  *)
(* not about the state: h for the heap, ds, cs and ps for the three        *)
(* dictionaries, gi for the group index, up for the update under way, r    *)
(* for the state of a listener, sn and cl for its ghosts.  A step of an    *)
(* administrator then is a change from h, ds, ... to h2, ds2, ..., whoever *)
(* made it, and a step of a listener one from r to r2.                     *)
(***************************************************************************)

-----------------------------------------------------------------------------
(* The memory *)

\* The dictionaries name objects of a heap that grows without gaps.
Sound(h, ds, cs, ps) ==
    /\ \E n \in Nat : DOMAIN h = 1..n
    /\ \A o \in DOMAIN h : h[o] \in Objects
    /\ NamesObjects(ds, Devices, h, Device)
    /\ NamesObjects(cs, Keys, h, Member)
    /\ NamesObjects(ps, PolicyNames, h, Policy)
    /\ \A n \in DOMAIN ps : h[ps[n]].name = n

\* There is a policy of that group and name, or there was one.
Named(h, g, n) == \E o \in DOMAIN h : h[o] \in Policy /\ h[o].group = g /\ h[o].name = n

\* The index gives a group a name that a policy of the group has or had.
IndexNamed(h, gi) ==
    /\ DOMAIN gi \subseteq Groups
    /\ \A g \in DOMAIN gi : Named(h, g, gi[g])

\* Reused, of the heap h.
ReusedIn(h, n) ==
    \E o, x \in DOMAIN h :
        /\ h[o] \in Policy /\ h[o].name = n
        /\ h[x] \in Policy /\ h[x].name = n
        /\ h[o].group # h[x].group

\* Every policy is whole, but for the one whose VLAN is still to be assigned;
\* that one will be.  A request that has still to change the index has the
\* policy it is about.
UpdateSound(h, ps, up) ==
    \/ up = NoUpdate /\ \A n \in DOMAIN ps : Whole(h[ps[n]])
    \/ \E n \in DOMAIN ps, v \in Vlans \cup {None} :
        /\ up = [obj |-> ps[n], second |-> "vlan", vlan |-> v]
        /\ Whole([decision |-> h[ps[n]].decision, vlan |-> v])
        /\ \A j \in DOMAIN ps : j # n => Whole(h[ps[j]])
    \/ \E o \in DOMAIN h, kind \in {"index", "unindex"} :
        /\ up = [obj |-> o, second |-> kind]
        /\ h[o] \in Policy
        /\ \A n \in DOMAIN ps : Whole(h[ps[n]])

\* the objects of h are there in h2, of the same kinds, and the policies have
\* kept their names and groups
KindsKept(h, h2) ==
    /\ DOMAIN h \subseteq DOMAIN h2
    /\ \A o \in DOMAIN h :
        /\ h[o] \in Device => h2[o] \in Device
        /\ h[o] \in Member => h2[o] \in Member
        /\ h[o] \in Policy =>
            h2[o] \in Policy /\ h2[o].name = h[o].name /\ h2[o].group = h[o].group

\* an old object has no name that it did not have
NamesKept(h, d, d2) ==
    \A k \in DOMAIN d2 : d2[k] \in DOMAIN h => k \in DOMAIN d /\ d[k] = d2[k]

\* d names the object o, before and after
Listed(o, d, d2) == \E k \in DOMAIN d \cap DOMAIN d2 : d[k] = o /\ d2[k] = o

\* What a step of an administrator can do to the memory.
Moves(h, ds, cs, ps, h2, ds2, cs2, ps2) ==
    /\ KindsKept(h, h2)
    /\ NamesKept(h, ds, ds2) /\ NamesKept(h, cs, cs2) /\ NamesKept(h, ps, ps2)
    /\ \A o \in DOMAIN h : h2[o] = h[o] \/ Listed(o, ds, ds2)
                                \/ Listed(o, cs, cs2) \/ Listed(o, ps, ps2)

\* An object is of one kind.
LEMMA KindsDiffer ==
    /\ \A x \in Device : x \notin Member /\ x \notin Policy
    /\ \A x \in Member : x \notin Policy
BY DEF Device, Member, Policy

\* An object is a device, a client or a policy.
LEMMA ObjectsDef ==
    ASSUME NEW x
    PROVE  x \in Objects <=> x \in Device \/ x \in Member \/ x \in Policy
BY DEF Objects

\* A new object.
LEMMA NewIsNew ==
    ASSUME NEW h, NEW n \in Nat, DOMAIN h = 1..n
    PROVE  Cardinality(DOMAIN h) = n /\ (n + 1) \notin DOMAIN h
<1>1. Cardinality(1..n) = IF 1 > n THEN 0 ELSE n - 1 + 1
  BY FS_Interval
<1>2. Cardinality(1..n) = n
  BY <1>1
<1> QED
  BY <1>2

\* Names on a heap whose objects have kept their kind.
LEMMA NamesOnNewHeap ==
    ASSUME NEW d, NEW K, NEW h, NEW S, NamesObjects(d, K, h, S),
           NEW h2, DOMAIN h \subseteq DOMAIN h2,
           \A o \in DOMAIN h : h[o] \in S => h2[o] \in S
    PROVE  NamesObjects(d, K, h2, S)
BY DEF NamesObjects

\* An insertion.
LEMMA NamesPut ==
    ASSUME NEW d, NEW K, NEW h, NEW S, NamesObjects(d, K, h, S),
           NEW k \in K, NEW o, o \notin DOMAIN h, NEW v \in S
    PROVE  /\ NamesObjects(Put(d, k, o), K, Put(h, o, v), S)
           /\ NamesKept(h, d, Put(d, k, o))
<1> DEFINE d2 == Put(d, k, o)
           h2 == Put(h, o, v)
<1>1. /\ DOMAIN d2 = DOMAIN d \cup {k} /\ d2[k] = o
      /\ \A x \in DOMAIN d : x # k => d2[x] = d[x]
  BY DEF Put
<1>2. /\ DOMAIN h2 = DOMAIN h \cup {o} /\ h2[o] = v
      /\ \A x \in DOMAIN h : x # o => h2[x] = h[x]
  BY DEF Put
<1> HIDE DEF d2, h2
<1>3. /\ DOMAIN d \subseteq K /\ \A x \in DOMAIN d : d[x] \in DOMAIN h /\ h[d[x]] \in S
      /\ \A x, y \in DOMAIN d : d[x] = d[y] => x = y
  BY DEF NamesObjects
<1>4. DOMAIN d2 \subseteq K
  BY <1>1, <1>3
<1>5. ASSUME NEW x \in DOMAIN d2 PROVE d2[x] \in DOMAIN h2 /\ h2[d2[x]] \in S
  BY <1>1, <1>2, <1>3
<1>6. ASSUME NEW x \in DOMAIN d2, NEW y \in DOMAIN d2, d2[x] = d2[y] PROVE x = y
  BY <1>1, <1>3, <1>6
<1>7. NamesKept(h, d, d2)
  BY <1>1, <1>3 DEF NamesKept
<1> QED
  BY <1>4, <1>5, <1>6, <1>7 DEF NamesObjects, d2, h2

\* A deletion.
LEMMA NamesDrop ==
    ASSUME NEW d, NEW K, NEW h, NEW S, NamesObjects(d, K, h, S), NEW k
    PROVE  NamesObjects(Drop(d, k), K, h, S) /\ NamesKept(h, d, Drop(d, k))
<1> DEFINE d2 == Drop(d, k)
<1>1. DOMAIN d2 = DOMAIN d \ {k} /\ \A x \in DOMAIN d \ {k} : d2[x] = d[x]
  BY DropValues
<1> HIDE DEF d2
<1> QED
  BY <1>1 DEF NamesObjects, NamesKept, d2

\* Nothing.
LEMMA NamesSame ==
    ASSUME NEW d, NEW K, NEW h, NEW S, NamesObjects(d, K, h, S)
    PROVE  /\ NamesKept(h, d, d)
           /\ \A k \in DOMAIN d : Listed(d[k], d, d)
BY DEF NamesObjects, NamesKept, Listed

\* The heap with a new object.
LEMMA HeapPut ==
    ASSUME NEW h, NEW ds, NEW cs, NEW ps, Sound(h, ds, cs, ps),
           NEW v \in Objects
    PROVE  LET o == Cardinality(DOMAIN h) + 1
               h2 == Put(h, o, v)
           IN  /\ o \notin DOMAIN h
               /\ Sound(h2, ds, cs, ps)
               /\ KindsKept(h, h2)
               /\ \A x \in DOMAIN h : h2[x] = h[x]
<1> DEFINE o == Cardinality(DOMAIN h) + 1
           h2 == Put(h, o, v)
<1>1. PICK n \in Nat : DOMAIN h = 1..n
  BY DEF Sound
<1>2. o = n + 1 /\ o \notin DOMAIN h
  <2>1. Cardinality(DOMAIN h) = n /\ (n + 1) \notin DOMAIN h
    BY <1>1, NewIsNew
  <2> QED
    BY <2>1
<1>3. DOMAIN h2 = DOMAIN h \cup {o} /\ h2[o] = v /\ \A x \in DOMAIN h : x # o => h2[x] = h[x]
  BY DEF Put
<1> HIDE DEF o, h2
<1>4. \A x \in DOMAIN h : h2[x] = h[x]
  BY <1>2, <1>3
<1>5. DOMAIN h2 = 1..(n + 1) /\ n + 1 \in Nat
  <2>1. 1..(n + 1) = (1..n) \cup {n + 1}
    OBVIOUS
  <2> QED
    BY <1>1, <1>2, <1>3, <2>1
<1>6. \A x \in DOMAIN h2 : h2[x] \in Objects
  BY <1>3, <1>4 DEF Sound
<1>7. KindsKept(h, h2)
  BY <1>3, <1>4 DEF KindsKept
<1>8. /\ NamesObjects(ds, Devices, h2, Device)
      /\ NamesObjects(cs, Keys, h2, Member)
      /\ NamesObjects(ps, PolicyNames, h2, Policy)
  BY <1>3, <1>4, NamesOnNewHeap DEF Sound
<1>10. \A k \in DOMAIN ps : h2[ps[k]].name = k
  BY <1>4 DEF Sound, NamesObjects
<1>9. Sound(h2, ds, cs, ps)
  BY <1>5, <1>6, <1>8, <1>10 DEF Sound
<1> QED
  BY <1>2, <1>4, <1>7, <1>9 DEF o, h2

\* The heap with one object changed, which stays of its kind.
LEMMA HeapEdit ==
    ASSUME NEW h, NEW ds, NEW cs, NEW ps, Sound(h, ds, cs, ps),
           NEW o \in DOMAIN h, NEW h2, DOMAIN h2 = DOMAIN h,
           \A x \in DOMAIN h : x # o => h2[x] = h[x],
           \/ h[o] \in Device /\ h2[o] \in Device
           \/ h[o] \in Member /\ h2[o] \in Member
           \/ /\ h[o] \in Policy /\ h2[o] \in Policy
              /\ h2[o].name = h[o].name /\ h2[o].group = h[o].group
    PROVE  Sound(h2, ds, cs, ps) /\ KindsKept(h, h2)
<1>1. \A x \in DOMAIN h :
        /\ h[x] \in Device => h2[x] \in Device
        /\ h[x] \in Member => h2[x] \in Member
        /\ h[x] \in Policy =>
            h2[x] \in Policy /\ h2[x].name = h[x].name /\ h2[x].group = h[x].group
  BY KindsDiffer
<1>2. KindsKept(h, h2)
  BY <1>1 DEF KindsKept
<1>3. /\ NamesObjects(ds, Devices, h2, Device)
      /\ NamesObjects(cs, Keys, h2, Member)
      /\ NamesObjects(ps, PolicyNames, h2, Policy)
  BY <1>1, NamesOnNewHeap DEF Sound
<1>4. \A x \in DOMAIN h2 : h2[x] \in Objects
  BY <1>1, ObjectsDef DEF Sound
<1>5. \E n \in Nat : DOMAIN h2 = 1..n
  BY DEF Sound
<1>7. \A n \in DOMAIN ps : h2[ps[n]].name = n
  BY <1>1 DEF Sound, NamesObjects
<1>6. Sound(h2, ds, cs, ps)
  BY <1>3, <1>4, <1>5, <1>7 DEF Sound
<1> QED
  BY <1>2, <1>6

\* A policy that was there was one of its name and group.
LEMMA NamedStays ==
    ASSUME NEW h, NEW h2, KindsKept(h, h2), NEW n
    PROVE  /\ \A g : Named(h, g, n) => Named(h2, g, n)
           /\ ReusedIn(h, n) => ReusedIn(h2, n)
<1>1. \A g : Named(h, g, n) => Named(h2, g, n)
  BY DEF KindsKept, Named
<1>2. ReusedIn(h, n) => ReusedIn(h2, n)
  BY DEF KindsKept, ReusedIn
<1> QED
  BY <1>1, <1>2

\* A name of policies of two groups has been used twice.
LEMMA NamedTwice ==
    ASSUME NEW h, NEW n, NEW g, NEW q, Named(h, g, n), Named(h, q, n)
    PROVE  q = g \/ ReusedIn(h, n)
BY DEF Named, ReusedIn

-----------------------------------------------------------------------------
(* One listener *)

\* The key a listener looks its client up with.
Key(packet) == <<ExtractMac(packet), "upper">>

\* A listener in the state r is handling a datagram.
Handled(r) == r.at \notin {"off", "top", "call", "blocked"}

\* Holds, stated about the heap h and the latest socket s.
HoldsIn(r, h, s) ==
    /\ r.at \in {"off", "top", "call", "blocked", "scan", "client", "group", "index",
                 "name", "decision", "vlan", "build", "send"}
    /\ r.at = "blocked" => r.sock \in 1..s
    /\ r.at \in {"client", "group", "index", "name", "decision", "vlan", "build"} =>
        r.device \in DOMAIN h /\ h[r.device] \in Device
    /\ r.at = "group" => r.client \in DOMAIN h /\ h[r.client] \in Member
    /\ r.at \in {"decision", "vlan"} =>
        r.policy \in DOMAIN h /\ h[r.policy] \in Policy
    /\ r.at \in {"vlan", "build"} => r.decision \in Decisions
    /\ r.at = "build" => r.vlan \in Vlans \cup {None}

\* sn has what is true of the memory.
SeesNow(h, ds, cs, ps, gi, sn) ==
    /\ \A n \in DOMAIN ds : /\ <<n, h[ds[n]].address>> \in sn.addresses
                            /\ <<n, h[ds[n]].secret>> \in sn.secrets
    /\ \A k \in DOMAIN cs : <<k, h[cs[k]].group>> \in sn.groups
    /\ \A g \in DOMAIN gi : <<g, gi[g]>> \in sn.index
    /\ \A n \in DOMAIN ps :
        /\ <<n, h[ps[n]].group, h[ps[n]].decision>> \in sn.decisions
        /\ <<n, h[ps[n]].group, {h[ps[n]].vlan} \ {None}>> \in sn.vlans

\* The object o has no name in d but k, and perhaps no name any more.
NamedOnly(o, k, d) == \A j \in DOMAIN d : d[j] = o => j = k

\* The device a listener holds was the sender's, the client that of the key, and
\* the policy had the name the index gave a group of the client; what they are now
\* has been seen of the names they had.
KnowsDevice(r, h, ds, sn) ==
    \E n \in Devices :
        /\ <<n, r.from>> \in sn.addresses
        /\ <<n, h[r.device].secret>> \in sn.secrets
        /\ NamedOnly(r.device, n, ds)

KnowsClient(r, h, cs, sn) ==
    /\ <<Key(r.packet), h[r.client].group>> \in sn.groups
    /\ NamedOnly(r.client, Key(r.packet), cs)

KnowsGroup(r, sn) == r.group \in Groups /\ <<Key(r.packet), r.group>> \in sn.groups

\* The name came from the index, so that a policy of the group has or had it.
KnowsName(r, h, sn) ==
    \E g \in Groups :
        /\ <<Key(r.packet), g>> \in sn.groups
        /\ <<g, r.name>> \in sn.index
        /\ Named(h, g, r.name)

\* d and v have been a decision and a VLAN of policies of the name and the group
\* that p has.
SeenOf(p, d, v, sn) ==
    /\ <<p.name, p.group, d>> \in sn.decisions
    /\ <<p.name, p.group, {v} \ {None}>> \in sn.vlans

KnowsPolicy(r, h, ps, sn) ==
    \E g \in Groups :
        /\ <<Key(r.packet), g>> \in sn.groups
        /\ <<g, h[r.policy].name>> \in sn.index
        /\ Named(h, g, h[r.policy].name)
        /\ SeenOf(h[r.policy], h[r.policy].decision, h[r.policy].vlan, sn)
        /\ r.at = "vlan" => SeenOf(h[r.policy], r.decision, h[r.policy].vlan, sn)
        /\ NamedOnly(r.policy, h[r.policy].name, ps)

\* A verdict other than a reject has been earned.
KnowsVerdict(r, h, sn) ==
    r.decision # "reject" =>
        \E g, q \in Groups, n \in PolicyNames :
            /\ <<Key(r.packet), g>> \in sn.groups
            /\ <<g, n>> \in sn.index
            /\ <<n, q, r.decision>> \in sn.decisions
            /\ <<n, q, {r.vlan} \ {None}>> \in sn.vlans
            /\ q = g \/ ReusedIn(h, n)

\* AcceptIsEarned, of one answer.
Earned(r, h, sn) ==
    r.answer.code = CODE_ACCESS_ACCEPT =>
        \E g, q \in Groups, n \in PolicyNames, d \in Decisions \ {"reject"} :
            /\ <<Key(r.packet), g>> \in sn.groups
            /\ <<g, n>> \in sn.index
            /\ <<n, q, d>> \in sn.decisions
            /\ IF d = "accept_with_vlan" THEN <<n, q, VlansIn(r.answer)>> \in sn.vlans
               ELSE VlansIn(r.answer) = {}
            /\ q = g \/ ReusedIn(h, n)

\* The same of AnswersFit.
Fits(r, sn) ==
    /\ \E p \in ParsePacket(r.answer) : p.identifier = r.packet.identifier
    /\ \E n \in Devices, s \in Secrets :
        /\ <<n, r.from>> \in sn.addresses
        /\ <<n, s>> \in sn.secrets
        /\ Verifies(r.answer, r.packet.authenticator, s)
    /\ (r.entry.outcome = "success") <=> (r.answer.code = CODE_ACCESS_ACCEPT)
    /\ VlansIn(r.answer) = {r.entry.vlan} \ {None}

\* What a listener knows, wherever it is.
Knows(r, h, ds, cs, ps, sn) ==
    /\ r.at \in {"client", "group", "index", "name", "decision", "vlan", "build"} =>
        KnowsDevice(r, h, ds, sn)
    /\ r.at = "group" => KnowsClient(r, h, cs, sn)
    /\ r.at = "index" => KnowsGroup(r, sn)
    /\ r.at = "name" => KnowsName(r, h, sn)
    /\ r.at \in {"decision", "vlan"} => KnowsPolicy(r, h, ps, sn)
    /\ r.at = "build" => KnowsVerdict(r, h, sn)
    /\ r.at = "send" => Earned(r, h, sn) /\ Fits(r, sn)

\* Verdict, of a heap, two dictionaries and an index.
VerdictIn(k, h, cs, ps, gi) ==
    IF /\ k \in DOMAIN cs
       /\ h[cs[k]].group \in DOMAIN gi
       /\ gi[h[cs[k]].group] \in DOMAIN ps
    THEN h[ps[gi[h[cs[k]].group]]]
    ELSE [decision |-> "reject", vlan |-> None]

\* What a listener is on its way to while nothing changes.
Current(r, h, cs, ps, gi) ==
    LET k == Key(r.packet)
        verdict == VerdictIn(k, h, cs, ps, gi)
    IN  /\ r.at = "group" => k \in DOMAIN cs /\ cs[k] = r.client
        /\ r.at = "index" => k \in DOMAIN cs /\ h[cs[k]].group = r.group
        /\ r.at = "name" =>
            /\ k \in DOMAIN cs /\ h[cs[k]].group \in DOMAIN gi
            /\ gi[h[cs[k]].group] = r.name
        /\ r.at \in {"decision", "vlan"} =>
            /\ k \in DOMAIN cs /\ h[cs[k]].group \in DOMAIN gi
            /\ gi[h[cs[k]].group] \in DOMAIN ps
            /\ ps[gi[h[cs[k]].group]] = r.policy
        /\ r.at = "vlan" => r.decision = h[r.policy].decision
        /\ r.at = "build" => r.decision = verdict.decision /\ r.vlan = verdict.vlan
        /\ r.at = "send" =>
            /\ (r.answer.code = CODE_ACCESS_REJECT) <=> (verdict.decision = "reject")
            /\ VlansIn(r.answer) = {verdict.vlan} \ {None}

\* No device with the sender's address has been passed while no device changes.
Searching(r, h, ds) ==
    /\ r.size = Cardinality(DOMAIN ds)
    /\ \A n \in DOMAIN ds : h[ds[n]].address = r.from => ds[n] > r.pos

\* The state of a listener in the loop over the devices.
ScanRecord(r) ==
    /\ r = [at |-> "scan", packet |-> r.packet, from |-> r.from,
            pos |-> r.pos, size |-> r.size]
    /\ r.pos \in Nat

\* The invariant of one listener.
Good(r, h, ds, cs, ps, gi, up, sn, cl, s) ==
    /\ HoldsIn(r, h, s)
    /\ Handled(r) =>
        /\ r.at = "scan" => ScanRecord(r)
        /\ SeesNow(h, ds, cs, ps, gi, sn)
        /\ Knows(r, h, ds, cs, ps, sn)
        /\ "everything" \in cl => up = NoUpdate /\ Current(r, h, cs, ps, gi)
        /\ "devices" \in cl /\ r.at = "scan" => Searching(r, h, ds)

-----------------------------------------------------------------------------
(* The invariant *)

\* The invariant of the memory.
MemoryOK ==
    /\ Sound(heap, devices, clients, policies)
    /\ UpdateSound(heap, policies, update)
    /\ IndexNamed(heap, groupIndex)

\* The invariant of start, stop and the network.
ServerOK ==
    /\ socket \in Nat /\ socket <= MaxStarts
    /\ open \subseteq {socket} \cap Starts
    /\ control = "down" => open = {}
    /\ control = "starting" /\ socket \in Starts => listener[socket] = Off
    /\ DOMAIN listener = Starts
    /\ DOMAIN buffer = Starts /\ DOMAIN seen = Starts /\ DOMAIN calm = Starts
    /\ \A l \in Starts : l > socket => listener[l] = Off /\ buffer[l] = <<>>
    /\ \A k \in Starts : buffer[k] = <<>> \/ \E d \in Datagrams : buffer[k] = <<d>>

\* The invariant of the listeners.
ListenersOK ==
    \A l \in Starts :
        Good(listener[l], heap, devices, clients, policies, groupIndex, update,
             seen[l], calm[l], socket)

\* The inductive invariant.
Inv == MemoryOK /\ ServerOK /\ ListenersOK

-----------------------------------------------------------------------------
(* What a listener knows outlives a step of an administrator *)

\* Nothing seen is forgotten.
Grows(sn, sn2) ==
    /\ sn.addresses \subseteq sn2.addresses /\ sn.secrets \subseteq sn2.secrets
    /\ sn.groups \subseteq sn2.groups /\ sn.index \subseteq sn2.index
    /\ sn.decisions \subseteq sn2.decisions /\ sn.vlans \subseteq sn2.vlans

\* An object gets no new name.
LEMMA NamedOnlyKept ==
    ASSUME NEW h, NEW d, NEW d2, NamesKept(h, d, d2),
           NEW o \in DOMAIN h, NEW k, NamedOnly(o, k, d)
    PROVE  NamedOnly(o, k, d2)
BY DEF NamesKept, NamedOnly

\* An object that is listed is listed under its only name.
LEMMA ListedAs ==
    ASSUME NEW o, NEW d, NEW d2, NEW k, NamedOnly(o, k, d), Listed(o, d, d2)
    PROVE  k \in DOMAIN d2 /\ d2[k] = o
BY DEF NamedOnly, Listed

\* Only a dictionary of its kind can list an object that changes.
LEMMA ListedByKind ==
    ASSUME NEW h, NEW ds, NEW cs, NEW ps, NEW h2, NEW ds2, NEW cs2, NEW ps2,
           Sound(h, ds, cs, ps), Moves(h, ds, cs, ps, h2, ds2, cs2, ps2),
           NEW o \in DOMAIN h
    PROVE  /\ h[o] \in Device => h2[o] = h[o] \/ Listed(o, ds, ds2)
           /\ h[o] \in Member => h2[o] = h[o] \/ Listed(o, cs, cs2)
           /\ h[o] \in Policy => h2[o] = h[o] \/ Listed(o, ps, ps2)
<1>1. h2[o] = h[o] \/ Listed(o, ds, ds2) \/ Listed(o, cs, cs2) \/ Listed(o, ps, ps2)
  BY DEF Moves
<1>2. /\ Listed(o, ds, ds2) => h[o] \in Device
      /\ Listed(o, cs, cs2) => h[o] \in Member
      /\ Listed(o, ps, ps2) => h[o] \in Policy
  BY DEF Listed, Sound, NamesObjects
<1> QED
  BY <1>1, <1>2, KindsDiffer

\* The device a listener holds may change: its secret now has been seen too.
LEMMA KnowsDeviceKept ==
    ASSUME NEW h, NEW ds, NEW cs, NEW ps, NEW h2, NEW ds2, NEW cs2, NEW ps2, NEW gi2,
           Sound(h, ds, cs, ps), Moves(h, ds, cs, ps, h2, ds2, cs2, ps2),
           NEW sn, NEW sn2, Grows(sn, sn2), SeesNow(h2, ds2, cs2, ps2, gi2, sn2),
           NEW r, r.device \in DOMAIN h, h[r.device] \in Device,
           KnowsDevice(r, h, ds, sn)
    PROVE  KnowsDevice(r, h2, ds2, sn2)
<1>1. PICK n \in Devices : /\ <<n, r.from>> \in sn.addresses
                           /\ <<n, h[r.device].secret>> \in sn.secrets
                           /\ NamedOnly(r.device, n, ds)
  BY DEF KnowsDevice
<1>2. NamedOnly(r.device, n, ds2)
  BY <1>1, NamedOnlyKept DEF Moves
<1>3. <<n, h2[r.device].secret>> \in sn2.secrets
  <2>1. CASE h2[r.device] = h[r.device]
    BY <1>1, <2>1 DEF Grows
  <2>2. CASE Listed(r.device, ds, ds2)
    <3>1. n \in DOMAIN ds2 /\ ds2[n] = r.device
      BY <1>1, <2>2, ListedAs
    <3> QED
      BY <3>1 DEF SeesNow
  <2> QED
    BY <2>1, <2>2, ListedByKind
<1>4. <<n, r.from>> \in sn2.addresses
  BY <1>1 DEF Grows
<1> QED
  BY <1>2, <1>3, <1>4 DEF KnowsDevice

\* The client a listener holds may change: its group now has been seen too.
LEMMA KnowsClientKept ==
    ASSUME NEW h, NEW ds, NEW cs, NEW ps, NEW h2, NEW ds2, NEW cs2, NEW ps2, NEW gi2,
           Sound(h, ds, cs, ps), Moves(h, ds, cs, ps, h2, ds2, cs2, ps2),
           NEW sn, NEW sn2, Grows(sn, sn2), SeesNow(h2, ds2, cs2, ps2, gi2, sn2),
           NEW r, r.client \in DOMAIN h, h[r.client] \in Member,
           KnowsClient(r, h, cs, sn)
    PROVE  KnowsClient(r, h2, cs2, sn2)
<1> DEFINE k == Key(r.packet)
<1> HIDE DEF k
<1>1. <<k, h[r.client].group>> \in sn.groups /\ NamedOnly(r.client, k, cs)
  BY DEF KnowsClient, k
<1>2. NamedOnly(r.client, k, cs2)
  BY <1>1, NamedOnlyKept DEF Moves
<1>3. <<k, h2[r.client].group>> \in sn2.groups
  <2>1. CASE h2[r.client] = h[r.client]
    BY <1>1, <2>1 DEF Grows
  <2>2. CASE Listed(r.client, cs, cs2)
    <3>1. k \in DOMAIN cs2 /\ cs2[k] = r.client
      BY <1>1, <2>2, ListedAs
    <3> QED
      BY <3>1 DEF SeesNow
  <2> QED
    BY <2>1, <2>2, ListedByKind
<1> QED
  BY <1>2, <1>3 DEF KnowsClient, k

\* The policy a listener holds may change: its decision and its VLAN now have been
\* seen too.
LEMMA KnowsPolicyKept ==
    ASSUME NEW h, NEW ds, NEW cs, NEW ps, NEW h2, NEW ds2, NEW cs2, NEW ps2, NEW gi2,
           Sound(h, ds, cs, ps), Moves(h, ds, cs, ps, h2, ds2, cs2, ps2),
           NEW sn, NEW sn2, Grows(sn, sn2), SeesNow(h2, ds2, cs2, ps2, gi2, sn2),
           NEW r, r.policy \in DOMAIN h, h[r.policy] \in Policy,
           KnowsPolicy(r, h, ps, sn)
    PROVE  KnowsPolicy(r, h2, ps2, sn2)
<1> DEFINE k == Key(r.packet)
           p == h[r.policy]
           p2 == h2[r.policy]
<1>1. PICK g \in Groups : /\ <<k, g>> \in sn.groups
                          /\ <<g, p.name>> \in sn.index
                          /\ Named(h, g, p.name)
                          /\ SeenOf(p, p.decision, p.vlan, sn)
                          /\ r.at = "vlan" => SeenOf(p, r.decision, p.vlan, sn)
                          /\ NamedOnly(r.policy, p.name, ps)
  BY DEF KnowsPolicy
<1>5. p2.name = p.name /\ p2.group = p.group
  BY DEF Moves, KindsKept
<1>6. p2 = p \/ Listed(r.policy, ps, ps2)
  BY ListedByKind
<1>7. p2 = h2[r.policy]
  OBVIOUS
<1> HIDE DEF k, p, p2
<1>2. NamedOnly(r.policy, p2.name, ps2)
  BY <1>1, <1>5, NamedOnlyKept DEF Moves
<1>3. SeenOf(p2, p2.decision, p2.vlan, sn2)
  <2>1. CASE p2 = p
    BY <1>1, <2>1 DEF Grows, SeenOf
  <2>2. CASE Listed(r.policy, ps, ps2)
    <3>1. p.name \in DOMAIN ps2 /\ ps2[p.name] = r.policy
      BY <1>1, <2>2, ListedAs
    <3> QED
      BY <1>5, <1>7, <3>1 DEF SeesNow, SeenOf
  <2> QED
    BY <1>6, <2>1, <2>2
<1>4. <<k, g>> \in sn2.groups /\ <<g, p2.name>> \in sn2.index /\ Named(h2, g, p2.name)
  <2>1. Named(h2, g, p.name)
    BY <1>1, NamedStays DEF Moves
  <2> QED
    BY <1>1, <1>5, <2>1 DEF Grows
<1>8. r.at = "vlan" => SeenOf(p2, r.decision, p2.vlan, sn2)
  BY <1>1, <1>3, <1>5 DEF Grows, SeenOf
<1> QED
  BY <1>2, <1>3, <1>4, <1>8 DEF KnowsPolicy, k, p2

\* What has been seen stays seen.
LEMMA KnowsVerdictKept ==
    ASSUME NEW sn, NEW sn2, Grows(sn, sn2), NEW h, NEW h2, KindsKept(h, h2), NEW r
    PROVE  /\ KnowsGroup(r, sn) => KnowsGroup(r, sn2)
           /\ KnowsName(r, h, sn) => KnowsName(r, h2, sn2)
           /\ KnowsVerdict(r, h, sn) => KnowsVerdict(r, h2, sn2)
           /\ Earned(r, h, sn) => Earned(r, h2, sn2)
           /\ Fits(r, sn) => Fits(r, sn2)
<1>1. KnowsGroup(r, sn) => KnowsGroup(r, sn2)
  BY DEF Grows, KnowsGroup
<1>2. KnowsName(r, h, sn) => KnowsName(r, h2, sn2)
  BY NamedStays DEF Grows, KnowsName
<1>3. KnowsVerdict(r, h, sn) => KnowsVerdict(r, h2, sn2)
  <2>1. ASSUME KnowsVerdict(r, h, sn), r.decision # "reject"
        PROVE  KnowsVerdict(r, h2, sn2)
    <3>1. PICK g \in Groups, q \in Groups, n \in PolicyNames :
                /\ <<Key(r.packet), g>> \in sn.groups
                /\ <<g, n>> \in sn.index
                /\ <<n, q, r.decision>> \in sn.decisions
                /\ <<n, q, {r.vlan} \ {None}>> \in sn.vlans
                /\ q = g \/ ReusedIn(h, n)
      BY <2>1 DEF KnowsVerdict
    <3>2. q = g \/ ReusedIn(h2, n)
      BY <3>1, NamedStays
    <3> QED
      BY <3>1, <3>2 DEF Grows, KnowsVerdict
  <2> QED
    BY <2>1 DEF KnowsVerdict
<1>4. Earned(r, h, sn) => Earned(r, h2, sn2)
  <2>1. ASSUME Earned(r, h, sn), r.answer.code = CODE_ACCESS_ACCEPT
        PROVE  Earned(r, h2, sn2)
    <3>1. PICK g \in Groups, q \in Groups, n \in PolicyNames, d \in Decisions \ {"reject"} :
                /\ <<Key(r.packet), g>> \in sn.groups
                /\ <<g, n>> \in sn.index
                /\ <<n, q, d>> \in sn.decisions
                /\ IF d = "accept_with_vlan" THEN <<n, q, VlansIn(r.answer)>> \in sn.vlans
                   ELSE VlansIn(r.answer) = {}
                /\ q = g \/ ReusedIn(h, n)
      BY <2>1 DEF Earned
    <3>2. q = g \/ ReusedIn(h2, n)
      BY <3>1, NamedStays
    <3> QED
      BY <3>1, <3>2 DEF Grows, Earned
  <2> QED
    BY <2>1 DEF Earned
<1>5. Fits(r, sn) => Fits(r, sn2)
  BY DEF Grows, Fits
<1> QED
  BY <1>1, <1>2, <1>3, <1>4, <1>5

\* An object a listener holds stays an object of its kind, deleted or not.
LEMMA HoldsInKept ==
    ASSUME NEW h, NEW h2, KindsKept(h, h2), NEW r, NEW s, HoldsIn(r, h, s)
    PROVE  HoldsIn(r, h2, s)
BY DEF HoldsIn, KindsKept

\* Whatever a listener knows survives a move.
LEMMA KnowsKept ==
    ASSUME NEW h, NEW ds, NEW cs, NEW ps, NEW h2, NEW ds2, NEW cs2, NEW ps2, NEW gi2,
           Sound(h, ds, cs, ps), Moves(h, ds, cs, ps, h2, ds2, cs2, ps2),
           NEW sn, NEW sn2, Grows(sn, sn2), SeesNow(h2, ds2, cs2, ps2, gi2, sn2),
           NEW r, NEW s, HoldsIn(r, h, s), Knows(r, h, ds, cs, ps, sn)
    PROVE  Knows(r, h2, ds2, cs2, ps2, sn2)
<1>1. ASSUME r.at \in {"client", "group", "index", "name", "decision", "vlan", "build"}
      PROVE  KnowsDevice(r, h2, ds2, sn2)
  <2>1. r.device \in DOMAIN h /\ h[r.device] \in Device /\ KnowsDevice(r, h, ds, sn)
    BY <1>1 DEF HoldsIn, Knows
  <2> QED
    BY <2>1, KnowsDeviceKept
<1>2. ASSUME r.at = "group" PROVE KnowsClient(r, h2, cs2, sn2)
  <2>1. r.client \in DOMAIN h /\ h[r.client] \in Member /\ KnowsClient(r, h, cs, sn)
    BY <1>2 DEF HoldsIn, Knows
  <2> QED
    BY <2>1, KnowsClientKept
<1>3. ASSUME r.at \in {"decision", "vlan"} PROVE KnowsPolicy(r, h2, ps2, sn2)
  <2>1. r.policy \in DOMAIN h /\ h[r.policy] \in Policy /\ KnowsPolicy(r, h, ps, sn)
    BY <1>3 DEF HoldsIn, Knows
  <2> QED
    BY <2>1, KnowsPolicyKept
<1>4. /\ r.at = "index" => KnowsGroup(r, sn2)
      /\ r.at = "name" => KnowsName(r, h2, sn2)
      /\ r.at = "build" => KnowsVerdict(r, h2, sn2)
      /\ r.at = "send" => Earned(r, h2, sn2) /\ Fits(r, sn2)
  BY KnowsVerdictKept DEF Knows, Moves
<1> QED
  BY <1>1, <1>2, <1>3, <1>4 DEF Knows

\* A step of an administrator: nothing is undisturbed afterwards, and the
\* devices only if it has not touched them.
LEMMA GoodMoved ==
    ASSUME NEW h, NEW ds, NEW cs, NEW ps, NEW gi, NEW h2, NEW ds2, NEW cs2, NEW ps2, NEW gi2,
           Sound(h, ds, cs, ps), Moves(h, ds, cs, ps, h2, ds2, cs2, ps2),
           NEW sn, NEW sn2, NEW cl, NEW cl2, NEW up, NEW up2, NEW r, NEW s,
           Good(r, h, ds, cs, ps, gi, up, sn, cl, s),
           Handled(r) =>
                /\ Grows(sn, sn2) /\ SeesNow(h2, ds2, cs2, ps2, gi2, sn2)
                /\ "everything" \notin cl2
                /\ "devices" \in cl2 =>
                        /\ "devices" \in cl /\ ds2 = ds
                        /\ \A n \in DOMAIN ds : h2[ds[n]].address = h[ds[n]].address
    PROVE  Good(r, h2, ds2, cs2, ps2, gi2, up2, sn2, cl2, s)
<1>1. HoldsIn(r, h, s) /\ HoldsIn(r, h2, s)
  BY HoldsInKept DEF Good, Moves
<1>2. ASSUME Handled(r)
      PROVE  /\ r.at = "scan" => ScanRecord(r)
             /\ SeesNow(h2, ds2, cs2, ps2, gi2, sn2)
             /\ Knows(r, h2, ds2, cs2, ps2, sn2)
             /\ "everything" \in cl2 => up2 = NoUpdate /\ Current(r, h2, cs2, ps2, gi2)
  <2>1. Knows(r, h, ds, cs, ps, sn)
    BY <1>2 DEF Good
  <2>2. Knows(r, h2, ds2, cs2, ps2, sn2)
    BY <1>1, <1>2, <2>1, KnowsKept
  <2> QED
    BY <1>2, <2>2 DEF Good
<1>3. ASSUME Handled(r), "devices" \in cl2, r.at = "scan"
      PROVE  Searching(r, h2, ds2)
  <2>1. Searching(r, h, ds)
    BY <1>3 DEF Good
  <2> QED
    BY <1>3, <2>1 DEF Searching
<1> QED
  BY <1>1, <1>2, <1>3 DEF Good

-----------------------------------------------------------------------------
(* Every step of an administrator is a move *)

\* Between updates every policy is whole.
LEMMA NoUpdateMeans ==
    ASSUME NEW h, NEW ps, UpdateSound(h, ps, NoUpdate)
    PROVE  \A g \in DOMAIN ps : Whole(h[ps[g]])
<1>1. ASSUME NEW x, NEW v
      PROVE  /\ NoUpdate # [obj |-> x, second |-> "vlan", vlan |-> v]
             /\ NoUpdate # [obj |-> x, second |-> v]
  <2>1. /\ DOMAIN NoUpdate = {"obj"}
        /\ "second" \in DOMAIN [obj |-> x, second |-> "vlan", vlan |-> v]
        /\ "second" \in DOMAIN [obj |-> x, second |-> v]
    BY DEF NoUpdate
  <2> QED
    BY <2>1
<1> QED
  BY <1>1 DEF UpdateSound

\* What the kind of the second assignment says of it.
LEMMA UpdateMeans ==
    ASSUME NEW h, NEW ps, NEW up, UpdateSound(h, ps, up), up # NoUpdate
    PROVE  /\ up.second = "vlan" =>
                \E n \in DOMAIN ps, v \in Vlans \cup {None} :
                    /\ up = [obj |-> ps[n], second |-> "vlan", vlan |-> v]
                    /\ Whole([decision |-> h[ps[n]].decision, vlan |-> v])
                    /\ \A j \in DOMAIN ps : j # n => Whole(h[ps[j]])
           /\ up.second \in {"index", "unindex"} =>
                \E o \in DOMAIN h, kind \in {"index", "unindex"} :
                    /\ up = [obj |-> o, second |-> kind]
                    /\ h[o] \in Policy
                    /\ \A n \in DOMAIN ps : Whole(h[ps[n]])
<1>1. ASSUME NEW x, NEW v
      PROVE  /\ [obj |-> x, second |-> "vlan", vlan |-> v].second = "vlan"
             /\ [obj |-> x, second |-> v].second = v
  OBVIOUS
<1>2. CASE \E n \in DOMAIN ps, v \in Vlans \cup {None} :
            /\ up = [obj |-> ps[n], second |-> "vlan", vlan |-> v]
            /\ Whole([decision |-> h[ps[n]].decision, vlan |-> v])
            /\ \A j \in DOMAIN ps : j # n => Whole(h[ps[j]])
  <2>1. up.second = "vlan"
    BY <1>1, <1>2
  <2>2. up.second \notin {"index", "unindex"}
    BY <2>1
  <2> QED
    BY <1>2, <2>2
<1>3. CASE \E o \in DOMAIN h, kind \in {"index", "unindex"} :
            /\ up = [obj |-> o, second |-> kind]
            /\ h[o] \in Policy
            /\ \A n \in DOMAIN ps : Whole(h[ps[n]])
  <2>1. up.second \in {"index", "unindex"}
    BY <1>1, <1>3
  <2>2. up.second # "vlan"
    BY <2>1
  <2> QED
    BY <1>3, <2>2
<1> QED
  BY <1>2, <1>3 DEF UpdateSound

\* An insertion that leaves the dictionaries as they are.
LEMMA PutMoves ==
    ASSUME NEW h, NEW ds, NEW cs, NEW ps, Sound(h, ds, cs, ps), NEW v \in Objects,
           NEW o, o = Cardinality(DOMAIN h) + 1, NEW h2, h2 = Put(h, o, v)
    PROVE  /\ o \notin DOMAIN h
           /\ Sound(h2, ds, cs, ps)
           /\ Moves(h, ds, cs, ps, h2, ds, cs, ps)
           /\ \A x \in DOMAIN h : h2[x] = h[x]
<1>1. /\ o \notin DOMAIN h /\ Sound(h2, ds, cs, ps) /\ KindsKept(h, h2)
      /\ \A x \in DOMAIN h : h2[x] = h[x]
  BY HeapPut
<1>2. NamesKept(h, ds, ds) /\ NamesKept(h, cs, cs) /\ NamesKept(h, ps, ps)
  BY DEF NamesKept
<1> QED
  BY <1>1, <1>2 DEF Moves

\* A change of an object that is listed.
LEMMA EditMoves ==
    ASSUME NEW h, NEW ds, NEW cs, NEW ps, Sound(h, ds, cs, ps),
           NEW o \in DOMAIN h, NEW h2, DOMAIN h2 = DOMAIN h,
           \A x \in DOMAIN h : x # o => h2[x] = h[x],
           \/ h[o] \in Device /\ h2[o] \in Device
           \/ h[o] \in Member /\ h2[o] \in Member
           \/ /\ h[o] \in Policy /\ h2[o] \in Policy
              /\ h2[o].name = h[o].name /\ h2[o].group = h[o].group,
           Listed(o, ds, ds) \/ Listed(o, cs, cs) \/ Listed(o, ps, ps)
    PROVE  Sound(h2, ds, cs, ps) /\ Moves(h, ds, cs, ps, h2, ds, cs, ps)
<1>1. Sound(h2, ds, cs, ps) /\ KindsKept(h, h2)
  BY HeapEdit
<1>2. NamesKept(h, ds, ds) /\ NamesKept(h, cs, cs) /\ NamesKept(h, ps, ps)
  BY DEF NamesKept
<1> QED
  BY <1>1, <1>2 DEF Moves

\* The objects of the dictionaries.
LEMMA NamedObjects ==
    ASSUME NEW h, NEW ds, NEW cs, NEW ps, Sound(h, ds, cs, ps)
    PROVE  /\ \A n \in DOMAIN ds : /\ ds[n] \in DOMAIN h /\ h[ds[n]] \in Device
                                   /\ Listed(ds[n], ds, ds)
           /\ \A k \in DOMAIN cs : /\ cs[k] \in DOMAIN h /\ h[cs[k]] \in Member
                                   /\ Listed(cs[k], cs, cs)
           /\ \A g \in DOMAIN ps : /\ ps[g] \in DOMAIN h /\ h[ps[g]] \in Policy
                                   /\ Listed(ps[g], ps, ps)
BY DEF Sound, NamesObjects, Listed

\* A step of an administrator, as the proofs see it.
Moved ==
    /\ Sound(heap', devices', clients', policies')
    /\ UpdateSound(heap', policies', update')
    /\ Moves(heap, devices, clients, policies, heap', devices', clients', policies')

\* An update that is not one of a policy leaves the policies whole.
LEMMA WholeKept ==
    ASSUME Sound(heap, devices, clients, policies),
           UpdateSound(heap, policies, update), update = NoUpdate, update' = update,
           \A g \in DOMAIN policies' :
                /\ g \in DOMAIN policies
                /\ heap'[policies'[g]] = heap[policies[g]]
    PROVE  UpdateSound(heap', policies', update')
<1>1. \A g \in DOMAIN policies : Whole(heap[policies[g]])
  BY NoUpdateMeans
<1> QED
  BY <1>1 DEF UpdateSound

\* create_device is a move.
LEMMA CreateDeviceMoves ==
    ASSUME MemoryOK, NEW n \in Devices, NEW a \in Addresses, NEW s \in Secrets,
           CreateDevice(n, a, s)
    PROVE  Moved
<1> DEFINE v == [address |-> a, secret |-> s]
           o == NewObject
<1>1. Sound(heap, devices, clients, policies) /\ UpdateSound(heap, policies, update)
  BY DEF MemoryOK
<1>2. /\ heap' = Put(heap, o, v) /\ devices' = Put(devices, n, o)
      /\ clients' = clients /\ policies' = policies /\ update' = update
      /\ update = NoUpdate /\ o = Cardinality(DOMAIN heap) + 1
  BY DEF CreateDevice, Change, NewObject
<1>3. v \in Device /\ v \in Objects
  BY DEF Device, Objects
<1> HIDE DEF v, o
<1>4. /\ o \notin DOMAIN heap
      /\ Sound(heap', devices, clients, policies)
      /\ Moves(heap, devices, clients, policies, heap', devices, clients, policies)
      /\ \A x \in DOMAIN heap : heap'[x] = heap[x]
  BY <1>1, <1>2, <1>3, PutMoves
<1>5. NamesObjects(devices', Devices, heap', Device) /\ NamesKept(heap, devices, devices')
  <2>1. NamesObjects(devices, Devices, heap, Device)
    BY <1>1 DEF Sound
  <2> QED
    BY <2>1, <1>2, <1>3, <1>4, NamesPut
<1>6. Sound(heap', devices', clients', policies')
  BY <1>2, <1>4, <1>5 DEF Sound
<1>7. Moves(heap, devices, clients, policies, heap', devices', clients', policies')
  BY <1>2, <1>4, <1>5 DEF Moves
<1>8. UpdateSound(heap', policies', update')
  BY <1>1, <1>2, <1>4, WholeKept, NamedObjects
<1> QED
  BY <1>6, <1>7, <1>8 DEF Moved

\* delete_device is a move.
LEMMA DeleteDeviceMoves ==
    ASSUME MemoryOK, NEW n \in Devices, DeleteDevice(n)
    PROVE  Moved
<1>1. Sound(heap, devices, clients, policies) /\ UpdateSound(heap, policies, update)
  BY DEF MemoryOK
<1>2. /\ devices' = Drop(devices, n) /\ heap' = heap
      /\ clients' = clients /\ policies' = policies /\ update' = update
      /\ update = NoUpdate
  BY DEF DeleteDevice, Change
<1>3. NamesObjects(devices', Devices, heap, Device) /\ NamesKept(heap, devices, devices')
  BY <1>1, <1>2, NamesDrop DEF Sound
<1>4. Sound(heap', devices', clients', policies')
  BY <1>1, <1>2, <1>3 DEF Sound
<1>5. Moves(heap, devices, clients, policies, heap', devices', clients', policies')
  BY <1>2, <1>3 DEF Moves, KindsKept, NamesKept
<1>6. UpdateSound(heap', policies', update')
  BY <1>1, <1>2, WholeKept
<1> QED
  BY <1>4, <1>5, <1>6 DEF Moved

\* update_device, of either field
LEMMA UpdateDeviceMoves ==
    ASSUME MemoryOK, NEW n \in Devices,
           \/ \E a \in Addresses : UpdateDeviceAddress(n, a)
           \/ \E s \in Secrets : UpdateDeviceSecret(n, s)
    PROVE  Moved
<1> DEFINE o == devices[n]
<1>1. Sound(heap, devices, clients, policies) /\ UpdateSound(heap, policies, update)
  BY DEF MemoryOK
<1>2. /\ n \in DOMAIN devices /\ devices' = devices
      /\ clients' = clients /\ policies' = policies /\ update' = update
      /\ update = NoUpdate
      /\ \/ \E a \in Addresses : heap' = [heap EXCEPT ![o].address = a]
         \/ \E s \in Secrets : heap' = [heap EXCEPT ![o].secret = s]
  BY DEF UpdateDeviceAddress, UpdateDeviceSecret, Change
<1>3. o \in DOMAIN heap /\ heap[o] \in Device /\ Listed(o, devices, devices)
  BY <1>1, <1>2, NamedObjects
<1> HIDE DEF o
<1>4. /\ DOMAIN heap' = DOMAIN heap /\ \A x \in DOMAIN heap : x # o => heap'[x] = heap[x]
      /\ heap'[o] \in Device
  <2>1. DOMAIN heap' = DOMAIN heap /\ \A x \in DOMAIN heap : x # o => heap'[x] = heap[x]
    BY <1>2
  <2>2. \/ \E a \in Addresses : heap'[o] = [heap[o] EXCEPT !.address = a]
        \/ \E s \in Secrets : heap'[o] = [heap[o] EXCEPT !.secret = s]
    BY <1>2, <1>3
  <2>3. heap'[o] \in Device
    BY <1>3, <2>2 DEF Device
  <2> QED
    BY <2>1, <2>3
<1>5. /\ Sound(heap', devices, clients, policies)
      /\ Moves(heap, devices, clients, policies, heap', devices, clients, policies)
  BY <1>1, <1>3, <1>4, EditMoves
<1>6. \A g \in DOMAIN policies : heap'[policies[g]] = heap[policies[g]]
  BY <1>1, <1>3, <1>4, NamedObjects, KindsDiffer
<1>7. UpdateSound(heap', policies', update')
  BY <1>1, <1>2, <1>6, WholeKept
<1> QED
  BY <1>2, <1>5, <1>7 DEF Moved

\* create_client is a move.
LEMMA CreateClientMoves ==
    ASSUME MemoryOK, NEW k \in Keys, NEW g \in Groups, CreateClient(k, g)
    PROVE  Moved
<1> DEFINE v == [group |-> g]
           o == NewObject
<1>1. Sound(heap, devices, clients, policies) /\ UpdateSound(heap, policies, update)
  BY DEF MemoryOK
<1>2. /\ heap' = Put(heap, o, v) /\ clients' = Put(clients, k, o)
      /\ devices' = devices /\ policies' = policies /\ update' = update
      /\ update = NoUpdate /\ o = Cardinality(DOMAIN heap) + 1
  BY DEF CreateClient, Change, NewObject
<1>3. v \in Member /\ v \in Objects
  BY DEF Member, Objects
<1> HIDE DEF v, o
<1>4. /\ o \notin DOMAIN heap
      /\ Sound(heap', devices, clients, policies)
      /\ Moves(heap, devices, clients, policies, heap', devices, clients, policies)
      /\ \A x \in DOMAIN heap : heap'[x] = heap[x]
  BY <1>1, <1>2, <1>3, PutMoves
<1>5. NamesObjects(clients', Keys, heap', Member) /\ NamesKept(heap, clients, clients')
  <2>1. NamesObjects(clients, Keys, heap, Member)
    BY <1>1 DEF Sound
  <2> QED
    BY <2>1, <1>2, <1>3, <1>4, NamesPut
<1>6. Sound(heap', devices', clients', policies')
  BY <1>2, <1>4, <1>5 DEF Sound
<1>7. Moves(heap, devices, clients, policies, heap', devices', clients', policies')
  BY <1>2, <1>4, <1>5 DEF Moves
<1>8. UpdateSound(heap', policies', update')
  BY <1>1, <1>2, <1>4, WholeKept, NamedObjects
<1> QED
  BY <1>6, <1>7, <1>8 DEF Moved

\* delete_client is a move.
LEMMA DeleteClientMoves ==
    ASSUME MemoryOK, NEW k \in Keys, DeleteClient(k)
    PROVE  Moved
<1>1. Sound(heap, devices, clients, policies) /\ UpdateSound(heap, policies, update)
  BY DEF MemoryOK
<1>2. /\ clients' = Drop(clients, k) /\ heap' = heap
      /\ devices' = devices /\ policies' = policies /\ update' = update
      /\ update = NoUpdate
  BY DEF DeleteClient, Change
<1>3. NamesObjects(clients', Keys, heap, Member) /\ NamesKept(heap, clients, clients')
  BY <1>1, <1>2, NamesDrop DEF Sound
<1>4. Sound(heap', devices', clients', policies')
  BY <1>1, <1>2, <1>3 DEF Sound
<1>5. Moves(heap, devices, clients, policies, heap', devices', clients', policies')
  BY <1>2, <1>3 DEF Moves, KindsKept, NamesKept
<1>6. UpdateSound(heap', policies', update')
  BY <1>1, <1>2, WholeKept
<1> QED
  BY <1>4, <1>5, <1>6 DEF Moved

\* update_client is a move.
LEMMA UpdateClientMoves ==
    ASSUME MemoryOK, NEW k \in Keys, NEW g \in Groups, UpdateClient(k, g)
    PROVE  Moved
<1> DEFINE o == clients[k]
<1>1. Sound(heap, devices, clients, policies) /\ UpdateSound(heap, policies, update)
  BY DEF MemoryOK
<1>2. /\ k \in DOMAIN clients /\ devices' = devices
      /\ clients' = clients /\ policies' = policies /\ update' = update
      /\ update = NoUpdate
      /\ heap' = [heap EXCEPT ![o].group = g]
  BY DEF UpdateClient, Change
<1>3. o \in DOMAIN heap /\ heap[o] \in Member /\ Listed(o, clients, clients)
  BY <1>1, <1>2, NamedObjects
<1> HIDE DEF o
<1>4. /\ DOMAIN heap' = DOMAIN heap /\ \A x \in DOMAIN heap : x # o => heap'[x] = heap[x]
      /\ heap'[o] \in Member
  <2>1. DOMAIN heap' = DOMAIN heap /\ \A x \in DOMAIN heap : x # o => heap'[x] = heap[x]
    BY <1>2
  <2>2. heap'[o] = [heap[o] EXCEPT !.group = g]
    BY <1>2, <1>3
  <2>3. heap'[o] \in Member
    BY <1>3, <2>2 DEF Member
  <2> QED
    BY <2>1, <2>3
<1>5. /\ Sound(heap', devices, clients, policies)
      /\ Moves(heap, devices, clients, policies, heap', devices, clients, policies)
  BY <1>1, <1>3, <1>4, EditMoves
<1>6. \A j \in DOMAIN policies : heap'[policies[j]] = heap[policies[j]]
  BY <1>1, <1>3, <1>4, NamedObjects, KindsDiffer
<1>7. UpdateSound(heap', policies', update')
  BY <1>1, <1>2, <1>6, WholeKept
<1> QED
  BY <1>2, <1>5, <1>7 DEF Moved

\* The first assignment of create_policy: the new policy, which is whole, takes the
\* name.
LEMMA CreatePolicyMoves ==
    ASSUME MemoryOK, NEW n \in PolicyNames, NEW g \in Groups, NEW p \in Verdicts,
           CreatePolicy(n, g, p)
    PROVE  Moved
<1> DEFINE o == NewObject
           v == [name |-> n, group |-> g, decision |-> p.decision, vlan |-> p.vlan]
<1>1. Sound(heap, devices, clients, policies) /\ UpdateSound(heap, policies, update)
  BY DEF MemoryOK
<1>2. /\ heap' = Put(heap, o, v) /\ policies' = Put(policies, n, o)
      /\ devices' = devices /\ clients' = clients
      /\ update = NoUpdate /\ update' = [obj |-> o, second |-> "index"]
      /\ o = Cardinality(DOMAIN heap) + 1 /\ Whole(p)
  BY DEF CreatePolicy, Change, NewObject
<1>3. v \in Policy /\ v \in Objects /\ v.name = n
  BY DEF Objects, Policy, Verdicts
<1>9. Whole(v)
  BY <1>2 DEF Whole
<1> HIDE DEF o, v
<1>4. /\ o \notin DOMAIN heap
      /\ Sound(heap', devices, clients, policies)
      /\ Moves(heap, devices, clients, policies, heap', devices, clients, policies)
      /\ \A x \in DOMAIN heap : heap'[x] = heap[x]
  BY <1>1, <1>2, <1>3, PutMoves
<1>5. NamesObjects(policies', PolicyNames, heap', Policy) /\ NamesKept(heap, policies, policies')
  <2>1. NamesObjects(policies, PolicyNames, heap, Policy)
    BY <1>1 DEF Sound
  <2> QED
    BY <2>1, <1>2, <1>3, <1>4, NamesPut
<1>10. /\ DOMAIN policies' = DOMAIN policies \cup {n} /\ policies'[n] = o
       /\ \A j \in DOMAIN policies : j # n => policies'[j] = policies[j]
  BY <1>2 DEF Put
<1>11. heap'[o] = v /\ o \in DOMAIN heap'
  BY <1>2 DEF Put
<1>12. \A j \in DOMAIN policies' : heap'[policies'[j]].name = j
  BY <1>3, <1>4, <1>10, <1>11 DEF Sound
<1>6. Sound(heap', devices', clients', policies')
  BY <1>2, <1>4, <1>5, <1>12 DEF Sound
<1>7. Moves(heap, devices, clients, policies, heap', devices', clients', policies')
  BY <1>2, <1>4, <1>5 DEF Moves
<1>8. UpdateSound(heap', policies', update')
  <2>1. \A j \in DOMAIN policies : Whole(heap[policies[j]]) /\ policies[j] \in DOMAIN heap
    BY <1>1, <1>2, NoUpdateMeans, NamedObjects
  <2>2. \A j \in DOMAIN policies' : Whole(heap'[policies'[j]])
    BY <1>4, <1>9, <1>10, <1>11, <2>1
  <2>3. heap'[o] \in Policy
    BY <1>3, <1>11
  <2> QED
    BY <1>2, <1>11, <2>2, <2>3 DEF UpdateSound
<1> QED
  BY <1>6, <1>7, <1>8 DEF Moved

\* The first assignment of delete_policy.
LEMMA DeletePolicyMoves ==
    ASSUME MemoryOK, NEW n \in PolicyNames, DeletePolicy(n)
    PROVE  Moved
<1> DEFINE o == policies[n]
<1>1. Sound(heap, devices, clients, policies) /\ UpdateSound(heap, policies, update)
  BY DEF MemoryOK
<1>2. /\ policies' = Drop(policies, n) /\ heap' = heap
      /\ devices' = devices /\ clients' = clients /\ n \in DOMAIN policies
      /\ update = NoUpdate /\ update' = [obj |-> o, second |-> "unindex"]
  BY DEF DeletePolicy, Change
<1>3. NamesObjects(policies', PolicyNames, heap, Policy) /\ NamesKept(heap, policies, policies')
  BY <1>1, <1>2, NamesDrop DEF Sound
<1>7. /\ DOMAIN policies' = DOMAIN policies \ {n}
      /\ \A j \in DOMAIN policies \ {n} : policies'[j] = policies[j]
  BY <1>2, DropValues
<1>4. Sound(heap', devices', clients', policies')
  BY <1>1, <1>2, <1>3, <1>7 DEF Sound
<1>5. Moves(heap, devices, clients, policies, heap', devices', clients', policies')
  BY <1>2, <1>3 DEF Moves, KindsKept, NamesKept
<1>6. UpdateSound(heap', policies', update')
  <2>1. o \in DOMAIN heap /\ heap[o] \in Policy
    BY <1>1, <1>2, NamedObjects
  <2>2. \A j \in DOMAIN policies : Whole(heap[policies[j]])
    BY <1>1, <1>2, NoUpdateMeans
  <2> HIDE DEF o
  <2> QED
    BY <1>2, <1>7, <2>1, <2>2 DEF UpdateSound
<1> QED
  BY <1>4, <1>5, <1>6 DEF Moved

\* The second assignment of either, to the index.
LEMMA IndexMoves ==
    ASSUME MemoryOK, IndexPolicy \/ UnindexPolicy
    PROVE  /\ Moved
           /\ update.obj \in DOMAIN heap /\ heap[update.obj] \in Policy
<1>1. Sound(heap, devices, clients, policies) /\ UpdateSound(heap, policies, update)
  BY DEF MemoryOK
<1>2. /\ heap' = heap /\ devices' = devices /\ clients' = clients /\ policies' = policies
      /\ update # NoUpdate /\ update' = NoUpdate /\ update.second \in {"index", "unindex"}
  BY DEF IndexPolicy, UnindexPolicy, Pending, Second
<1>3. PICK o \in DOMAIN heap, kind \in {"index", "unindex"} :
        /\ update = [obj |-> o, second |-> kind]
        /\ heap[o] \in Policy
        /\ \A n \in DOMAIN policies : Whole(heap[policies[n]])
  BY <1>1, <1>2, UpdateMeans
<1>4. Sound(heap', devices', clients', policies')
  BY <1>1, <1>2
<1>5. Moves(heap, devices, clients, policies, heap', devices', clients', policies')
  BY <1>2 DEF Moves, KindsKept, NamesKept
<1>6. UpdateSound(heap', policies', update')
  BY <1>2, <1>3 DEF UpdateSound
<1> QED
  BY <1>3, <1>4, <1>5, <1>6 DEF Moved

\* The first assignment of update_policy: the policy need not be whole, but it
\* will be when the second is made.
LEMMA AssignDecisionMoves ==
    ASSUME MemoryOK, NEW g \in PolicyNames, NEW p \in Verdicts, AssignDecision(g, p)
    PROVE  Moved
<1> DEFINE o == policies[g]
<1>1. Sound(heap, devices, clients, policies) /\ UpdateSound(heap, policies, update)
  BY DEF MemoryOK
<1>2. /\ g \in DOMAIN policies /\ devices' = devices
      /\ clients' = clients /\ policies' = policies
      /\ update = NoUpdate /\ Whole(p)
      /\ update' = [obj |-> o, second |-> "vlan", vlan |-> p.vlan]
      /\ heap' = [heap EXCEPT ![o].decision = p.decision]
  BY DEF AssignDecision, Change
<1>3. o \in DOMAIN heap /\ heap[o] \in Policy /\ Listed(o, policies, policies)
  BY <1>1, <1>2, NamedObjects
<1>4. \A j \in DOMAIN policies : j # g => policies[j] # o /\ policies[j] \in DOMAIN heap
  BY <1>1, <1>2 DEF Sound, NamesObjects
<1> HIDE DEF o
<1>5. /\ DOMAIN heap' = DOMAIN heap /\ \A x \in DOMAIN heap : x # o => heap'[x] = heap[x]
      /\ heap'[o] \in Policy /\ heap'[o].decision = p.decision
      /\ heap'[o].name = heap[o].name /\ heap'[o].group = heap[o].group
  <2>1. DOMAIN heap' = DOMAIN heap /\ \A x \in DOMAIN heap : x # o => heap'[x] = heap[x]
    BY <1>2
  <2>2. heap'[o] = [heap[o] EXCEPT !.decision = p.decision]
    BY <1>2, <1>3
  <2>3. /\ heap'[o] \in Policy /\ heap'[o].decision = p.decision
        /\ heap'[o].name = heap[o].name /\ heap'[o].group = heap[o].group
    BY <1>3, <2>2 DEF Policy, Verdicts
  <2> QED
    BY <2>1, <2>3
<1>6. /\ Sound(heap', devices, clients, policies)
      /\ Moves(heap, devices, clients, policies, heap', devices, clients, policies)
  BY <1>1, <1>3, <1>5, EditMoves
<1>7. UpdateSound(heap', policies', update')
  <2>1. \A j \in DOMAIN policies : j # g => Whole(heap'[policies[j]])
    BY <1>1, <1>2, <1>4, <1>5, NoUpdateMeans
  <2>2. Whole([decision |-> heap'[o].decision, vlan |-> p.vlan])
    BY <1>2, <1>5 DEF Whole
  <2>3. p.vlan \in Vlans \cup {None}
    BY DEF Verdicts
  <2>4. \E j \in DOMAIN policies, v \in Vlans \cup {None} :
            /\ update' = [obj |-> policies[j], second |-> "vlan", vlan |-> v]
            /\ Whole([decision |-> heap'[policies[j]].decision, vlan |-> v])
            /\ \A i \in DOMAIN policies : i # j => Whole(heap'[policies[i]])
    BY <1>2, <2>1, <2>2, <2>3 DEF o
  <2> QED
    BY <1>2, <2>4 DEF UpdateSound
<1> QED
  BY <1>2, <1>6, <1>7 DEF Moved

\* The second assignment of update_policy.
LEMMA AssignVlanMoves ==
    ASSUME MemoryOK, AssignVlan
    PROVE  Moved
<1>1. Sound(heap, devices, clients, policies) /\ UpdateSound(heap, policies, update)
  BY DEF MemoryOK
<1>2. /\ devices' = devices /\ clients' = clients /\ policies' = policies
      /\ update # NoUpdate /\ update.second = "vlan" /\ update' = NoUpdate
      /\ heap' = [heap EXCEPT ![update.obj].vlan = update.vlan]
  BY DEF AssignVlan, Pending, Second
<1>3. PICK g \in DOMAIN policies, v \in Vlans \cup {None} :
            /\ update = [obj |-> policies[g], second |-> "vlan", vlan |-> v]
            /\ Whole([decision |-> heap[policies[g]].decision, vlan |-> v])
            /\ \A j \in DOMAIN policies : j # g => Whole(heap[policies[j]])
  BY <1>1, <1>2, UpdateMeans
<1> DEFINE o == policies[g]
<1>4. heap' = [heap EXCEPT ![o].vlan = v]
  BY <1>2, <1>3
<1>5. o \in DOMAIN heap /\ heap[o] \in Policy /\ Listed(o, policies, policies)
  BY <1>1, NamedObjects
<1>6. \A j \in DOMAIN policies : j # g => policies[j] # o /\ policies[j] \in DOMAIN heap
  BY <1>1 DEF Sound, NamesObjects
<1> HIDE DEF o
<1>7. /\ DOMAIN heap' = DOMAIN heap /\ \A x \in DOMAIN heap : x # o => heap'[x] = heap[x]
      /\ heap'[o] \in Policy
      /\ heap'[o].decision = heap[o].decision /\ heap'[o].vlan = v
      /\ heap'[o].name = heap[o].name /\ heap'[o].group = heap[o].group
  <2>1. DOMAIN heap' = DOMAIN heap /\ \A x \in DOMAIN heap : x # o => heap'[x] = heap[x]
    BY <1>4
  <2>2. heap'[o] = [heap[o] EXCEPT !.vlan = v]
    BY <1>4, <1>5
  <2>3. /\ heap'[o] \in Policy
        /\ heap'[o].decision = heap[o].decision /\ heap'[o].vlan = v
        /\ heap'[o].name = heap[o].name /\ heap'[o].group = heap[o].group
    BY <1>5, <2>2 DEF Policy
  <2> QED
    BY <2>1, <2>3
<1>8. /\ Sound(heap', devices, clients, policies)
      /\ Moves(heap, devices, clients, policies, heap', devices, clients, policies)
  BY <1>1, <1>5, <1>7, EditMoves
<1>9. UpdateSound(heap', policies', update')
  <2>1. \A j \in DOMAIN policies : j # g => Whole(heap'[policies[j]])
    BY <1>3, <1>6, <1>7
  <2>2. Whole(heap'[o])
    BY <1>3, <1>7 DEF Whole, o
  <2>3. \A j \in DOMAIN policies : Whole(heap'[policies[j]])
    BY <2>1, <2>2 DEF o
  <2> QED
    BY <1>2, <2>3 DEF UpdateSound
<1> QED
  BY <1>2, <1>8, <1>9 DEF Moved

\* Whatever an administrator does is a move.
LEMMA AdministratorMoves ==
    ASSUME MemoryOK, Administrator
    PROVE  Moved
<1>1. CASE \E n \in Devices, a \in Addresses, s \in Secrets : CreateDevice(n, a, s)
  BY <1>1, CreateDeviceMoves
<1>2. CASE \E n \in Devices : DeleteDevice(n)
  BY <1>2, DeleteDeviceMoves
<1>3. CASE \E n \in Devices, a \in Addresses : UpdateDeviceAddress(n, a)
  BY <1>3, UpdateDeviceMoves
<1>4. CASE \E n \in Devices, s \in Secrets : UpdateDeviceSecret(n, s)
  BY <1>4, UpdateDeviceMoves
<1>5. CASE \E k \in Keys, g \in Groups : CreateClient(k, g)
  BY <1>5, CreateClientMoves
<1>6. CASE \E k \in Keys : DeleteClient(k)
  BY <1>6, DeleteClientMoves
<1>7. CASE \E k \in Keys, g \in Groups : UpdateClient(k, g)
  BY <1>7, UpdateClientMoves
<1>8. CASE \E n \in PolicyNames, g \in Groups, p \in Verdicts : CreatePolicy(n, g, p)
  BY <1>8, CreatePolicyMoves
<1>9. CASE \E n \in PolicyNames : DeletePolicy(n)
  BY <1>9, DeletePolicyMoves
<1>10. CASE \E n \in PolicyNames, p \in Verdicts : AssignDecision(n, p)
  BY <1>10, AssignDecisionMoves
<1>11. CASE IndexPolicy \/ UnindexPolicy
  BY <1>11, IndexMoves
<1>12. CASE AssignVlan
  BY <1>12, AssignVlanMoves
<1> QED
  BY <1>1, <1>2, <1>3, <1>4, <1>5, <1>6, <1>7, <1>8, <1>9, <1>10, <1>11, <1>12
     DEF Administrator

\* Whatever an administrator does, the index gives a group a name of its own.
LEMMA AdministratorIndexes ==
    ASSUME MemoryOK, Administrator
    PROVE  IndexNamed(heap', groupIndex')
<1>1. KindsKept(heap, heap')
  BY AdministratorMoves DEF Moved, Moves
<1>2. IndexNamed(heap, groupIndex)
  BY DEF MemoryOK
<1>3. \A g \in DOMAIN groupIndex : Named(heap', g, groupIndex[g])
  BY <1>1, <1>2, NamedStays DEF IndexNamed
<1>4. CASE groupIndex' = groupIndex
  BY <1>2, <1>3, <1>4 DEF IndexNamed
<1>5. CASE IndexPolicy
  <2> DEFINE o == update.obj
             g == heap[o].group
             n == heap[o].name
  <2>1. groupIndex' = Put(groupIndex, g, n) /\ heap' = heap
    BY <1>5 DEF IndexPolicy
  <2>2. o \in DOMAIN heap /\ heap[o] \in Policy
    BY <1>5, IndexMoves
  <2>3. g \in Groups /\ Named(heap, g, n)
    BY <2>2 DEF Policy, Named
  <2> HIDE DEF g, n, o
  <2>4. /\ DOMAIN groupIndex' = DOMAIN groupIndex \cup {g} /\ groupIndex'[g] = n
        /\ \A x \in DOMAIN groupIndex : x # g => groupIndex'[x] = groupIndex[x]
    BY <2>1 DEF Put
  <2>5. DOMAIN groupIndex' \subseteq Groups
    BY <1>2, <2>3, <2>4 DEF IndexNamed
  <2>6. ASSUME NEW x \in DOMAIN groupIndex' PROVE Named(heap', x, groupIndex'[x])
    <3>1. CASE x = g
      BY <2>1, <2>3, <2>4, <3>1
    <3>2. CASE x # g
      BY <1>3, <2>4, <3>2
    <3> QED
      BY <3>1, <3>2
  <2> QED
    BY <2>5, <2>6 DEF IndexNamed
<1>6. CASE UnindexPolicy
  <2> DEFINE g == heap[update.obj].group
  <2>1. groupIndex' = Drop(groupIndex, g)
    BY <1>6 DEF UnindexPolicy
  <2> HIDE DEF g
  <2>2. /\ DOMAIN groupIndex' = DOMAIN groupIndex \ {g}
        /\ \A x \in DOMAIN groupIndex \ {g} : groupIndex'[x] = groupIndex[x]
    BY <2>1, DropValues
  <2> QED
    BY <1>2, <1>3, <2>2 DEF IndexNamed
<1> QED
  BY <1>4, <1>5, <1>6
     DEF Administrator, CreateDevice, DeleteDevice, UpdateDeviceAddress,
         UpdateDeviceSecret, CreateClient, DeleteClient, UpdateClient,
         CreatePolicy, DeletePolicy, AssignDecision, AssignVlan

\* Every step of an administrator is observed; one that is not said to change
\* the devices leaves them and their addresses as they are.
SameDevices ==
    /\ devices' = devices
    /\ \A n \in DOMAIN devices : heap'[devices[n]].address = heap[devices[n]].address

Observed ==
    /\ UNCHANGED <<server, buffer, listener>>
    /\ \E kind \in {"devices", "other"} :
        Observe(kind) /\ (kind = "other" => SameDevices)

\* An object that is new, or is no device, can change.
LEMMA OtherObjects ==
    ASSUME MemoryOK, devices' = devices, NEW o,
           \/ o \notin DOMAIN heap
           \/ o \in DOMAIN heap /\ heap[o] \notin Device,
           \A x \in DOMAIN heap : x # o => heap'[x] = heap[x]
    PROVE  SameDevices
BY NamedObjects DEF MemoryOK, SameDevices

\* Whatever an administrator does is observed.
LEMMA AdministratorObserved ==
    ASSUME MemoryOK, Administrator
    PROVE  Observed
<1>1. Sound(heap, devices, clients, policies) /\ UpdateSound(heap, policies, update)
  BY DEF MemoryOK
<1>2. CASE \E n \in Devices, a \in Addresses, s \in Secrets : CreateDevice(n, a, s)
  BY <1>2 DEF CreateDevice, Change, Observed
<1>3. CASE \E n \in Devices : DeleteDevice(n)
  BY <1>3 DEF DeleteDevice, Change, Observed
<1>4. CASE \E n \in Devices, a \in Addresses : UpdateDeviceAddress(n, a)
  BY <1>4 DEF UpdateDeviceAddress, Change, Observed
<1>5. ASSUME NEW n \in Devices, NEW s \in Secrets, UpdateDeviceSecret(n, s)
      PROVE  Observed
  <2>1. /\ devices' = devices /\ heap' = [heap EXCEPT ![devices[n]].secret = s]
        /\ Observe("other") /\ UNCHANGED <<server, buffer, listener>>
    BY <1>5 DEF UpdateDeviceSecret, Change
  <2>2. ASSUME NEW m \in DOMAIN devices
        PROVE  heap'[devices[m]].address = heap[devices[m]].address
    <3>1. devices[m] \in DOMAIN heap /\ heap[devices[m]] \in Device
      BY <1>1, NamedObjects
    <3>2. \/ heap'[devices[m]] = heap[devices[m]]
          \/ heap'[devices[m]] = [heap[devices[m]] EXCEPT !.secret = s]
      BY <2>1, <3>1
    <3> QED
      BY <3>1, <3>2 DEF Device
  <2> QED
    BY <2>1, <2>2 DEF Observed, SameDevices
<1>6. ASSUME devices' = devices, Observe("other"), UNCHANGED <<server, buffer, listener>>,
             \/ heap' = heap
             \/ \E v : heap' = Put(heap, NewObject, v)
             \/ \E k \in DOMAIN clients : \E g : heap' = [heap EXCEPT ![clients[k]].group = g]
             \/ \E g \in DOMAIN policies : \E d : heap' = [heap EXCEPT ![policies[g]].decision = d]
             \/ \E g \in DOMAIN policies : \E v : heap' = [heap EXCEPT ![policies[g]].vlan = v]
      PROVE  Observed
  <2>1. CASE heap' = heap
    BY <1>6, <2>1 DEF Observed, SameDevices
  <2>2. CASE \E v : heap' = Put(heap, NewObject, v)
    <3>1. NewObject \notin DOMAIN heap
      <4>1. PICK n \in Nat : DOMAIN heap = 1..n
        BY <1>1 DEF Sound
      <4> QED
        BY <4>1, NewIsNew DEF NewObject
    <3>2. \A x \in DOMAIN heap : x # NewObject => heap'[x] = heap[x]
      BY <2>2 DEF Put
    <3> QED
      BY <1>6, <3>1, <3>2, OtherObjects DEF Observed
  <2>3. ASSUME NEW o \in DOMAIN heap, heap[o] \notin Device,
               \A x \in DOMAIN heap : x # o => heap'[x] = heap[x]
        PROVE  Observed
    BY <1>6, <2>3, OtherObjects DEF Observed
  <2>4. CASE \E k \in DOMAIN clients : \E g : heap' = [heap EXCEPT ![clients[k]].group = g]
    <3>1. PICK k \in DOMAIN clients : \E g : heap' = [heap EXCEPT ![clients[k]].group = g]
      BY <2>4
    <3>2. clients[k] \in DOMAIN heap /\ heap[clients[k]] \notin Device
      BY <1>1, NamedObjects, KindsDiffer
    <3>3. \A x \in DOMAIN heap : x # clients[k] => heap'[x] = heap[x]
      BY <3>1
    <3> QED
      BY <2>3, <3>2, <3>3
  <2>5. ASSUME NEW g \in DOMAIN policies,
               \/ \E d : heap' = [heap EXCEPT ![policies[g]].decision = d]
               \/ \E v : heap' = [heap EXCEPT ![policies[g]].vlan = v]
        PROVE  Observed
    <3>1. policies[g] \in DOMAIN heap /\ heap[policies[g]] \notin Device
      BY <1>1, NamedObjects, KindsDiffer
    <3>2. \A x \in DOMAIN heap : x # policies[g] => heap'[x] = heap[x]
      BY <2>5
    <3> QED
      BY <2>3, <3>1, <3>2
  <2> QED
    BY <1>6, <2>1, <2>2, <2>4, <2>5
<1>7. CASE \E k \in Keys, g \in Groups : CreateClient(k, g)
  BY <1>6, <1>7 DEF CreateClient, Change
<1>8. CASE \E k \in Keys : DeleteClient(k)
  BY <1>6, <1>8 DEF DeleteClient, Change
<1>9. CASE \E k \in Keys, g \in Groups : UpdateClient(k, g)
  BY <1>6, <1>9 DEF UpdateClient, Change
<1>10. CASE \E n \in PolicyNames, g \in Groups, p \in Verdicts : CreatePolicy(n, g, p)
  BY <1>6, <1>10 DEF CreatePolicy, Change
<1>11. CASE \E n \in PolicyNames : DeletePolicy(n)
  BY <1>6, <1>11 DEF DeletePolicy, Change
<1>12. CASE \E n \in PolicyNames, p \in Verdicts : AssignDecision(n, p)
  BY <1>6, <1>12 DEF AssignDecision, Change
<1>13. CASE AssignVlan
  <2>1. \E g \in DOMAIN policies : update.obj = policies[g]
    <3>1. update # NoUpdate /\ update.second = "vlan"
      BY <1>13 DEF AssignVlan, Pending
    <3>2. PICK g \in DOMAIN policies, v \in Vlans \cup {None} :
            /\ update = [obj |-> policies[g], second |-> "vlan", vlan |-> v]
            /\ Whole([decision |-> heap[policies[g]].decision, vlan |-> v])
            /\ \A j \in DOMAIN policies : j # g => Whole(heap[policies[j]])
      BY <1>1, <3>1, UpdateMeans
    <3> QED
      BY <3>2
  <2> QED
    BY <1>6, <1>13, <2>1 DEF AssignVlan, Second
<1>14. CASE IndexPolicy \/ UnindexPolicy
  BY <1>6, <1>14 DEF IndexPolicy, UnindexPolicy, Second
<1> QED
  BY <1>2, <1>3, <1>4, <1>5, <1>7, <1>8, <1>9, <1>10, <1>11, <1>12, <1>13, <1>14
     DEF Administrator

-----------------------------------------------------------------------------
(* The invariant, kept by what is not a listener *)

\* What Observe adds to what has been seen, and takes from what is calm.
LEMMA Observation ==
    ASSUME NEW kind \in {"devices", "other"}, Observe(kind), NEW l \in Starts,
           Handling(l)
    PROVE  /\ Grows(seen[l], seen'[l])
           /\ SeesNow(heap', devices', clients', policies', groupIndex', seen'[l])
           /\ calm'[l] = calm[l] \ {kind, "everything"}
<1> DEFINE now == FactsOf(heap', devices', clients', policies', groupIndex')
<1>1. seen'[l] = [f \in DOMAIN now |-> seen[l][f] \cup now[f]]
  BY DEF Observe
<1>2. calm'[l] = calm[l] \ {kind, "everything"}
  BY DEF Observe
<1>3. /\ DOMAIN now = {"addresses", "secrets", "groups", "index", "decisions", "vlans"}
      /\ now.addresses = {<<n, heap'[devices'[n]].address>> : n \in DOMAIN devices'}
      /\ now.secrets = {<<n, heap'[devices'[n]].secret>> : n \in DOMAIN devices'}
      /\ now.groups = {<<k, heap'[clients'[k]].group>> : k \in DOMAIN clients'}
      /\ now.index = {<<g, groupIndex'[g]>> : g \in DOMAIN groupIndex'}
      /\ now.decisions = {<<n, heap'[policies'[n]].group, heap'[policies'[n]].decision>> :
                            n \in DOMAIN policies'}
      /\ now.vlans = {<<n, heap'[policies'[n]].group, {heap'[policies'[n]].vlan} \ {None}>> :
                        n \in DOMAIN policies'}
  BY DEF FactsOf
<1> HIDE DEF now
<1>4. /\ seen'[l].addresses = seen[l].addresses \cup now.addresses
      /\ seen'[l].secrets = seen[l].secrets \cup now.secrets
      /\ seen'[l].groups = seen[l].groups \cup now.groups
      /\ seen'[l].index = seen[l].index \cup now.index
      /\ seen'[l].decisions = seen[l].decisions \cup now.decisions
      /\ seen'[l].vlans = seen[l].vlans \cup now.vlans
  BY <1>1, <1>3
<1>5. Grows(seen[l], seen'[l])
  BY <1>4 DEF Grows
<1>6. SeesNow(heap', devices', clients', policies', groupIndex', seen'[l])
  BY <1>3, <1>4 DEF SeesNow
<1> QED
  BY <1>2, <1>5, <1>6

\* A step of an administrator keeps the invariant.
LEMMA AdministratorKeeps ==
    ASSUME Inv, Administrator
    PROVE  Inv'
<1>1. MemoryOK /\ ServerOK /\ ListenersOK
  BY DEF Inv
<1>2. Moved /\ Observed
  BY <1>1, AdministratorMoves, AdministratorObserved
<1>3. PICK kind \in {"devices", "other"} : Observe(kind) /\ (kind = "other" => SameDevices)
  BY <1>2 DEF Observed
<1>4. /\ running' = running /\ socket' = socket /\ open' = open /\ control' = control
      /\ buffer' = buffer /\ listener' = listener
  BY <1>2 DEF Observed, server
<1>5. DOMAIN seen' = Starts /\ DOMAIN calm' = Starts
  BY <1>3 DEF Observe
<1>6. ServerOK'
  BY <1>1, <1>4, <1>5 DEF ServerOK
<1>7. MemoryOK'
  BY <1>1, <1>2, AdministratorIndexes DEF Moved, MemoryOK
<1>8. ASSUME NEW l \in Starts
      PROVE  Good(listener'[l], heap', devices', clients', policies', groupIndex', update',
                  seen'[l], calm'[l], socket')
  <2> DEFINE r == listener[l]
             sn == seen[l]
             sn2 == seen'[l]
             cl == calm[l]
             cl2 == calm'[l]
  <2>1. Good(r, heap, devices, clients, policies, groupIndex, update, sn, cl, socket)
    BY <1>1 DEF ListenersOK
  <2>2. ASSUME Handled(r)
        PROVE  /\ Grows(sn, sn2) /\ SeesNow(heap', devices', clients', policies', groupIndex', sn2)
               /\ "everything" \notin cl2
               /\ "devices" \in cl2 =>
                    /\ "devices" \in cl /\ devices' = devices
                    /\ \A n \in DOMAIN devices :
                            heap'[devices[n]].address = heap[devices[n]].address
    <3>1. Handling(l)
      BY <2>2 DEF Handled, Handling
    <3>2. /\ Grows(sn, sn2) /\ SeesNow(heap', devices', clients', policies', groupIndex', sn2)
          /\ cl2 = cl \ {kind, "everything"}
      BY <1>3, <3>1, Observation
    <3>3. "everything" \notin cl2 /\ ("devices" \in cl2 => "devices" \in cl /\ kind = "other")
      BY <3>2
    <3> QED
      BY <1>3, <3>2, <3>3 DEF SameDevices
  <2>3. /\ Sound(heap, devices, clients, policies)
        /\ Moves(heap, devices, clients, policies, heap', devices', clients', policies')
    BY <1>1, <1>2 DEF MemoryOK, Moved
  <2> HIDE DEF r, sn, sn2, cl, cl2
  <2>4. Good(r, heap', devices', clients', policies', groupIndex', update', sn2, cl2, socket)
    BY <2>1, <2>2, <2>3, GoodMoved
  <2> QED
    BY <1>4, <2>4 DEF r, sn2, cl2
<1>9. ListenersOK'
  BY <1>8 DEF ListenersOK
<1> QED
  BY <1>6, <1>7, <1>9 DEF Inv

\* The memory and the ghosts stay, the listeners but for l.
LEMMA OthersStay ==
    ASSUME Inv, UNCHANGED <<heap, devices, clients, policies, groupIndex, update>>,
           socket' \in Nat, socket <= socket', NEW l,
           \A m \in Starts : m # l =>
                listener'[m] = listener[m] /\ seen'[m] = seen[m] /\ calm'[m] = calm[m],
           l \in Starts => Good(listener'[l], heap, devices, clients, policies, groupIndex, update,
                                seen'[l], calm'[l], socket')
    PROVE  MemoryOK' /\ ListenersOK'
<1>1. MemoryOK'
  BY DEF Inv, MemoryOK
<1>2. ASSUME NEW m \in Starts, m # l
      PROVE  Good(listener'[m], heap', devices', clients', policies', groupIndex', update',
                  seen'[m], calm'[m], socket')
  <2>1. Good(listener[m], heap, devices, clients, policies, groupIndex, update,
             seen[m], calm[m], socket)
    BY DEF Inv, ListenersOK
  <2>2. ASSUME NEW k \in 1..socket PROVE k \in 1..socket'
    <3>1. socket \in Nat
      BY DEF Inv, ServerOK
    <3> QED
      BY <3>1
  <2>3. HoldsIn(listener[m], heap, socket')
    BY <2>1, <2>2 DEF Good, HoldsIn
  <2>4. Good(listener[m], heap, devices, clients, policies, groupIndex, update,
             seen[m], calm[m], socket')
    BY <2>1, <2>3 DEF Good
  <2> QED
    BY <1>2, <2>4
<1>3. ListenersOK'
  BY <1>2 DEF ListenersOK
<1> QED
  BY <1>1, <1>3

\* The arrival of a datagram keeps it.
LEMMA ArriveKeeps ==
    ASSUME Inv, NEW k \in Starts, NEW d \in Datagrams, Arrive(k, d)
    PROVE  Inv'
<1>1. /\ UNCHANGED <<heap, devices, clients, policies, groupIndex, update>>
      /\ UNCHANGED <<socket, open, control, listener, seen, calm>>
      /\ Bound(k) /\ buffer' = [buffer EXCEPT ![k] = <<d>>]
  BY DEF Arrive, memory, server, ghosts
<1>2. k <= socket
  <2>1. CASE k \in open
    BY <2>1 DEF Inv, ServerOK
  <2>2. ASSUME NEW l \in Starts, listener[l] = [at |-> "blocked", sock |-> k]
        PROVE  k \in 1..socket
    BY <2>2 DEF Inv, ListenersOK, Good, HoldsIn
  <2> QED
    BY <1>1, <2>1, <2>2 DEF Bound, Inv, ServerOK
<1>3. /\ DOMAIN buffer' = Starts /\ buffer'[k] = <<d>>
      /\ \A j \in Starts : j # k => buffer'[j] = buffer[j]
  BY <1>1 DEF Inv, ServerOK
<1>4. ServerOK'
  <2>1. ~(k > socket)
    BY <1>2 DEF Inv, ServerOK, Starts
  <2> QED
    BY <1>1, <1>3, <2>1 DEF Inv, ServerOK
<1>5. socket \in Nat /\ socket <= socket
  BY DEF Inv, ServerOK
<1>6. MemoryOK' /\ ListenersOK'
  BY <1>1, <1>5, OthersStay DEF Inv, ListenersOK
<1> QED
  BY <1>4, <1>6 DEF Inv

\* A listener that handles nothing knows nothing.
LEMMA GoodIdle ==
    ASSUME NEW r, NEW s, \/ r.at \in {"off", "top", "call"}
                         \/ r.at = "blocked" /\ r.sock \in 1..s,
           NEW h, NEW ds, NEW cs, NEW ps, NEW gi, NEW up, NEW sn, NEW cl
    PROVE  Good(r, h, ds, cs, ps, gi, up, sn, cl, s)
BY DEF Good, HoldsIn, Handled

\* A step of start or of stop keeps it.
LEMMA ControlKeeps ==
    ASSUME Inv, Control
    PROVE  Inv'
<1>1. /\ UNCHANGED <<heap, devices, clients, policies, groupIndex, update>>
      /\ UNCHANGED <<seen, calm>>
  BY DEF Control, StartBinds, StartRuns, StopClears, StopCloses, memory, ghosts
<1>2. socket \in Nat /\ DOMAIN listener = Starts /\ DOMAIN buffer = Starts
  BY DEF Inv, ServerOK
<1>3. CASE StartBinds
  <2>1. /\ socket' = socket + 1 /\ open' = open \cup {socket + 1} /\ control' = "starting"
        /\ control = "down" /\ socket < MaxStarts
        /\ UNCHANGED <<buffer, listener>>
    BY <1>3 DEF StartBinds
  <2>2. socket' \in Nat /\ socket <= socket' /\ socket' \in Starts /\ socket' <= MaxStarts
    BY <1>2, <2>1, BoundsAreNat DEF Starts
  <2>3. MemoryOK' /\ ListenersOK'
    <3>1. 0 \notin Starts
      BY DEF Starts
    <3> QED
      BY <1>1, <2>1, <2>2, <3>1, OthersStay
  <2>4. ServerOK'
    <3>1. open' \subseteq {socket'} \cap Starts
      BY <2>1, <2>2 DEF Inv, ServerOK
    <3>2. ASSUME NEW l \in Starts, l > socket' PROVE l > socket
      BY <1>2, <2>1, <3>2 DEF Starts
    <3> QED
      BY <1>1, <2>1, <2>2, <3>1, <3>2 DEF Inv, ServerOK
  <2> QED
    BY <2>3, <2>4 DEF Inv
<1>4. CASE StartRuns
  <2>1. /\ control' = "up" /\ listener' = [listener EXCEPT ![socket] = Top]
        /\ UNCHANGED <<socket, open, buffer>>
    BY <1>4 DEF StartRuns
  <2>2. /\ DOMAIN listener' = Starts
        /\ \A m \in Starts : m # socket => listener'[m] = listener[m]
        /\ socket \in Starts => listener'[socket] = Top
    BY <1>2, <2>1
  <2>3. MemoryOK' /\ ListenersOK'
    <3>1. socket \in Starts => Good(listener'[socket], heap, devices, clients, policies,
                                    groupIndex, update, seen'[socket], calm'[socket], socket')
      BY <2>2, GoodIdle DEF Top
    <3>2. socket' \in Nat /\ socket <= socket'
      BY <1>2, <2>1
    <3> QED
      BY <1>1, <2>2, <3>1, <3>2, OthersStay
  <2>4. ServerOK'
    <3>1. ~(socket > socket)
      BY <1>2
    <3> QED
      BY <1>1, <2>1, <2>2, <3>1 DEF Inv, ServerOK
  <2> QED
    BY <2>3, <2>4 DEF Inv
<1>5. ASSUME UNCHANGED <<socket, listener>> PROVE MemoryOK' /\ ListenersOK'
  <2>1. socket' \in Nat /\ socket <= socket'
    BY <1>2, <1>5
  <2> QED
    BY <1>1, <1>5, <2>1, OthersStay DEF Inv, ListenersOK
<1>6. CASE StopClears
  <2>1. control' = "stopping" /\ UNCHANGED <<socket, open, buffer, listener>>
    BY <1>6 DEF StopClears
  <2>2. ServerOK'
    BY <1>1, <2>1 DEF Inv, ServerOK
  <2> QED
    BY <1>5, <2>1, <2>2 DEF Inv
<1>7. CASE StopCloses
  <2>1. /\ open' = open \ {socket} /\ control' = "down"
        /\ UNCHANGED <<socket, listener>>
        /\ buffer' = buffer \/ buffer' = [buffer EXCEPT ![socket] = <<>>]
    BY <1>7 DEF StopCloses
  <2>2. open' = {}
    BY <2>1 DEF Inv, ServerOK
  <2>3. /\ DOMAIN buffer' = Starts
        /\ \A k \in Starts : buffer'[k] = buffer[k] \/ buffer'[k] = <<>>
    BY <1>2, <2>1
  <2>4. ServerOK'
    BY <1>1, <2>1, <2>2, <2>3 DEF Inv, ServerOK
  <2> QED
    BY <1>5, <2>1, <2>4 DEF Inv
<1> QED
  BY <1>3, <1>4, <1>6, <1>7 DEF Control

-----------------------------------------------------------------------------
(* The invariant, kept by a listener *)

\* A step of a listener within the handling of one datagram.
LEMMA GotoKeeps ==
    ASSUME Inv, NEW l \in Starts, listener[l].at # "off",
           NEW r, Goto(l, r), UNCHANGED <<buffer, sendFailed>>,
           Good(r, heap, devices, clients, policies, groupIndex, update, seen[l], calm[l], socket)
    PROVE  Inv'
<1>1. /\ UNCHANGED <<heap, devices, clients, policies, groupIndex, update>>
      /\ UNCHANGED <<socket, open, control, buffer, seen, calm>>
      /\ listener' = [listener EXCEPT ![l] = r]
  BY DEF Goto, memory, server, ghosts
<1>2. /\ DOMAIN listener' = Starts /\ listener'[l] = r
      /\ \A m \in Starts : m # l => listener'[m] = listener[m]
  BY <1>1 DEF Inv, ServerOK
<1>3. ~(l > socket) /\ ~(control = "starting" /\ l = socket)
  BY DEF Inv, ServerOK, Off
<1>4. ServerOK'
  BY <1>1, <1>2, <1>3 DEF Inv, ServerOK
<1>5. socket' \in Nat /\ socket <= socket'
  BY <1>1 DEF Inv, ServerOK
<1>6. Good(listener'[l], heap, devices, clients, policies, groupIndex, update,
           seen'[l], calm'[l], socket')
  BY <1>1, <1>2
<1>7. MemoryOK' /\ ListenersOK'
  BY <1>1, <1>2, <1>5, <1>6, OthersStay
<1> QED
  BY <1>4, <1>7 DEF Inv

\* The end of the handling of one datagram.
LEMMA FinishKeeps ==
    ASSUME Inv, NEW l \in Starts, listener[l].at # "off",
           NEW r \in {Top, Off}, Finish(l, r)
    PROVE  Inv'
<1>1. /\ UNCHANGED <<heap, devices, clients, policies, groupIndex, update>>
      /\ UNCHANGED <<socket, open, control, buffer>>
      /\ listener' = [listener EXCEPT ![l] = r]
      /\ seen' = [seen EXCEPT ![l] = NothingSeen]
      /\ calm' = [calm EXCEPT ![l] = {}]
  BY DEF Finish, memory, server
<1>2. /\ DOMAIN listener' = Starts /\ listener'[l] = r
      /\ DOMAIN seen' = Starts /\ DOMAIN calm' = Starts
      /\ \A m \in Starts : m # l =>
            listener'[m] = listener[m] /\ seen'[m] = seen[m] /\ calm'[m] = calm[m]
  BY <1>1 DEF Inv, ServerOK
<1>3. ~(l > socket) /\ ~(control = "starting" /\ l = socket)
  BY DEF Inv, ServerOK, Off
<1>4. ServerOK'
  BY <1>1, <1>2, <1>3 DEF Inv, ServerOK
<1>5. socket' \in Nat /\ socket <= socket'
  BY <1>1 DEF Inv, ServerOK
<1>6. Good(listener'[l], heap, devices, clients, policies, groupIndex, update,
           seen'[l], calm'[l], socket')
  <2>1. r.at \in {"off", "top", "call"}
    BY DEF Top, Off
  <2> QED
    BY <1>2, <2>1, GoodIdle
<1>7. MemoryOK' /\ ListenersOK'
  BY <1>1, <1>2, <1>5, <1>6, OthersStay
<1> QED
  BY <1>4, <1>7 DEF Inv

\* The test of _running.
LEMMA TestRunningKeeps ==
    ASSUME Inv, NEW l \in Starts, TestRunning(l)
    PROVE  Inv'
<1> DEFINE r == IF running THEN [at |-> "call"] ELSE Off
<1>1. listener[l].at # "off" /\ Goto(l, r) /\ UNCHANGED <<buffer, sendFailed>>
  BY DEF TestRunning
<1>2. r.at \in {"off", "call"}
  BY DEF Off
<1> HIDE DEF r
<1>3. Good(r, heap, devices, clients, policies, groupIndex, update, seen[l], calm[l], socket)
  BY <1>2, GoodIdle
<1> QED
  BY <1>1, <1>3, GotoKeeps

\* The call of recvfrom: the socket it blocks on is the latest.
LEMMA CallReceiveKeeps ==
    ASSUME Inv, NEW l \in Starts, CallReceive(l)
    PROVE  Inv'
<1> DEFINE r == IF socket \in open THEN [at |-> "blocked", sock |-> socket] ELSE Off
<1>1. listener[l].at # "off" /\ Goto(l, r) /\ UNCHANGED <<buffer, sendFailed>>
  BY DEF CallReceive
<1>2. \/ r.at = "off"
      \/ r.at = "blocked" /\ r.sock \in 1..socket
  <2>1. CASE socket \in open
    <3>1. socket \in Starts
      BY <2>1 DEF Inv, ServerOK
    <3>2. socket \in 1..socket
      BY <3>1 DEF Starts
    <3> QED
      BY <2>1, <3>2
  <2> QED
    BY <2>1 DEF Off
<1> HIDE DEF r
<1>3. Good(r, heap, devices, clients, policies, groupIndex, update, seen[l], calm[l], socket)
  BY <1>2, GoodIdle
<1> QED
  BY <1>1, <1>3, GotoKeeps

\* The return of recvfrom: what is true at that moment has been seen.
LEMMA ReceiveKeeps ==
    ASSUME Inv, NEW l \in Starts, Receive(l)
    PROVE  Inv'
<1> DEFINE k == listener[l].sock
           got == Head(buffer[k])
           parsed == ParsePacket(got.datagram)
<1>1. /\ listener[l].at = "blocked" /\ buffer[k] # <<>>
      /\ buffer' = [buffer EXCEPT ![k] = Tail(@)]
      /\ UNCHANGED <<heap, devices, clients, policies, groupIndex, update>>
      /\ UNCHANGED <<socket, open, control>>
      /\ \/ /\ listener' = [listener EXCEPT ![l] = Top]
            /\ UNCHANGED ghosts
         \/ /\ \E p \in parsed :
                    listener' = [listener EXCEPT ![l] =
                        [at |-> "scan", packet |-> p, from |-> got.from,
                         pos |-> 0, size |-> Cardinality(DOMAIN devices)]]
            /\ seen' = [seen EXCEPT ![l] = FactsOf(heap, devices, clients, policies, groupIndex)]
            /\ calm' = [calm EXCEPT ![l] =
                    {"devices"} \cup IF update = NoUpdate THEN {"everything"} ELSE {}]
  BY DEF Receive, memory, server
<1>2. k \in Starts
  <2>1. k \in 1..socket
    BY <1>1 DEF Inv, ListenersOK, Good, HoldsIn
  <2>2. socket \in Nat /\ socket <= MaxStarts
    BY DEF Inv, ServerOK
  <2> QED
    BY <2>1, <2>2, BoundsAreNat DEF Starts
<1> HIDE DEF k, got, parsed
<1>3. socket \in Nat /\ socket' \in Nat /\ socket <= socket' /\ socket' = socket
  BY <1>1 DEF Inv, ServerOK
<1>4. ~(l > socket) /\ ~(control = "starting" /\ l = socket)
  BY <1>1 DEF Inv, ServerOK, Off
<1>5. /\ DOMAIN buffer' = Starts
      /\ \A j \in Starts : buffer'[j] = buffer[j] \/ buffer'[j] = <<>>
  <2>1. PICK d \in Datagrams : buffer[k] = <<d>>
    BY <1>1, <1>2 DEF Inv, ServerOK
  <2>2. Tail(<<d>>) = <<>>
    OBVIOUS
  <2>3. buffer'[k] = <<>> /\ DOMAIN buffer' = Starts
    BY <1>1, <1>2, <2>1, <2>2 DEF Inv, ServerOK
  <2> QED
    BY <1>1, <2>3 DEF Inv, ServerOK
<1>6. /\ DOMAIN listener = Starts /\ DOMAIN seen = Starts /\ DOMAIN calm = Starts
  BY DEF Inv, ServerOK
<1>7. /\ DOMAIN listener' = Starts /\ DOMAIN seen' = Starts /\ DOMAIN calm' = Starts
      /\ \A m \in Starts : m # l =>
            listener'[m] = listener[m] /\ seen'[m] = seen[m] /\ calm'[m] = calm[m]
  BY <1>1, <1>6 DEF ghosts
<1>8. ServerOK'
  BY <1>1, <1>3, <1>4, <1>5, <1>7 DEF Inv, ServerOK
<1>9. Good(listener'[l], heap, devices, clients, policies, groupIndex, update,
           seen'[l], calm'[l], socket')
  <2>1. CASE listener' = [listener EXCEPT ![l] = Top]
    <3>1. listener'[l].at = "top"
      BY <1>6, <2>1 DEF Top
    <3> QED
      BY <3>1, GoodIdle
  <2>2. CASE /\ \E p \in parsed :
                    listener' = [listener EXCEPT ![l] =
                        [at |-> "scan", packet |-> p, from |-> got.from,
                         pos |-> 0, size |-> Cardinality(DOMAIN devices)]]
             /\ seen' = [seen EXCEPT ![l] = FactsOf(heap, devices, clients, policies, groupIndex)]
             /\ calm' = [calm EXCEPT ![l] =
                    {"devices"} \cup IF update = NoUpdate THEN {"everything"} ELSE {}]
    <3>1. PICK p \in parsed :
                listener'[l] = [at |-> "scan", packet |-> p, from |-> got.from,
                                pos |-> 0, size |-> Cardinality(DOMAIN devices)]
      BY <1>6, <2>2
    <3> DEFINE r == [at |-> "scan", packet |-> p, from |-> got.from,
                     pos |-> 0, size |-> Cardinality(DOMAIN devices)]
               sn == FactsOf(heap, devices, clients, policies, groupIndex)
    <3>2. /\ r.at = "scan" /\ r.pos = 0 /\ r.size = Cardinality(DOMAIN devices)
          /\ ScanRecord(r)
      BY DEF ScanRecord
    <3>3. seen'[l] = sn /\ ("everything" \in calm'[l] => update = NoUpdate)
      BY <1>6, <2>2
    <3>4. SeesNow(heap, devices, clients, policies, groupIndex, sn)
      BY DEF SeesNow, FactsOf
    <3>5. Searching(r, heap, devices)
      <4>1. PICK n \in Nat : DOMAIN heap = 1..n
        BY DEF Inv, MemoryOK, Sound
      <4>2. \A m \in DOMAIN devices : devices[m] \in 1..n
        BY <4>1, NamedObjects DEF Inv, MemoryOK
      <4>3. \A x \in 1..n : x > 0
        OBVIOUS
      <4> QED
        BY <3>2, <4>2, <4>3 DEF Searching
    <3> HIDE DEF r, sn
    <3>6. HoldsIn(r, heap, socket') /\ Current(r, heap, clients, policies, groupIndex)
          /\ Knows(r, heap, devices, clients, policies, sn)
      BY <3>2 DEF HoldsIn, Current, Knows
    <3>7. Good(r, heap, devices, clients, policies, groupIndex, update, sn, calm'[l], socket')
      BY <3>2, <3>3, <3>4, <3>5, <3>6 DEF Good
    <3> QED
      BY <3>1, <3>3, <3>7 DEF r
  <2> QED
    BY <1>1, <2>1, <2>2
<1>10. MemoryOK' /\ ListenersOK'
  BY <1>1, <1>3, <1>7, <1>9, OthersStay
<1> QED
  BY <1>8, <1>10 DEF Inv

\* What the handling listener knows.
LEMMA HandlingGood ==
    ASSUME Inv, NEW l \in Starts, Handled(listener[l])
    PROVE  /\ HoldsIn(listener[l], heap, socket)
           /\ listener[l].at = "scan" => ScanRecord(listener[l])
           /\ SeesNow(heap, devices, clients, policies, groupIndex, seen[l])
           /\ Knows(listener[l], heap, devices, clients, policies, seen[l])
           /\ "everything" \in calm[l] =>
                update = NoUpdate /\ Current(listener[l], heap, clients, policies, groupIndex)
           /\ "devices" \in calm[l] /\ listener[l].at = "scan" =>
                Searching(listener[l], heap, devices)
           /\ Sound(heap, devices, clients, policies)
BY DEF Inv, MemoryOK, ListenersOK, Good

\* A turn of the loop over the devices, which finds the device or passes it.
LEMMA ScanTurnKeeps ==
    ASSUME Inv, NEW l \in Starts, ScanTurn(l)
    PROVE  Inv'
<1> DEFINE r == listener[l]
           sn == seen[l]
<1>1. r.at = "scan" /\ UNCHANGED <<buffer, sendFailed>>
  BY DEF ScanTurn
<1>2. PICK o \in Ahead(l) :
        /\ \A x \in Ahead(l) : o <= x
        /\ IF heap[o].address = r.from
           THEN Goto(l, [at |-> "client", device |-> o,
                         packet |-> r.packet, from |-> r.from])
           ELSE Goto(l, [r EXCEPT !.pos = o])
  BY DEF ScanTurn
<1>3. /\ HoldsIn(r, heap, socket) /\ ScanRecord(r)
      /\ SeesNow(heap, devices, clients, policies, groupIndex, sn)
      /\ "everything" \in calm[l] => update = NoUpdate
      /\ "devices" \in calm[l] => Searching(r, heap, devices)
      /\ Sound(heap, devices, clients, policies)
  BY <1>1, HandlingGood DEF Handled
<1>4. PICK n \in DOMAIN devices : devices[n] = o
  BY DEF Ahead
<1>5. /\ o \in DOMAIN heap /\ heap[o] \in Device /\ n \in Devices /\ NamedOnly(o, n, devices)
      /\ \A m \in DOMAIN devices : devices[m] \in DOMAIN heap
  BY <1>3, <1>4 DEF Sound, NamesObjects, NamedOnly
<1>6. CASE heap[o].address = r.from
  <2> DEFINE r2 == [at |-> "client", device |-> o, packet |-> r.packet, from |-> r.from]
  <2>1. r2.at = "client" /\ r2.device = o /\ r2.from = r.from
    OBVIOUS
  <2>2. Goto(l, r2)
    BY <1>2, <1>6
  <2> HIDE DEF r2
  <2>3. HoldsIn(r2, heap, socket)
    BY <1>5, <2>1 DEF HoldsIn
  <2>4. KnowsDevice(r2, heap, devices, sn)
    BY <1>3, <1>4, <1>5, <1>6, <2>1 DEF KnowsDevice, SeesNow
  <2>5. Knows(r2, heap, devices, clients, policies, sn) /\ Current(r2, heap, clients, policies, groupIndex)
    BY <2>1, <2>4 DEF Knows, Current
  <2>6. Good(r2, heap, devices, clients, policies, groupIndex, update, sn, calm[l], socket)
    BY <1>3, <2>1, <2>3, <2>5 DEF Good
  <2> QED
    BY <1>1, <2>2, <2>6, GotoKeeps
<1>7. CASE heap[o].address # r.from
  <2> DEFINE r2 == [r EXCEPT !.pos = o]
  <2>1. /\ r2 = [at |-> "scan", packet |-> r.packet, from |-> r.from,
                 pos |-> o, size |-> r.size]
    BY <1>1, <1>3 DEF ScanRecord
  <2>2. r2.at = "scan" /\ r2.from = r.from /\ r2.pos = o /\ r2.size = r.size
    BY <2>1
  <2>3. Goto(l, r2)
    BY <1>2, <1>7
  <2>4. PICK size \in Nat : DOMAIN heap = 1..size
    BY <1>3 DEF Sound
  <2>5. o \in Nat /\ \A m \in DOMAIN devices : devices[m] \in Nat
    BY <1>5, <2>4
  <2>6. ScanRecord(r2)
    BY <2>1, <2>2, <2>5 DEF ScanRecord
  <2> HIDE DEF r2
  <2>7. HoldsIn(r2, heap, socket)
    BY <2>2 DEF HoldsIn
  <2>8. Knows(r2, heap, devices, clients, policies, sn) /\ Current(r2, heap, clients, policies, groupIndex)
    BY <2>2 DEF Knows, Current
  <2>9. ASSUME Searching(r, heap, devices) PROVE Searching(r2, heap, devices)
    <3>1. ASSUME NEW m \in DOMAIN devices, heap[devices[m]].address = r.from
          PROVE  devices[m] > o
      <4>1. devices[m] > r.pos
        BY <2>9, <3>1 DEF Searching
      <4>2. o <= devices[m]
        BY <1>2, <4>1 DEF Ahead
      <4>3. devices[m] # o
        BY <1>7, <3>1
      <4> QED
        BY <2>5, <4>2, <4>3
    <3> QED
      BY <2>2, <2>9, <3>1 DEF Searching
  <2>10. Good(r2, heap, devices, clients, policies, groupIndex, update, sn, calm[l], socket)
    BY <1>3, <2>2, <2>6, <2>7, <2>8, <2>9 DEF Good
  <2> QED
    BY <1>1, <2>3, <2>10, GotoKeeps
<1> QED
  BY <1>6, <1>7

\* A listener that rejects, where a quiet one has no policy to go by.
LEMMA RejectKeeps ==
    ASSUME Inv, NEW l \in Starts, Handled(listener[l]),
           listener[l].device \in DOMAIN heap, heap[listener[l].device] \in Device,
           KnowsDevice(listener[l], heap, devices, seen[l]),
           Decide(l, "reject", None), UNCHANGED <<buffer, sendFailed>>,
           "everything" \in calm[l] =>
                VerdictIn(Key(listener[l].packet), heap, clients, policies, groupIndex)
                    = [decision |-> "reject", vlan |-> None]
    PROVE  Inv'
<1> DEFINE r == listener[l]
           sn == seen[l]
           r2 == [at |-> "build", device |-> r.device, packet |-> r.packet,
                  from |-> r.from, decision |-> "reject", vlan |-> None]
<1>1. /\ r2.at = "build" /\ r2.device = r.device /\ r2.from = r.from
      /\ r2.packet = r.packet /\ r2.decision = "reject" /\ r2.vlan = None
  OBVIOUS
<1>2. Goto(l, r2)
  BY DEF Decide
<1>3. /\ SeesNow(heap, devices, clients, policies, groupIndex, sn)
      /\ "everything" \in calm[l] => update = NoUpdate
  BY HandlingGood
<1> HIDE DEF r2
<1>4. HoldsIn(r2, heap, socket)
  BY <1>1 DEF HoldsIn, Decisions
<1>5. KnowsDevice(r2, heap, devices, sn) /\ KnowsVerdict(r2, heap, sn)
  BY <1>1 DEF KnowsDevice, KnowsVerdict
<1>6. Knows(r2, heap, devices, clients, policies, sn)
  BY <1>1, <1>5 DEF Knows
<1>7. "everything" \in calm[l] => Current(r2, heap, clients, policies, groupIndex)
  BY <1>1 DEF Current
<1>8. Good(r2, heap, devices, clients, policies, groupIndex, update, sn, calm[l], socket)
  BY <1>1, <1>3, <1>4, <1>6, <1>7 DEF Good
<1>9. r.at # "off"
  BY DEF Handled
<1> QED
  BY <1>2, <1>8, <1>9, GotoKeeps

\* The look-up of the client.
LEMMA LookUpClientKeeps ==
    ASSUME Inv, NEW l \in Starts, LookUpClient(l)
    PROVE  Inv'
<1> DEFINE r == listener[l]
           sn == seen[l]
           k == Key(r.packet)
<1>1. r.at = "client" /\ UNCHANGED <<buffer, sendFailed>>
  BY DEF LookUpClient
<1>2. IF k \in DOMAIN clients
      THEN Goto(l, [at |-> "group", device |-> r.device, packet |-> r.packet,
                    from |-> r.from, client |-> clients[k]])
      ELSE Decide(l, "reject", None)
  BY DEF LookUpClient, Key
<1>3. /\ HoldsIn(r, heap, socket)
      /\ SeesNow(heap, devices, clients, policies, groupIndex, sn)
      /\ Knows(r, heap, devices, clients, policies, sn)
      /\ "everything" \in calm[l] => update = NoUpdate
      /\ Sound(heap, devices, clients, policies)
  BY <1>1, HandlingGood DEF Handled
<1>4. r.device \in DOMAIN heap /\ heap[r.device] \in Device /\ KnowsDevice(r, heap, devices, sn)
  BY <1>1, <1>3 DEF HoldsIn, Knows
<1>5. CASE k \in DOMAIN clients
  <2> DEFINE r2 == [at |-> "group", device |-> r.device, packet |-> r.packet,
                    from |-> r.from, client |-> clients[k]]
  <2>1. /\ r2.at = "group" /\ r2.device = r.device /\ r2.from = r.from
        /\ r2.packet = r.packet /\ r2.client = clients[k]
    OBVIOUS
  <2>2. Goto(l, r2)
    BY <1>2, <1>5
  <2> HIDE DEF r2
  <2>3. clients[k] \in DOMAIN heap /\ heap[clients[k]] \in Member
    BY <1>3, <1>5, NamedObjects
  <2>4. HoldsIn(r2, heap, socket)
    BY <1>4, <2>1, <2>3 DEF HoldsIn
  <2>5. KnowsDevice(r2, heap, devices, sn)
    BY <1>4, <2>1 DEF KnowsDevice
  <2>6. KnowsClient(r2, heap, clients, sn)
    <3>1. NamedOnly(clients[k], k, clients)
      BY <1>3, <1>5 DEF NamedOnly, Sound, NamesObjects
    <3>2. <<k, heap[clients[k]].group>> \in sn.groups
      BY <1>3, <1>5 DEF SeesNow
    <3> QED
      BY <2>1, <3>1, <3>2 DEF KnowsClient
  <2>7. Knows(r2, heap, devices, clients, policies, sn) /\ Current(r2, heap, clients, policies, groupIndex)
    BY <1>5, <2>1, <2>5, <2>6 DEF Knows, Current
  <2>8. Good(r2, heap, devices, clients, policies, groupIndex, update, sn, calm[l], socket)
    BY <1>3, <2>1, <2>4, <2>7 DEF Good
  <2> QED
    BY <1>1, <2>2, <2>8, GotoKeeps
<1>6. CASE k \notin DOMAIN clients
  <2>1. Decide(l, "reject", None)
    BY <1>2, <1>6
  <2>2. VerdictIn(k, heap, clients, policies, groupIndex)
            = [decision |-> "reject", vlan |-> None]
    BY <1>6 DEF VerdictIn
  <2>3. Handled(r)
    BY <1>1 DEF Handled
  <2> QED
    BY <1>1, <1>4, <2>1, <2>2, <2>3, RejectKeeps
<1> QED
  BY <1>5, <1>6

\* The reading of the client's group.
LEMMA ReadGroupKeeps ==
    ASSUME Inv, NEW l \in Starts, ReadGroup(l)
    PROVE  Inv'
<1> DEFINE r == listener[l]
           sn == seen[l]
           r2 == [at |-> "index", device |-> r.device, packet |-> r.packet,
                  from |-> r.from, group |-> heap[r.client].group]
<1>1. r.at = "group" /\ Goto(l, r2) /\ UNCHANGED <<buffer, sendFailed>>
  BY DEF ReadGroup
<1>2. /\ r2.at = "index" /\ r2.device = r.device /\ r2.from = r.from
      /\ r2.packet = r.packet /\ r2.group = heap[r.client].group
  OBVIOUS
<1> HIDE DEF r2
<1>3. /\ HoldsIn(r, heap, socket)
      /\ SeesNow(heap, devices, clients, policies, groupIndex, sn)
      /\ Knows(r, heap, devices, clients, policies, sn)
      /\ "everything" \in calm[l] =>
            update = NoUpdate /\ Current(r, heap, clients, policies, groupIndex)
  BY <1>1, HandlingGood DEF Handled
<1>4. /\ r.device \in DOMAIN heap /\ heap[r.device] \in Device
      /\ r.client \in DOMAIN heap /\ heap[r.client] \in Member
      /\ KnowsDevice(r, heap, devices, sn) /\ KnowsClient(r, heap, clients, sn)
  BY <1>1, <1>3 DEF HoldsIn, Knows
<1>5. HoldsIn(r2, heap, socket)
  BY <1>2, <1>4 DEF HoldsIn
<1>6. KnowsDevice(r2, heap, devices, sn) /\ KnowsGroup(r2, sn)
  BY <1>2, <1>4 DEF KnowsDevice, KnowsClient, KnowsGroup, Member
<1>7. Knows(r2, heap, devices, clients, policies, sn)
  BY <1>2, <1>6 DEF Knows
<1>8. Current(r2, heap, clients, policies, groupIndex) \/ "everything" \notin calm[l]
  BY <1>1, <1>2, <1>3 DEF Current
<1>9. Good(r2, heap, devices, clients, policies, groupIndex, update, sn, calm[l], socket)
  BY <1>2, <1>3, <1>5, <1>7, <1>8 DEF Good
<1> QED
  BY <1>1, <1>9, GotoKeeps

\* The look-up of the name in the index.
LEMMA FindNameKeeps ==
    ASSUME Inv, NEW l \in Starts, FindName(l)
    PROVE  Inv'
<1> DEFINE r == listener[l]
           sn == seen[l]
           k == Key(r.packet)
           g == r.group
<1>1. r.at = "index" /\ UNCHANGED <<buffer, sendFailed>>
  BY DEF FindName
<1>2. IF g \in DOMAIN groupIndex
      THEN Goto(l, [at |-> "name", device |-> r.device, packet |-> r.packet,
                    from |-> r.from, name |-> groupIndex[g]])
      ELSE Decide(l, "reject", None)
  BY DEF FindName
<1>3. /\ HoldsIn(r, heap, socket)
      /\ SeesNow(heap, devices, clients, policies, groupIndex, sn)
      /\ Knows(r, heap, devices, clients, policies, sn)
      /\ "everything" \in calm[l] =>
            update = NoUpdate /\ Current(r, heap, clients, policies, groupIndex)
  BY <1>1, HandlingGood DEF Handled
<1>4. /\ r.device \in DOMAIN heap /\ heap[r.device] \in Device
      /\ KnowsDevice(r, heap, devices, sn) /\ KnowsGroup(r, sn)
  BY <1>1, <1>3 DEF HoldsIn, Knows
<1>5. "everything" \in calm[l] => k \in DOMAIN clients /\ heap[clients[k]].group = g
  BY <1>1, <1>3 DEF Current
<1> HIDE DEF k
<1>6. CASE g \in DOMAIN groupIndex
  <2> DEFINE r2 == [at |-> "name", device |-> r.device, packet |-> r.packet,
                    from |-> r.from, name |-> groupIndex[g]]
  <2>1. /\ r2.at = "name" /\ r2.device = r.device /\ r2.from = r.from
        /\ r2.packet = r.packet /\ r2.name = groupIndex[g]
    OBVIOUS
  <2>2. Goto(l, r2)
    BY <1>2, <1>6
  <2> HIDE DEF r2
  <2>3. HoldsIn(r2, heap, socket)
    BY <1>4, <2>1 DEF HoldsIn
  <2>4. KnowsDevice(r2, heap, devices, sn)
    BY <1>4, <2>1 DEF KnowsDevice
  <2>5. KnowsName(r2, heap, sn)
    <3>1. g \in Groups /\ <<Key(r.packet), g>> \in sn.groups
      BY <1>4 DEF KnowsGroup
    <3>2. <<g, groupIndex[g]>> \in sn.index
      BY <1>3, <1>6 DEF SeesNow
    <3>3. Named(heap, g, groupIndex[g])
      BY <1>6 DEF Inv, MemoryOK, IndexNamed
    <3> HIDE DEF g
    <3> QED
      BY <2>1, <3>1, <3>2, <3>3 DEF KnowsName
  <2>6. Knows(r2, heap, devices, clients, policies, sn)
    BY <2>1, <2>4, <2>5 DEF Knows
  <2>7. "everything" \in calm[l] => Current(r2, heap, clients, policies, groupIndex)
    BY <1>5, <1>6, <2>1 DEF Current, k
  <2>8. Good(r2, heap, devices, clients, policies, groupIndex, update, sn, calm[l], socket)
    BY <1>3, <2>1, <2>3, <2>6, <2>7 DEF Good
  <2> QED
    BY <1>1, <2>2, <2>8, GotoKeeps
<1>7. CASE g \notin DOMAIN groupIndex
  <2>1. Decide(l, "reject", None)
    BY <1>2, <1>7
  <2>2. "everything" \in calm[l] =>
            VerdictIn(k, heap, clients, policies, groupIndex)
                = [decision |-> "reject", vlan |-> None]
    BY <1>5, <1>7 DEF VerdictIn
  <2>3. Handled(r)
    BY <1>1 DEF Handled
  <2> QED
    BY <1>1, <1>4, <2>1, <2>2, <2>3, RejectKeeps DEF k
<1> QED
  BY <1>6, <1>7

\* The look-up of the policy that has the name now.
LEMMA FindPolicyKeeps ==
    ASSUME Inv, NEW l \in Starts, FindPolicy(l)
    PROVE  Inv'
<1> DEFINE r == listener[l]
           sn == seen[l]
           k == Key(r.packet)
           n == r.name
<1>1. r.at = "name" /\ UNCHANGED <<buffer, sendFailed>>
  BY DEF FindPolicy
<1>2. IF n \in DOMAIN policies
      THEN Goto(l, [at |-> "decision", device |-> r.device, packet |-> r.packet,
                    from |-> r.from, policy |-> policies[n]])
      ELSE Decide(l, "reject", None)
  BY DEF FindPolicy
<1>3. /\ HoldsIn(r, heap, socket)
      /\ SeesNow(heap, devices, clients, policies, groupIndex, sn)
      /\ Knows(r, heap, devices, clients, policies, sn)
      /\ "everything" \in calm[l] =>
            update = NoUpdate /\ Current(r, heap, clients, policies, groupIndex)
      /\ Sound(heap, devices, clients, policies)
  BY <1>1, HandlingGood DEF Handled
<1>4. /\ r.device \in DOMAIN heap /\ heap[r.device] \in Device
      /\ KnowsDevice(r, heap, devices, sn) /\ KnowsName(r, heap, sn)
  BY <1>1, <1>3 DEF HoldsIn, Knows
<1>5. "everything" \in calm[l] =>
        /\ k \in DOMAIN clients /\ heap[clients[k]].group \in DOMAIN groupIndex
        /\ groupIndex[heap[clients[k]].group] = n
  BY <1>1, <1>3 DEF Current
<1>6. CASE n \in DOMAIN policies
  <2> DEFINE o == policies[n]
             r2 == [at |-> "decision", device |-> r.device, packet |-> r.packet,
                    from |-> r.from, policy |-> o]
  <2>1. /\ r2.at = "decision" /\ r2.device = r.device /\ r2.from = r.from
        /\ r2.packet = r.packet /\ r2.policy = o
    OBVIOUS
  <2>2. Goto(l, r2)
    BY <1>2, <1>6
  <2> HIDE DEF r2
  <2>3. o \in DOMAIN heap /\ heap[o] \in Policy
    BY <1>3, <1>6, NamedObjects
  <2>4. heap[o].name = n
    BY <1>3, <1>6 DEF Sound
  <2>5. HoldsIn(r2, heap, socket)
    BY <1>4, <2>1, <2>3 DEF HoldsIn
  <2>6. KnowsDevice(r2, heap, devices, sn)
    BY <1>4, <2>1 DEF KnowsDevice
  <2>7. NamedOnly(o, n, policies)
    BY <1>3, <1>6 DEF NamedOnly, Sound, NamesObjects
  <2>8. SeenOf(heap[o], heap[o].decision, heap[o].vlan, sn)
    BY <1>3, <1>6, <2>4 DEF SeesNow, SeenOf
  <2>9. PICK g \in Groups : /\ <<k, g>> \in sn.groups
                            /\ <<g, n>> \in sn.index
                            /\ Named(heap, g, n)
    BY <1>4 DEF KnowsName
  <2>12. r2.at # "vlan"
    BY <2>1
  <2>13. "everything" \in calm[l] => Current(r2, heap, clients, policies, groupIndex)
    BY <1>5, <1>6, <2>1 DEF Current
  <2> HIDE DEF o, n
  <2>10. KnowsPolicy(r2, heap, policies, sn)
    BY <2>1, <2>4, <2>7, <2>8, <2>9, <2>12 DEF KnowsPolicy
  <2>11. Knows(r2, heap, devices, clients, policies, sn)
    BY <2>1, <2>6, <2>10 DEF Knows
  <2>14. Good(r2, heap, devices, clients, policies, groupIndex, update, sn, calm[l], socket)
    BY <1>3, <2>1, <2>5, <2>11, <2>13 DEF Good
  <2> QED
    BY <1>1, <2>2, <2>14, GotoKeeps
<1>7. CASE n \notin DOMAIN policies
  <2>1. Decide(l, "reject", None)
    BY <1>2, <1>7
  <2>2. "everything" \in calm[l] =>
            VerdictIn(k, heap, clients, policies, groupIndex)
                = [decision |-> "reject", vlan |-> None]
    BY <1>5, <1>7 DEF VerdictIn
  <2>3. Handled(r)
    BY <1>1 DEF Handled
  <2> QED
    BY <1>1, <1>4, <2>1, <2>2, <2>3, RejectKeeps
<1> QED
  BY <1>6, <1>7

\* The reading of the decision.
LEMMA ReadDecisionKeeps ==
    ASSUME Inv, NEW l \in Starts, ReadDecision(l)
    PROVE  Inv'
<1> DEFINE r == listener[l]
           sn == seen[l]
           r2 == [at |-> "vlan", device |-> r.device, packet |-> r.packet,
                  from |-> r.from, policy |-> r.policy,
                  decision |-> heap[r.policy].decision]
<1>1. r.at = "decision" /\ Goto(l, r2) /\ UNCHANGED <<buffer, sendFailed>>
  BY DEF ReadDecision
<1>2. /\ r2.at = "vlan" /\ r2.device = r.device /\ r2.from = r.from
      /\ r2.packet = r.packet /\ r2.policy = r.policy
      /\ r2.decision = heap[r.policy].decision
  OBVIOUS
<1> HIDE DEF r2
<1>3. /\ HoldsIn(r, heap, socket)
      /\ SeesNow(heap, devices, clients, policies, groupIndex, sn)
      /\ Knows(r, heap, devices, clients, policies, sn)
      /\ "everything" \in calm[l] => update = NoUpdate /\ Current(r, heap, clients, policies, groupIndex)
  BY <1>1, HandlingGood DEF Handled
<1>4. /\ r.device \in DOMAIN heap /\ heap[r.device] \in Device
      /\ r.policy \in DOMAIN heap /\ heap[r.policy] \in Policy
      /\ KnowsDevice(r, heap, devices, sn) /\ KnowsPolicy(r, heap, policies, sn)
  BY <1>1, <1>3 DEF HoldsIn, Knows
<1>5. HoldsIn(r2, heap, socket)
  BY <1>2, <1>4 DEF HoldsIn, Policy
<1>6. KnowsDevice(r2, heap, devices, sn) /\ KnowsPolicy(r2, heap, policies, sn)
  BY <1>2, <1>4 DEF KnowsDevice, KnowsPolicy, SeenOf
<1>7. Knows(r2, heap, devices, clients, policies, sn)
  BY <1>2, <1>6 DEF Knows
<1>8. Current(r2, heap, clients, policies, groupIndex) \/ "everything" \notin calm[l]
  BY <1>1, <1>2, <1>3 DEF Current
<1>9. Good(r2, heap, devices, clients, policies, groupIndex, update, sn, calm[l], socket)
  BY <1>2, <1>3, <1>5, <1>7, <1>8 DEF Good
<1> QED
  BY <1>1, <1>9, GotoKeeps

\* The reading of the VLAN, which may be that of a later update than the decision.
LEMMA ReadVlanKeeps ==
    ASSUME Inv, NEW l \in Starts, ReadVlan(l)
    PROVE  Inv'
<1> DEFINE r == listener[l]
           sn == seen[l]
           r2 == [at |-> "build", device |-> r.device, packet |-> r.packet,
                  from |-> r.from, decision |-> r.decision,
                  vlan |-> heap[r.policy].vlan]
<1>1. r.at = "vlan" /\ Goto(l, r2) /\ UNCHANGED <<buffer, sendFailed>>
  BY DEF ReadVlan, Decide
<1>2. /\ r2.at = "build" /\ r2.device = r.device /\ r2.from = r.from
      /\ r2.packet = r.packet /\ r2.decision = r.decision
      /\ r2.vlan = heap[r.policy].vlan
  OBVIOUS
<1> HIDE DEF r2
<1>3. /\ HoldsIn(r, heap, socket)
      /\ SeesNow(heap, devices, clients, policies, groupIndex, sn)
      /\ Knows(r, heap, devices, clients, policies, sn)
      /\ "everything" \in calm[l] => update = NoUpdate /\ Current(r, heap, clients, policies, groupIndex)
  BY <1>1, HandlingGood DEF Handled
<1>4. /\ r.device \in DOMAIN heap /\ heap[r.device] \in Device
      /\ r.policy \in DOMAIN heap /\ heap[r.policy] \in Policy /\ r.decision \in Decisions
      /\ KnowsDevice(r, heap, devices, sn) /\ KnowsPolicy(r, heap, policies, sn)
  BY <1>1, <1>3 DEF HoldsIn, Knows
<1>5. HoldsIn(r2, heap, socket)
  BY <1>2, <1>4 DEF HoldsIn, Policy
<1>10. KnowsVerdict(r2, heap, sn)
  <2> DEFINE p == heap[r.policy]
             k == Key(r.packet)
  <2>1. PICK g \in Groups : /\ <<k, g>> \in sn.groups
                            /\ <<g, p.name>> \in sn.index
                            /\ Named(heap, g, p.name)
                            /\ SeenOf(p, r.decision, p.vlan, sn)
    BY <1>1, <1>4 DEF KnowsPolicy
  <2>2. p.name \in PolicyNames /\ p.group \in Groups /\ Named(heap, p.group, p.name)
    BY <1>4 DEF Policy, Named
  <2>3. r2.vlan = p.vlan /\ Key(r2.packet) = k
    BY <1>2
  <2> HIDE DEF p, k
  <2>4. p.group = g \/ ReusedIn(heap, p.name)
    BY <2>1, <2>2, NamedTwice
  <2> QED
    BY <1>2, <2>1, <2>2, <2>3, <2>4 DEF KnowsVerdict, SeenOf
<1>6. KnowsDevice(r2, heap, devices, sn) /\ KnowsVerdict(r2, heap, sn)
  BY <1>2, <1>4, <1>10 DEF KnowsDevice
<1>7. Knows(r2, heap, devices, clients, policies, sn)
  BY <1>2, <1>6 DEF Knows
<1>8. Current(r2, heap, clients, policies, groupIndex) \/ "everything" \notin calm[l]
  BY <1>1, <1>2, <1>3 DEF Current, VerdictIn
<1>9. Good(r2, heap, devices, clients, policies, groupIndex, update, sn, calm[l], socket)
  BY <1>2, <1>3, <1>5, <1>7, <1>8 DEF Good
<1> QED
  BY <1>1, <1>9, GotoKeeps

\* What a device with the secret reads in the answer to its packet, and what the
\* log entry says, when the decision is this.
Says(answer, entry, packet, secret, decision) ==
    /\ answer.code = IF decision = "reject" THEN CODE_ACCESS_REJECT ELSE CODE_ACCESS_ACCEPT
    /\ Verifies(answer, packet.authenticator, secret)
    /\ \E p \in ParsePacket(answer) : p.identifier = packet.identifier
    /\ VlansIn(answer) = {entry.vlan} \ {None}

\* Answer and Entry agree with the decision and with each other.
LEMMA AnswerReads ==
    ASSUME NEW packet, NEW secret, NEW decision \in Decisions, NEW vlan \in Vlans \cup {None},
           NEW answer, answer = Answer(packet, secret, decision, vlan),
           NEW entry, entry = Entry(decision, vlan)
    PROVE  Says(answer, entry, packet, secret, decision)
<1> DEFINE v == IF decision = "accept_with_vlan" THEN vlan ELSE None
<1>1. entry.vlan = v
  BY DEF Entry
<1>2. v = None \/ v \in Vlans
  OBVIOUS
<1>3. None \notin Vlans /\ \A w \in Vlans : w \in VlanIds
  BY NoneIsNoVlan DEF VlanIds
<1>4. CASE decision = "reject"
  <2>1. answer = BuildAccessReject(packet, secret) /\ v = None
    BY <1>4 DEF Answer
  <2>2. /\ answer.code = CODE_ACCESS_REJECT
        /\ Verifies(answer, packet.authenticator, secret)
        /\ \E p : /\ ParsePacket(answer) = {p} /\ p.identifier = packet.identifier
                  /\ GetAttribute(p, ATTR_TUNNEL_PRIVATE_GROUP_ID) = {}
    BY <2>1, RejectReads
  <2> HIDE DEF v
  <2>3. VlansIn(answer) = {}
    BY <2>2 DEF VlansIn
  <2> QED
    BY <1>1, <1>4, <2>1, <2>2, <2>3 DEF Says
<1>5. CASE decision # "reject"
  <2>1. answer = BuildAccessAccept(packet, secret, v)
    BY <1>5 DEF Answer
  <2> HIDE DEF v
  <2>2. /\ answer.code = CODE_ACCESS_ACCEPT
        /\ Verifies(answer, packet.authenticator, secret)
        /\ \E p : /\ ParsePacket(answer) = {p} /\ p.identifier = packet.identifier
                  /\ GetAttribute(p, ATTR_TUNNEL_PRIVATE_GROUP_ID) =
                        IF v = None THEN {} ELSE {Ascii(v)}
    BY <1>2, <1>3, <2>1, AcceptReads
  <2>3. PICK p : /\ ParsePacket(answer) = {p} /\ p.identifier = packet.identifier
                 /\ GetAttribute(p, ATTR_TUNNEL_PRIVATE_GROUP_ID) =
                        IF v = None THEN {} ELSE {Ascii(v)}
    BY <2>2
  <2>4. VlansIn(answer) =
            {w \in Vlans : GetAttribute(p, ATTR_TUNNEL_PRIVATE_GROUP_ID) = {Ascii(w)}}
    BY <2>3 DEF VlansIn
  <2>5. VlansIn(answer) = {v} \ {None}
    <3>1. CASE v = None
      BY <2>3, <2>4, <3>1
    <3>2. CASE v # None
      <4>1. v \in Vlans /\ v \in VlanIds
        BY <1>2, <1>3, <3>2
      <4>2. \A w \in Vlans : {Ascii(v)} = {Ascii(w)} => w = v
        <5>1. ASSUME NEW w \in Vlans, {Ascii(v)} = {Ascii(w)} PROVE w = v
          <6>1. Ascii(v) = Ascii(w) /\ w \in VlanIds
            BY <1>3, <5>1
          <6> QED
            BY <4>1, <6>1, AsciiInjective
        <5> QED
          BY <5>1
      <4>3. VlansIn(answer) = {w \in Vlans : {Ascii(v)} = {Ascii(w)}}
        BY <2>3, <2>4, <3>2
      <4> QED
        BY <3>2, <4>1, <4>2, <4>3
    <3> QED
      BY <3>1, <3>2
  <2> QED
    BY <1>1, <1>5, <2>2, <2>3, <2>5 DEF Says
<1> QED
  BY <1>4, <1>5

\* The building of the answer: what it says has been earned.
LEMMA BuildAndLogKeeps ==
    ASSUME Inv, NEW l \in Starts, BuildAndLog(l)
    PROVE  Inv'
<1> DEFINE r == listener[l]
           sn == seen[l]
           secret == heap[r.device].secret
           answer == Answer(r.packet, secret, r.decision, r.vlan)
           entry == Entry(r.decision, r.vlan)
           r2 == [at |-> "send", packet |-> r.packet, from |-> r.from,
                  answer |-> answer, entry |-> entry]
           assigned == IF r.decision = "accept_with_vlan" THEN r.vlan ELSE None
           verdict == VerdictIn(Key(r.packet), heap, clients, policies, groupIndex)
<1>1. r.at = "build" /\ Goto(l, r2) /\ UNCHANGED <<buffer, sendFailed>>
  BY DEF BuildAndLog
<1>2. /\ r2.at = "send" /\ r2.from = r.from /\ r2.packet = r.packet
      /\ r2.answer = answer /\ r2.entry = entry
  OBVIOUS
<1>3. /\ entry.outcome = IF r.decision = "reject" THEN "failure" ELSE "success"
      /\ entry.vlan = assigned
  BY DEF Entry
<1>4. /\ HoldsIn(r, heap, socket)
      /\ SeesNow(heap, devices, clients, policies, groupIndex, sn)
      /\ Knows(r, heap, devices, clients, policies, sn)
      /\ "everything" \in calm[l] => update = NoUpdate /\ Current(r, heap, clients, policies, groupIndex)
      /\ Sound(heap, devices, clients, policies)
  BY <1>1, HandlingGood DEF Handled
<1>5. /\ r.device \in DOMAIN heap /\ heap[r.device] \in Device
      /\ r.decision \in Decisions /\ r.vlan \in Vlans \cup {None}
      /\ KnowsDevice(r, heap, devices, sn) /\ KnowsVerdict(r, heap, sn)
  BY <1>1, <1>4 DEF HoldsIn, Knows
<1>6. secret \in Secrets
  BY <1>5 DEF Device
<1>7. /\ answer.code = IF r.decision = "reject" THEN CODE_ACCESS_REJECT
                       ELSE CODE_ACCESS_ACCEPT
      /\ Verifies(answer, r.packet.authenticator, secret)
      /\ \E p \in ParsePacket(answer) : p.identifier = r.packet.identifier
      /\ VlansIn(answer) = {entry.vlan} \ {None}
  <2>1. r.decision \in Decisions /\ r.vlan \in Vlans \cup {None}
    BY <1>5
  <2> DEFINE packet == r.packet
             decision == r.decision
             vlan == r.vlan
  <2>2. answer = Answer(packet, secret, decision, vlan) /\ entry = Entry(decision, vlan)
    OBVIOUS
  <2>3. decision \in Decisions /\ vlan \in Vlans \cup {None}
    BY <2>1
  <2> HIDE DEF r, secret, packet, decision, vlan, answer, entry
  <2>4. Says(answer, entry, packet, secret, decision)
    BY <2>2, <2>3, AnswerReads
  <2> QED
    BY <2>4 DEF Says, packet, decision
<1>8. CODE_ACCESS_REJECT # CODE_ACCESS_ACCEPT
  BY DEF CODE_ACCESS_REJECT, CODE_ACCESS_ACCEPT
<1>9. PICK n \in Devices : /\ <<n, r.from>> \in sn.addresses
                           /\ <<n, secret>> \in sn.secrets
  BY <1>5 DEF KnowsDevice
<1> HIDE DEF r2, answer, entry, secret
<1>10. Fits(r2, sn)
  <2>1. (entry.outcome = "success") <=> (answer.code = CODE_ACCESS_ACCEPT)
    BY <1>3, <1>7, <1>8
  <2> QED
    BY <1>2, <1>6, <1>7, <1>9, <2>1 DEF Fits
<1>11. Earned(r2, heap, sn)
  <2>1. ASSUME answer.code = CODE_ACCESS_ACCEPT
        PROVE  \E g, q \in Groups, n1 \in PolicyNames, d \in Decisions \ {"reject"} :
                  /\ <<Key(r.packet), g>> \in sn.groups
                  /\ <<g, n1>> \in sn.index
                  /\ <<n1, q, d>> \in sn.decisions
                  /\ IF d = "accept_with_vlan" THEN <<n1, q, VlansIn(answer)>> \in sn.vlans
                     ELSE VlansIn(answer) = {}
                  /\ q = g \/ ReusedIn(heap, n1)
    <3>1. r.decision # "reject"
      BY <1>7, <1>8, <2>1
    <3>2. PICK g \in Groups, q \in Groups, n1 \in PolicyNames :
                /\ <<Key(r.packet), g>> \in sn.groups
                /\ <<g, n1>> \in sn.index
                /\ <<n1, q, r.decision>> \in sn.decisions
                /\ <<n1, q, {r.vlan} \ {None}>> \in sn.vlans
                /\ q = g \/ ReusedIn(heap, n1)
      BY <1>5, <3>1 DEF KnowsVerdict
    <3>3. IF r.decision = "accept_with_vlan" THEN VlansIn(answer) = {r.vlan} \ {None}
          ELSE VlansIn(answer) = {}
      BY <1>3, <1>7
    <3> HIDE DEF r
    <3> QED
      BY <1>5, <3>1, <3>2, <3>3
  <2> QED
    BY <1>2, <2>1 DEF Earned
<1>12. HoldsIn(r2, heap, socket) /\ Knows(r2, heap, devices, clients, policies, sn)
  BY <1>2, <1>10, <1>11 DEF HoldsIn, Knows
<1>13. ASSUME "everything" \in calm[l] PROVE Current(r2, heap, clients, policies, groupIndex)
  <2>1. r.decision = verdict.decision /\ r.vlan = verdict.vlan
    BY <1>1, <1>4, <1>13 DEF Current
  <2>2. Whole(verdict)
    <3>1. \A g \in DOMAIN policies : Whole(heap[policies[g]])
      BY <1>4, <1>13, NoUpdateMeans DEF Inv, MemoryOK
    <3>2. Whole([decision |-> "reject", vlan |-> None])
      BY DEF Whole
    <3> QED
      BY <3>1, <3>2 DEF VerdictIn
  <2> HIDE DEF verdict
  <2>3. {assigned} \ {None} = {verdict.vlan} \ {None}
    BY <2>1, <2>2 DEF Whole
  <2>4. VlansIn(r2.answer) = {verdict.vlan} \ {None}
    BY <1>2, <1>3, <1>7, <2>3
  <2>5. (r2.answer.code = CODE_ACCESS_REJECT) <=> (verdict.decision = "reject")
    BY <1>2, <1>7, <1>8, <2>1
  <2> QED
    BY <1>2, <2>4, <2>5 DEF Current, verdict
<1>14. Good(r2, heap, devices, clients, policies, groupIndex, update, sn, calm[l], socket)
  BY <1>2, <1>4, <1>12, <1>13 DEF Good
<1> QED
  BY <1>1, <1>14, GotoKeeps

\* A step of a listener keeps the invariant.
LEMMA ListenKeeps ==
    ASSUME Inv, NEW l \in Starts, Listen(l)
    PROVE  Inv'
<1>1. CASE TestRunning(l) \/ CallReceive(l) \/ Receive(l)
  BY <1>1, TestRunningKeeps, CallReceiveKeeps, ReceiveKeeps
<1>2. CASE ScanBreaks(l) \/ ScanEnds(l) \/ Send(l) \/ SendFails(l)
  <2>1. /\ listener[l].at # "off"
        /\ Finish(l, Top) \/ Finish(l, Off)
    BY <1>2 DEF ScanBreaks, ScanEnds, Send, SendFails
  <2> QED
    BY <2>1, FinishKeeps
<1>3. CASE ScanTurn(l) \/ LookUpClient(l)
  BY <1>3, ScanTurnKeeps, LookUpClientKeeps
<1>5. CASE ReadGroup(l) \/ FindName(l) \/ FindPolicy(l)
  BY <1>5, ReadGroupKeeps, FindNameKeeps, FindPolicyKeeps
<1>4. CASE ReadDecision(l) \/ ReadVlan(l) \/ BuildAndLog(l)
  BY <1>4, ReadDecisionKeeps, ReadVlanKeeps, BuildAndLogKeeps
<1> QED
  BY <1>1, <1>2, <1>3, <1>4, <1>5 DEF Listen

-----------------------------------------------------------------------------
(* The theorems *)

\* The invariant holds when the server is made.
LEMMA Initially ==
    ASSUME Init
    PROVE  Inv
<1>1. PICK c \in Configurations :
        /\ heap = c.heap /\ devices = c.devices /\ clients = c.clients
        /\ policies = c.policies /\ groupIndex = c.groupIndex
  BY DEF Init
<1>2. Loaded(heap, devices, clients, policies, groupIndex)
  BY <1>1, ConfigurationsAreLoaded
<1>3. MemoryOK
  <2>1. heap \in Seq(Objects)
    BY <1>2 DEF Loaded
  <2>2. /\ Len(heap) \in Nat /\ DOMAIN heap = 1..Len(heap)
        /\ \A o \in DOMAIN heap : heap[o] \in Objects
    BY <2>1
  <2>3. Sound(heap, devices, clients, policies)
    BY <1>2, <2>2 DEF Loaded, Sound
  <2>4. UpdateSound(heap, policies, update)
    BY <1>2 DEF Loaded, UpdateSound, Init
  <2>5. IndexNamed(heap, groupIndex)
    <3>1. \A n \in DOMAIN policies : /\ policies[n] \in DOMAIN heap
                                     /\ heap[policies[n]] \in Policy
                                     /\ heap[policies[n]].name = n
      BY <2>3 DEF Sound, NamesObjects
    <3>2. \A n \in DOMAIN policies : heap[policies[n]].group \in Groups
      BY <3>1 DEF Policy
    <3>3. ASSUME NEW g \in DOMAIN groupIndex
          PROVE  g \in Groups /\ Named(heap, g, groupIndex[g])
      <4>1. PICK n \in DOMAIN policies : heap[policies[n]].group = g
        BY <1>2 DEF Loaded
      <4>2. groupIndex[g] = n
        BY <1>2, <4>1 DEF Loaded
      <4> QED
        BY <3>1, <3>2, <4>1, <4>2 DEF Named
    <3> QED
      BY <3>3 DEF IndexNamed
  <2> QED
    BY <2>3, <2>4, <2>5 DEF MemoryOK
<1>4. ServerOK
  BY BoundsAreNat DEF Init, ServerOK
<1>5. ListenersOK
  <2>1. ASSUME NEW l \in Starts PROVE listener[l].at = "off"
    BY DEF Init, Off
  <2> QED
    BY <2>1, GoodIdle DEF ListenersOK
<1> QED
  BY <1>3, <1>4, <1>5 DEF Inv

\* A step that changes nothing keeps it.
LEMMA Stutters ==
    ASSUME Inv, UNCHANGED vars
    PROVE  Inv'
<1>1. /\ UNCHANGED <<heap, devices, clients, policies, groupIndex, update>>
      /\ UNCHANGED <<socket, open, control, buffer, listener, seen, calm>>
  BY DEF vars, memory, server, ghosts
<1> QED
  BY <1>1 DEF Inv, MemoryOK, ServerOK, ListenersOK

\* The inductive invariant of the server, for any administrators and any number of
\* starts.
THEOREM ServerInvariant == Spec => []Inv
<1>1. ASSUME Inv, [Next]_vars PROVE Inv'
  <2>1. CASE Administrator
    BY <1>1, <2>1, AdministratorKeeps
  <2>2. CASE Network
    BY <1>1, <2>2, ArriveKeeps DEF Network
  <2>3. CASE Control
    BY <1>1, <2>3, ControlKeeps
  <2>4. CASE \E l \in Starts : Listen(l)
    BY <1>1, <2>4, ListenKeeps
  <2>5. CASE UNCHANGED vars
    BY <1>1, <2>5, Stutters
  <2> QED
    BY <1>1, <2>1, <2>2, <2>3, <2>4, <2>5 DEF Next
<1> QED
  BY Initially, <1>1, PTL DEF Spec

\* Dictionaries and listeners refer to objects of the right kinds, also to deleted
\* ones; no socket but the latest is open.
THEOREM TypeCorrect == Spec => []TypeOK
<1>1. ASSUME Inv PROVE TypeOK
  <2>1. Sound(heap, devices, clients, policies)
    BY <1>1 DEF Inv, MemoryOK
  <2>2. DOMAIN heap = 1..Cardinality(DOMAIN heap)
    <3>1. PICK n \in Nat : DOMAIN heap = 1..n
      BY <2>1 DEF Sound
    <3> QED
      BY <3>1, NewIsNew
  <2>3. \A l \in Starts : Holds(listener[l])
    BY <1>1 DEF Inv, ListenersOK, Good, HoldsIn, Holds
  <2> QED
    BY <1>1, <2>1, <2>2, <2>3 DEF TypeOK, Sound, Inv, ServerOK
<1> QED
  BY ServerInvariant, <1>1, PTL

\* No Access-Accept is sent without a group the client was in, a name the index
\* gave that group, an accepting decision that a policy of the name had, and a VLAN
\* it had, each at some moment since the request came; and that policy was the
\* group's own unless policies of two groups have had the name.
THEOREM AcceptsAreEarned == Spec => []AcceptIsEarned
<1>1. ASSUME Inv PROVE AcceptIsEarned
  <2>1. ASSUME NEW l \in Starts, Sending(l) PROVE Earned(listener[l], heap, seen[l])
    BY <1>1, <2>1, HandlingGood DEF Sending, Handled, Knows
  <2> QED
    BY <2>1 DEF AcceptIsEarned, Earned, Reused, ReusedIn, KeyOf, Key
<1> QED
  BY ServerInvariant, <1>1, PTL

\* Every answer parses, repeats the identifier, verifies under a secret of a device
\* with the sender's address, and is logged as what it says.
THEOREM AnswersCanBeUsed == Spec => []AnswersFit
<1>1. ASSUME Inv PROVE AnswersFit
  <2>1. ASSUME NEW l \in Starts, Sending(l) PROVE Fits(listener[l], seen[l])
    BY <1>1, <2>1, HandlingGood DEF Sending, Handled, Knows
  <2> QED
    BY <2>1 DEF AnswersFit, Fits
<1> QED
  BY ServerInvariant, <1>1, PTL

\* A request during which nothing changes gets the answer of the policy the index
\* names for its client's group.
THEOREM QuietRequestsAreObeyed == Spec => []QuietRequestsGetPolicy
<1>1. ASSUME Inv PROVE QuietRequestsGetPolicy
  <2>1. ASSUME NEW l \in Starts, Sending(l), "everything" \in calm[l]
        PROVE  Current(listener[l], heap, clients, policies, groupIndex)
    BY <1>1, <2>1, HandlingGood DEF Sending, Handled
  <2> QED
    BY <2>1 DEF QuietRequestsGetPolicy, Sending, Current, Obeys, Verdict, VerdictIn, KeyOf, Key
<1> QED
  BY ServerInvariant, <1>1, PTL

\* parse_packet accepts exactly the datagrams whose attributes fill the declared
\* length, and build_packet gives back the bytes that were read.
THEOREM ParserIsRight == Spec => []ParserAgrees
<1>1. ASSUME Inv PROVE ParserAgrees
  <2>1. ASSUME NEW d, IsDatagram(d) PROVE ParsesRight(d)
    BY <2>1, PacketParses DEF ParsesRight
  <2>2. ParserInputsParseRight
    BY <2>1, DatagramsAreDatagrams DEF ParserInputsParseRight
  <2>3. ASSUME NEW k \in Starts, NEW i \in DOMAIN buffer[k]
        PROVE  ParsesRight(buffer[k][i].datagram)
    <3>1. \E d \in Datagrams : buffer[k] = <<d>>
      <4>1. DOMAIN <<>> = {}
        OBVIOUS
      <4> QED
        BY <1>1, <4>1 DEF Inv, ServerOK
    <3>2. \A d : \A j \in DOMAIN <<d>> : <<d>>[j] = d
      OBVIOUS
    <3>3. buffer[k][i] \in Datagrams
      BY <3>1, <3>2
    <3> QED
      BY <2>1, <3>3, DatagramsAreDatagrams
  <2> QED
    BY <2>2, <2>3 DEF ParserAgrees
<1> QED
  BY ServerInvariant, <1>1, PTL

\* A request that is dropped while no device changes comes from a stranger.
THEOREM DropsAreOfStrangers == Spec => OnlyStrangersAreDropped
<1> DEFINE Strangers ==
        \A l \in Starts :
            listener[l].at = "scan" /\ listener'[l] = Top /\ "devices" \in calm[l] =>
                \A n \in DOMAIN devices : heap[devices[n]].address # listener[l].from
<1>1. ASSUME Inv, [Next]_vars PROVE [Strangers]_vars
  <2>1. ASSUME Next, NEW l \in Starts, listener[l].at = "scan", listener'[l] = Top,
               "devices" \in calm[l]
        PROVE  \A n \in DOMAIN devices : heap[devices[n]].address # listener[l].from
    <3>1. Searching(listener[l], heap, devices)
      BY <1>1, <2>1, HandlingGood DEF Handled
    <3>2. listener'[l] # listener[l]
      BY <2>1 DEF Top
    <3>3. DOMAIN listener = Starts
      BY <1>1 DEF Inv, ServerOK
    <3>4. CASE Administrator
      <4>1. listener' = listener
        BY <1>1, <3>4, AdministratorObserved DEF Inv, Observed
      <4> QED
        BY <3>2, <4>1
    <3>5. CASE Network
      BY <3>2, <3>5 DEF Network, Arrive
    <3>6. CASE Control
      <4>1. CASE StartRuns
        <5>1. /\ listener' = [listener EXCEPT ![socket] = Top]
              /\ socket \in Starts => listener[socket] = Off
          BY <1>1, <4>1 DEF StartRuns, Inv, ServerOK
        <5>2. l # socket
          BY <2>1, <5>1 DEF Off
        <5> QED
          BY <3>2, <3>3, <5>1, <5>2
      <4>2. CASE StartBinds \/ StopClears \/ StopCloses
        BY <3>2, <4>2 DEF StartBinds, StopClears, StopCloses
      <4> QED
        BY <3>6, <4>1, <4>2 DEF Control
    <3>7. ASSUME NEW m \in Starts, Listen(m) PROVE m = l
      <4>1. \A x \in Starts : x # m => listener'[x] = listener[x]
        BY <3>3, <3>7
           DEF Listen, TestRunning, CallReceive, Receive, ScanBreaks, ScanEnds,
               ScanTurn, LookUpClient, ReadGroup, FindName, FindPolicy,
               ReadDecision, ReadVlan, BuildAndLog, Send, SendFails, Decide, Goto, Finish
      <4> QED
        BY <3>2, <4>1
    <3>8. CASE Listen(l)
      <4>1. CASE ScanEnds(l)
        <5>1. Ahead(l) = {}
          BY <4>1 DEF ScanEnds
        <5> QED
          BY <3>1, <5>1 DEF Ahead, Searching
      <4>2. CASE ScanBreaks(l)
        BY <3>1, <4>2 DEF ScanBreaks, Searching
      <4>3. CASE ScanTurn(l)
        <5>1. PICK o : \/ Goto(l, [at |-> "client", device |-> o,
                                  packet |-> listener[l].packet, from |-> listener[l].from])
                       \/ Goto(l, [listener[l] EXCEPT !.pos = o])
          BY <4>3 DEF ScanTurn
        <5>2. \/ listener'[l] = [at |-> "client", device |-> o,
                                packet |-> listener[l].packet, from |-> listener[l].from]
              \/ listener'[l] = [listener[l] EXCEPT !.pos = o]
          BY <3>3, <5>1 DEF Goto
        <5>3. listener'[l].at # "top"
          <6>1. ScanRecord(listener[l])
            BY <1>1, <2>1, HandlingGood DEF Handled
          <6> QED
            BY <2>1, <5>2, <6>1 DEF ScanRecord
        <5> QED
          BY <2>1, <5>3 DEF Top
      <4> QED
        BY <2>1, <3>8, <4>1, <4>2, <4>3
           DEF Listen, TestRunning, CallReceive, Receive, LookUpClient, ReadGroup,
               FindName, FindPolicy, ReadDecision, ReadVlan, BuildAndLog, Send, SendFails
    <3> QED
      BY <2>1, <3>4, <3>5, <3>6, <3>7, <3>8 DEF Next
  <2> QED
    BY <1>1, <2>1
<1> QED
  BY ServerInvariant, <1>1, PTL DEF Spec, OnlyStrangersAreDropped
=============================================================================
