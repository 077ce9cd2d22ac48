-------------------------- MODULE OtxSigningProofs --------------------------
(***************************************************************************)
(* The properties of OtxSigning, for all transactions and all OTXs.  That  *)
(* a signature binds what it is made over is that the bytes a hash is made *)
(* over can be read in only one way.  Most pieces say where they end: a    *)
(* fixed length, a length in front, a table.  The type of an output does   *)
(* not when it is missing, which is why SignatureBinds asks for the same   *)
(* signed types; and whether the segments in front are hashed is told by   *)
(* the fifth byte.                                                         *)
(***************************************************************************)
EXTENDS OtxSigning, Sums, SequenceTheorems, TLAPS

\* Induction up to a bound.
LEMMA UpToInduction ==
  ASSUME NEW m \in Nat, NEW Good, 0 \in Good, \A n \in 0..(m - 1) : n \in Good => n + 1 \in Good
  PROVE  \A n \in 0..m : n \in Good
<1> DEFINE Bad == {n \in 0..m : n \notin Good}
<1>1. SUFFICES ASSUME Bad # {} PROVE FALSE
  OBVIOUS
<1>2. Bad \subseteq Nat
  OBVIOUS
<1>3. PICK n \in Bad : \A k \in Bad : n <= k
  <2> HIDE DEF Bad
  <2> QED
    BY <1>1, <1>2, LeastNatural
<1>4. n \in 0..m /\ n \notin Good /\ n # 0
  OBVIOUS
<1>5. n - 1 \in 0..(m - 1) /\ n - 1 \in 0..m /\ ~(n <= n - 1) /\ n - 1 + 1 = n
  BY <1>4
<1>6. n - 1 \in Good
  <2>1. n - 1 \in Bad => n <= n - 1
    BY <1>3
  <2> QED
    BY <1>5, <2>1
<1> QED
  BY <1>4, <1>5, <1>6
-----------------------------------------------------------------------------
(***************************************************************************)
(* Concatenated sequences.                                                 *)
(***************************************************************************)
\* The recursive function FlattenSeq chooses, and the first parts put together.
Parts(seqs) ==
  CHOOSE f : f = [i \in 1..Len(seqs) |-> IF i = 1 THEN seqs[i] ELSE f[i - 1] \o seqs[i]]
UpTo(seqs, n) == IF n = 0 THEN <<>> ELSE Parts(seqs)[n]

\* FlattenSeq puts all the parts together.
LEMMA FlattenIsUpTo ==
  ASSUME NEW S, NEW seqs \in Seq(S)
  PROVE  FlattenSeq(seqs) = UpTo(seqs, Len(seqs))
<1>1. CASE Len(seqs) = 0
  <2>1. seqs = <<>>
    BY <1>1, LenProperties
  <2> QED
    BY <1>1, <2>1 DEF FlattenSeq, UpTo
<1>2. CASE Len(seqs) # 0
  BY <1>2 DEF FlattenSeq, UpTo, Parts
<1> QED
  BY <1>1, <1>2

\* The recursive function FlattenSeq chooses from exists.
LEMMA PartsExist ==
  ASSUME NEW S, NEW seqs \in Seq(S)
  PROVE  \A i \in 1..Len(seqs) :
           Parts(seqs)[i] = IF i = 1 THEN seqs[i] ELSE Parts(seqs)[i - 1] \o seqs[i]
<1> DEFINE F(f, m) == f = [i \in 1..m |-> IF i = 1 THEN seqs[i] ELSE f[i - 1] \o seqs[i]]
           Good == {n \in 0..Len(seqs) : \E f : F(f, n)}
<1>0. Len(seqs) \in Nat
  BY LenProperties
<1>1. 0 \in Good
  <2>1. F([i \in 1..0 |-> seqs[i]], 0)
    OBVIOUS
  <2> HIDE DEF F
  <2> QED
    BY <1>0, <2>1
<1>2. ASSUME NEW n \in 0..(Len(seqs) - 1), n \in Good
      PROVE  n + 1 \in Good
  <2>1. PICK f : F(f, n)
    BY <1>2
  <2> DEFINE g == [i \in 1..(n + 1) |-> IF i = 1 THEN seqs[i] ELSE f[i - 1] \o seqs[i]]
  <2>2. n \in Nat /\ n + 1 \in 0..Len(seqs)
    BY <1>0
  <2>3. \A i \in 1..n : g[i] = f[i]
    <3>1. \A i \in 1..n : i \in 1..(n + 1)
      BY <2>2
    <3>2. \A i \in 1..n : f[i] = IF i = 1 THEN seqs[i] ELSE f[i - 1] \o seqs[i]
      BY <2>1
    <3> QED
      BY <3>1, <3>2
  <2>4. F(g, n + 1)
    <3>1. \A i \in 1..(n + 1) : i # 1 => i - 1 \in 1..n
      BY <2>2
    <3>2. \A i \in 1..(n + 1) : i # 1 => f[i - 1] = g[i - 1]
      BY <2>3, <3>1
    <3> QED
      BY <3>2
  <2> HIDE DEF F
  <2> QED
    BY <2>2, <2>4
<1>3. Len(seqs) \in Good
  <2> HIDE DEF Good
  <2>1. \A n \in 0..Len(seqs) : n \in Good
    BY <1>0, <1>1, <1>2, UpToInduction
  <2> QED
    BY <1>0, <2>1
<1>4. F(Parts(seqs), Len(seqs))
  <2>1. \E f : F(f, Len(seqs))
    BY <1>3
  <2> QED
    BY <2>1 DEF Parts
<1> QED
  BY <1>4

\* One part at a time.
LEMMA UpToStep ==
  ASSUME NEW S, NEW seqs \in Seq(Seq(S))
  PROVE  /\ UpTo(seqs, 0) = <<>>
         /\ \A n \in 1..Len(seqs) : UpTo(seqs, n) = UpTo(seqs, n - 1) \o seqs[n]
         /\ \A n \in 0..Len(seqs) : UpTo(seqs, n) \in Seq(S)
<1>1. Len(seqs) \in Nat /\ \A n \in 1..Len(seqs) : seqs[n] \in Seq(S)
  BY LenProperties, ElementOfSeq
<1>2. UpTo(seqs, 0) = <<>>
  BY DEF UpTo
<1>3. ASSUME NEW n \in 1..Len(seqs)
      PROVE  UpTo(seqs, n) = UpTo(seqs, n - 1) \o seqs[n]
  <2>1. Parts(seqs)[n] = IF n = 1 THEN seqs[n] ELSE Parts(seqs)[n - 1] \o seqs[n]
    BY PartsExist
  <2>2. CASE n = 1
    <3>1. <<>> \o seqs[n] = seqs[n]
      BY <1>1, ConcatEmptySeq
    <3> QED
      BY <2>1, <2>2, <3>1 DEF UpTo
  <2>3. CASE n # 1
    <3>1. n # 0 /\ n - 1 # 0
      BY <1>1, <2>3
    <3> QED
      BY <2>1, <2>3, <3>1 DEF UpTo
  <2> QED
    BY <2>2, <2>3
<1>4. \A n \in 0..Len(seqs) : UpTo(seqs, n) \in Seq(S)
  <2> DEFINE Good == {n \in 0..Len(seqs) : UpTo(seqs, n) \in Seq(S)}
  <2>1. 0 \in Good
    <3>1. 0 \in 0..Len(seqs)
      BY <1>1
    <3>2. UpTo(seqs, 0) \in Seq(S)
      BY <1>2, EmptySeq
    <3> QED
      BY <3>1, <3>2
  <2>2. ASSUME NEW n \in 0..(Len(seqs) - 1), n \in Good
        PROVE  n + 1 \in Good
    <3>1. n + 1 \in 1..Len(seqs) /\ n + 1 - 1 = n /\ n + 1 \in 0..Len(seqs)
      BY <1>1
    <3>2. UpTo(seqs, n + 1) = UpTo(seqs, n) \o seqs[n + 1]
      <4> DEFINE k == n + 1
      <4>1. k \in 1..Len(seqs) /\ k - 1 = n
        BY <3>1
      <4> HIDE DEF k
      <4>2. UpTo(seqs, k) = UpTo(seqs, k - 1) \o seqs[k]
        BY <1>3, <4>1
      <4> QED
        BY <4>1, <4>2 DEF k
    <3>3. UpTo(seqs, n + 1) \in Seq(S)
      <4>1. UpTo(seqs, n) \in Seq(S)
        BY <2>2
      <4>2. seqs[n + 1] \in Seq(S)
        BY <1>1, <3>1
      <4> HIDE DEF Good
      <4>3. UpTo(seqs, n) \o seqs[n + 1] \in Seq(S)
        BY <4>1, <4>2, ConcatProperties
      <4> QED
        BY <3>2, <4>3
    <3> QED
      BY <3>1, <3>3
  <2>3. \A n \in 0..Len(seqs) : n \in Good
    <3> HIDE DEF Good
    <3> QED
      BY <1>1, <2>1, <2>2, UpToInduction
  <2> QED
    BY <2>3
<1> QED
  BY <1>2, <1>3, <1>4

\* What is put together is a sequence of the same things.
LEMMA FlattenType ==
  ASSUME NEW S, NEW seqs \in Seq(Seq(S))
  PROVE  FlattenSeq(seqs) \in Seq(S)
<1>1. Len(seqs) \in 0..Len(seqs)
  BY LenProperties
<1> QED
  BY <1>1, FlattenIsUpTo, UpToStep

(***************************************************************************)
(* Pieces of a preimage whose end is known from where they begin: if bytes *)
(* that begin with the one are bytes that begin with the other, they are   *)
(* the same piece, with the same bytes behind it.                          *)
(***************************************************************************)
Str == Seq(Byte)
Framed(a, b) == \A x, y \in Str : a \o x = b \o y => a = b /\ x = y

\* Bytes behind bytes.
LEMMA StrConcat ==
  ASSUME NEW a \in Str, NEW b \in Str
  PROVE  a \o b \in Str /\ Len(a \o b) = Len(a) + Len(b)
BY ConcatProperties DEF Str

\* It does not matter which two are put together first.
LEMMA StrAssociative ==
  ASSUME NEW a \in Str, NEW b \in Str, NEW c \in Str
  PROVE  (a \o b) \o c = a \o (b \o c)
BY ConcatAssociative DEF Str

\* The same bytes in front can be left out on both sides.
LEMMA StrCancel ==
  ASSUME NEW a \in Str, NEW b \in Str, NEW c \in Str, a \o b = a \o c
  PROVE  b = c
BY ConcatSimplifications, Zenon DEF Str

\* No bytes, in front or behind, change nothing.
LEMMA StrEmpty ==
  /\ <<>> \in Str
  /\ \A a \in Str : a \o <<>> = a /\ <<>> \o a = a
BY ConcatEmptySeq, EmptySeq DEF Str

\* Two pieces of one length.
LEMMA SameLengthFramed ==
  ASSUME NEW a \in Str, NEW b \in Str, Len(a) = Len(b)
  PROVE  Framed(a, b)
<1>1. SUFFICES ASSUME NEW x \in Str, NEW y \in Str, a \o x = b \o y
               PROVE  a = b /\ x = y
  BY DEF Framed
<1>2. Len(a) \in Nat /\ Len(x) \in Nat /\ Len(y) \in Nat
  BY LenProperties DEF Str
<1>3. /\ Len(a \o x) = Len(a) + Len(x) /\ Len(b \o y) = Len(b) + Len(y)
      /\ \A i \in 1..(Len(a) + Len(x)) :
           (a \o x)[i] = IF i <= Len(a) THEN a[i] ELSE x[i - Len(a)]
      /\ \A i \in 1..(Len(b) + Len(y)) :
           (b \o y)[i] = IF i <= Len(b) THEN b[i] ELSE y[i - Len(b)]
  BY ConcatProperties DEF Str
<1>4. ASSUME NEW i \in 1..Len(a) PROVE a[i] = b[i]
  <2>1. i \in 1..(Len(a) + Len(x)) /\ i \in 1..(Len(b) + Len(y)) /\ i <= Len(a) /\ i <= Len(b)
    BY <1>2
  <2> QED
    BY <1>1, <1>3, <2>1
<1>5. a = b
  BY <1>4, SeqEqual DEF Str
<1>6. x = y
  BY <1>1, <1>5, StrCancel
<1> QED
  BY <1>5, <1>6

\* A piece behind a piece, whose frame may depend on it.
LEMMA FramedThen ==
  ASSUME NEW a \in Str, NEW b \in Str, Framed(a, b),
         NEW c \in Str, NEW d \in Str, a = b => Framed(c, d)
  PROVE  /\ Framed(a \o c, b \o d)
         /\ a \o c = b \o d => a = b /\ c = d
<1>1. a \o c = b \o d => a = b /\ c = d
  BY DEF Framed
<1>2. ASSUME NEW x \in Str, NEW y \in Str, (a \o c) \o x = (b \o d) \o y
      PROVE  a \o c = b \o d /\ x = y
  <2>1. (a \o c) \o x = a \o (c \o x) /\ (b \o d) \o y = b \o (d \o y)
    <3>1. (a \o c) \o x = a \o (c \o x)
      BY ConcatAssociative DEF Str
    <3>2. (b \o d) \o y = b \o (d \o y)
      BY ConcatAssociative DEF Str
    <3> QED
      BY <3>1, <3>2
  <2>2. c \o x \in Str /\ d \o y \in Str
    BY StrConcat
  <2>3. a = b /\ c \o x = d \o y
    BY <1>2, <2>1, <2>2 DEF Framed
  <2>4. Framed(c, d)
    BY <2>3
  <2>5. c = d /\ x = y
    BY <2>3, <2>4 DEF Framed
  <2> QED
    BY <2>3, <2>5
<1>3. Framed(a \o c, b \o d)
  BY <1>2 DEF Framed
<1> QED
  BY <1>1, <1>3

\* As many pieces, each framed: all that is put together is.
LEMMA UpToFramed ==
  ASSUME NEW s \in Seq(Str), NEW t \in Seq(Str), NEW m \in 0..Len(s), m <= Len(t),
         \A i \in 1..m : Framed(s[i], t[i])
  PROVE  /\ UpTo(s, m) \in Str /\ UpTo(t, m) \in Str
         /\ Framed(UpTo(s, m), UpTo(t, m))
         /\ UpTo(s, m) = UpTo(t, m) => \A i \in 1..m : s[i] = t[i]
<1> DEFINE Fine(n) == /\ Framed(UpTo(s, n), UpTo(t, n))
                      /\ UpTo(s, n) = UpTo(t, n) => \A i \in 1..n : s[i] = t[i]
           Good == {n \in 0..m : Fine(n)}
<1>0. Len(s) \in Nat /\ Len(t) \in Nat /\ m \in Nat
  BY LenProperties
<1>1. /\ \A n \in 1..m : s[n] \in Str /\ t[n] \in Str
      /\ \A n \in 1..m : n \in 1..Len(s) /\ n \in 1..Len(t)
      /\ \A n \in 0..m : n \in 0..Len(s) /\ n \in 0..Len(t)
  BY <1>0, ElementOfSeq
<1>2. /\ UpTo(s, 0) = <<>> /\ UpTo(t, 0) = <<>>
      /\ \A n \in 1..Len(s) : UpTo(s, n) = UpTo(s, n - 1) \o s[n]
      /\ \A n \in 1..Len(t) : UpTo(t, n) = UpTo(t, n - 1) \o t[n]
      /\ \A n \in 0..Len(s) : UpTo(s, n) \in Str
      /\ \A n \in 0..Len(t) : UpTo(t, n) \in Str
  BY UpToStep DEF Str
<1>3. 0 \in Good
  <2>1. Framed(<<>>, <<>>)
    BY SameLengthFramed, EmptySeq DEF Str
  <2>2. Fine(0)
    BY <1>2, <2>1
  <2> HIDE DEF Fine
  <2> QED
    BY <1>0, <2>2
<1>4. ASSUME NEW n \in 0..(m - 1), n \in Good
      PROVE  n + 1 \in Good
  <2> DEFINE k == n + 1
  <2>1. k \in 1..m /\ k - 1 = n /\ k \in 0..m /\ k \in 1..Len(s) /\ k \in 1..Len(t)
        /\ n \in 0..m
    BY <1>0, <1>1
  <2>2. Fine(n)
    BY <1>4
  <2> HIDE DEF k
  <2>3. UpTo(s, k) = UpTo(s, n) \o s[k] /\ UpTo(t, k) = UpTo(t, n) \o t[k]
    BY <1>2, <2>1
  <2>4. UpTo(s, n) \in Str /\ UpTo(t, n) \in Str /\ s[k] \in Str /\ t[k] \in Str
    BY <1>1, <1>2, <2>1
  <2>5. Framed(s[k], t[k])
    BY <2>1
  <2>6. /\ Framed(UpTo(s, k), UpTo(t, k))
        /\ UpTo(s, k) = UpTo(t, k) => UpTo(s, n) = UpTo(t, n) /\ s[k] = t[k]
    <3>1. /\ Framed(UpTo(s, n) \o s[k], UpTo(t, n) \o t[k])
          /\ UpTo(s, n) \o s[k] = UpTo(t, n) \o t[k] => UpTo(s, n) = UpTo(t, n) /\ s[k] = t[k]
      <4>1. Framed(UpTo(s, n), UpTo(t, n))
        BY <2>2
      <4> DEFINE a == UpTo(s, n)
                 b == UpTo(t, n)
                 c == s[k]
                 d == t[k]
      <4>2. a \in Str /\ b \in Str /\ Framed(a, b) /\ c \in Str /\ d \in Str /\ Framed(c, d)
        BY <2>4, <2>5, <4>1
      <4> HIDE DEF Fine, a, b, c, d
      <4>3. Framed(a \o c, b \o d) /\ (a \o c = b \o d => a = b /\ c = d)
        BY <4>2, FramedThen
      <4> QED
        BY <4>3 DEF a, b, c, d
    <3> QED
      BY <2>3, <3>1
  <2>7. \A i \in 1..k : i \in 1..n \/ i = k
    BY <2>1
  <2>8. Fine(k)
    BY <2>2, <2>6, <2>7
  <2> HIDE DEF Fine
  <2> QED
    BY <2>1, <2>8 DEF k
<1>5. Fine(m)
  <2> HIDE DEF Good
  <2>1. \A n \in 0..m : n \in Good
    BY <1>0, <1>3, <1>4, UpToInduction
  <2>2. m \in Good
    BY <1>0, <2>1
  <2> QED
    BY <2>2 DEF Good
<1> QED
  BY <1>0, <1>1, <1>2, <1>5

\* As many pieces, each framed: FlattenSeq of them is framed and tells them apart.
LEMMA FlattenFramed ==
  ASSUME NEW s \in Seq(Str), NEW t \in Seq(Str), Len(s) = Len(t),
         \A i \in 1..Len(s) : Framed(s[i], t[i])
  PROVE  /\ FlattenSeq(s) \in Str /\ FlattenSeq(t) \in Str
         /\ Framed(FlattenSeq(s), FlattenSeq(t))
         /\ FlattenSeq(s) = FlattenSeq(t) => s = t
<1>1. Len(s) \in Nat /\ Len(s) \in 0..Len(s) /\ Len(s) <= Len(t)
  BY LenProperties
<1>2. FlattenSeq(s) = UpTo(s, Len(s)) /\ FlattenSeq(t) = UpTo(t, Len(s))
  BY FlattenIsUpTo
<1>3. /\ FlattenSeq(s) \in Str /\ FlattenSeq(t) \in Str
      /\ Framed(FlattenSeq(s), FlattenSeq(t))
      /\ FlattenSeq(s) = FlattenSeq(t) => \A i \in 1..Len(s) : s[i] = t[i]
  BY <1>1, <1>2, UpToFramed
<1> QED
  BY <1>3, SeqEqual

\* A first part of the pieces that is already all of them leaves none out.
LEMMA UpToWhole ==
  ASSUME NEW t \in Seq(Str), \A i \in 1..Len(t) : t[i] # <<>>, NEW m \in 0..Len(t),
         UpTo(t, m) = UpTo(t, Len(t))
  PROVE  m = Len(t)
<1> DEFINE size == [n \in 0..Len(t) |-> Len(UpTo(t, n))]
           Good == {n \in 0..Len(t) : n <= m \/ size[n] > size[m]}
<1>0. Len(t) \in Nat
  BY LenProperties
<1>1. \A n \in 0..Len(t) : UpTo(t, n) \in Str /\ size[n] \in Nat
  BY UpToStep, LenProperties DEF Str
<1>2. ASSUME NEW n \in 0..(Len(t) - 1), n \in Good
      PROVE  n + 1 \in Good
  <2> DEFINE k == n + 1
  <2>1. k \in 1..Len(t) /\ k - 1 = n /\ k \in 0..Len(t) /\ n \in 0..Len(t)
    BY <1>0
  <2> HIDE DEF k
  <2>2. UpTo(t, k) = UpTo(t, n) \o t[k]
    BY <2>1, UpToStep DEF Str
  <2>3. t[k] \in Str /\ t[k] # <<>> /\ Len(t[k]) \in Nat \ {0}
    BY <2>1, ElementOfSeq, EmptySeq DEF Str
  <2>4. UpTo(t, n) \in Str
    BY <1>1, <2>1
  <2>5. Len(UpTo(t, k)) = Len(UpTo(t, n)) + Len(t[k])
    BY <2>2, <2>3, <2>4, ConcatProperties DEF Str
  <2>6. size[k] > size[n]
    <3>1. size[n] \in Nat
      BY <1>1, <2>1
    <3> QED
      BY <2>1, <2>3, <2>5, <3>1
  <2>7. n <= m \/ size[n] > size[m]
    BY <1>2
  <2>8. size[n] \in Nat /\ size[k] \in Nat /\ size[m] \in Nat /\ k \in Nat /\ n \in Nat /\ m \in Nat
    BY <1>0, <1>1, <2>1
  <2> HIDE DEF size
  <2>9. k <= m \/ size[k] > size[m]
    <3>1. CASE n < m
      BY <2>1, <2>8, <3>1
    <3>2. CASE n = m
      BY <2>6, <3>2
    <3>3. CASE n > m
      BY <2>6, <2>7, <2>8, <3>3
    <3> QED
      BY <2>8, <3>1, <3>2, <3>3
  <2> QED
    BY <2>1, <2>9 DEF k
<1>3. 0 \in Good
  BY <1>0
<1>4. Len(t) \in Good
  <2> HIDE DEF Good
  <2>1. \A n \in 0..Len(t) : n \in Good
    BY <1>0, <1>2, <1>3, UpToInduction
  <2> QED
    BY <1>0, <2>1
<1>5. size[Len(t)] = size[m] /\ size[m] \in Nat
  BY <1>0, <1>1
<1> HIDE DEF size
<1> QED
  BY <1>0, <1>4, <1>5

\* The same bytes, of pieces that are not empty: the same pieces, however many.
LEMMA FlattenSame ==
  ASSUME NEW s \in Seq(Str), NEW t \in Seq(Str),
         \A i \in 1..Len(s) : s[i] # <<>>, \A i \in 1..Len(t) : t[i] # <<>>,
         \A i \in 1..Len(s), j \in 1..Len(t) : Framed(s[i], t[j]) /\ Framed(t[j], s[i]),
         FlattenSeq(s) = FlattenSeq(t)
  PROVE  s = t
<1>0. Len(s) \in Nat /\ Len(t) \in Nat
  BY LenProperties
<1>1. FlattenSeq(s) = UpTo(s, Len(s)) /\ FlattenSeq(t) = UpTo(t, Len(t))
  BY FlattenIsUpTo
<1>2. ASSUME NEW u \in Seq(Str), NEW v \in Seq(Str), Len(u) <= Len(v),
             \A i \in 1..Len(v) : v[i] # <<>>,
             \A i \in 1..Len(u), j \in 1..Len(v) : Framed(u[i], v[j]),
             UpTo(u, Len(u)) = UpTo(v, Len(v))
      PROVE  u = v
  <2>0. Len(u) \in Nat /\ Len(v) \in Nat
    BY LenProperties
  <2> DEFINE m == Len(u)
  <2>1. m \in 0..Len(u) /\ m \in 0..Len(v) /\ m <= Len(v) /\ Len(v) \in 0..Len(v)
    BY <1>2, <2>0
  <2>2. \A i \in 1..m : Framed(u[i], v[i])
    BY <1>2, <2>0
  <2> HIDE DEF m
  <2>3. /\ UpTo(u, m) \in Str /\ UpTo(v, m) \in Str
        /\ Framed(UpTo(u, m), UpTo(v, m))
        /\ UpTo(u, m) = UpTo(v, m) => \A i \in 1..m : u[i] = v[i]
    BY <2>1, <2>2, UpToFramed
  <2>4. PICK rest \in Str : UpTo(v, Len(v)) = UpTo(v, m) \o rest
    <3> DEFINE Good == {n \in 0..Len(v) :
                          n >= m => \E r \in Str : UpTo(v, n) = UpTo(v, m) \o r}
    <3>1. /\ \A n \in 1..Len(v) : UpTo(v, n) = UpTo(v, n - 1) \o v[n]
          /\ \A n \in 0..Len(v) : UpTo(v, n) \in Str
      BY UpToStep DEF Str
    <3>a. <<>> \in Str /\ UpTo(v, m) = UpTo(v, m) \o <<>>
      BY <2>3, ConcatEmptySeq, EmptySeq DEF Str
    <3>2. 0 \in Good
      <4>1. 0 >= m => m = 0
        BY <2>0, <2>1
      <4> QED
        <5>1. 0 \in 0..Len(v)
          BY <2>0
        <5>2. 0 >= m => \E r \in Str : UpTo(v, 0) = UpTo(v, m) \o r
          BY <3>a, <4>1
        <5> QED
          BY <5>1, <5>2
    <3>3. ASSUME NEW n \in 0..(Len(v) - 1), n \in Good
          PROVE  n + 1 \in Good
      <4> DEFINE k == n + 1
      <4>1. k \in 1..Len(v) /\ k - 1 = n /\ k \in 0..Len(v) /\ n \in 0..Len(v)
            /\ (k >= m => n >= m \/ k = m)
        BY <2>0, <2>1
      <4> HIDE DEF k
      <4>2. UpTo(v, k) = UpTo(v, n) \o v[k] /\ UpTo(v, n) \in Str /\ v[k] \in Str
        BY <3>1, <4>1, ElementOfSeq
      <4>3. ASSUME n >= m
            PROVE  \E r \in Str : UpTo(v, k) = UpTo(v, m) \o r
        <5>1. PICK r \in Str : UpTo(v, n) = UpTo(v, m) \o r
          BY <3>3, <4>3
        <5>2. UpTo(v, k) = UpTo(v, m) \o (r \o v[k])
          <6>1. (UpTo(v, m) \o r) \o v[k] = UpTo(v, m) \o (r \o v[k])
            BY <2>3, <4>2, StrAssociative
          <6> QED
            BY <4>2, <5>1, <6>1
        <5>3. r \o v[k] \in Str
          BY <4>2, ConcatProperties DEF Str
        <5> QED
          BY <5>2, <5>3
      <4>4. k >= m => \E r \in Str : UpTo(v, k) = UpTo(v, m) \o r
        BY <3>a, <4>1, <4>3
      <4> QED
        BY <4>1, <4>4 DEF k
    <3>4. \A n \in 0..Len(v) : n \in Good
      <4> HIDE DEF Good
      <4> QED
        BY <2>0, <3>2, <3>3, UpToInduction
    <3> QED
      BY <2>1, <3>4
  <2>5. UpTo(u, m) \o <<>> = UpTo(v, m) \o rest /\ <<>> \in Str
    <3>1. UpTo(u, m) \o <<>> = UpTo(u, m) /\ <<>> \in Str
      BY <2>3, ConcatEmptySeq, EmptySeq DEF Str
    <3> QED
      BY <1>2, <2>4, <3>1 DEF m
  <2>6. UpTo(u, m) = UpTo(v, m) /\ rest = <<>>
    BY <2>3, <2>5 DEF Framed
  <2>7. UpTo(v, m) = UpTo(v, Len(v))
    BY <1>2, <2>6 DEF m
  <2>8. m = Len(v)
    BY <1>2, <2>1, <2>7, UpToWhole
  <2>9. \A i \in 1..Len(u) : u[i] = v[i]
    BY <2>3, <2>6 DEF m
  <2> QED
    BY <2>8, <2>9, SeqEqual DEF m
<1>3. CASE Len(s) <= Len(t)
  BY <1>1, <1>2, <1>3
<1>4. CASE Len(t) <= Len(s)
  <2>1. t = s
    BY <1>1, <1>2, <1>4
  <2> QED
    BY <2>1
<1> QED
  BY <1>0, <1>3, <1>4

(***************************************************************************)
(* The pieces of bytes there are.                                          *)
(***************************************************************************)
Small == 0..(SizeLimit - 1)

\* A length takes four bytes, and the fourth is zero.
LEMMA PrefixType ==
  ASSUME NEW n \in Nat
  PROVE  /\ checked_len_prefix(n) \in Str
         /\ Len(checked_len_prefix(n)) = 4
         /\ checked_len_prefix(n)[4] = 0
<1>1. n % 256 \in Byte /\ (n \div 256) % 256 \in Byte /\ (n \div 65536) % 256 \in Byte /\ 0 \in Byte
  BY SMT DEF Byte
<1> QED
  BY <1>1, SMT DEF checked_len_prefix, Str

\* Lengths within the bound are told apart by their four bytes.
LEMMA PrefixInjective ==
  ASSUME NEW m \in Small, NEW n \in Small, checked_len_prefix(m) = checked_len_prefix(n)
  PROVE  m = n
<1>1. /\ m % 256 = n % 256
      /\ (m \div 256) % 256 = (n \div 256) % 256
      /\ (m \div 65536) % 256 = (n \div 65536) % 256
  BY SMT DEF checked_len_prefix
<1>2. ASSUME NEW k \in Small
      PROVE  k = (k % 256) + 256 * ((k \div 256) % 256) + 65536 * ((k \div 65536) % 256)
  <2>1. k \in Int /\ 0 <= k /\ k < 16777216
    <3>1. SizeLimit \in Int
      BY SMT DEF SizeLimit
    <3>2. k \in Int /\ 0 <= k /\ k < SizeLimit
      BY <3>1, SMT DEF Small
    <3> QED
      BY <3>2, SMT DEF SizeLimit
  <2> QED
    BY <2>1, SMT
<1>3. /\ m = (m % 256) + 256 * ((m \div 256) % 256) + 65536 * ((m \div 65536) % 256)
      /\ n = (n % 256) + 256 * ((n \div 256) % 256) + 65536 * ((n \div 65536) % 256)
  BY <1>2, SMT
<1> QED
  BY <1>1, <1>3, SMT

\* A length is framed by its own four bytes.
LEMMA PrefixFramed ==
  ASSUME NEW m \in Nat, NEW n \in Nat
  PROVE  Framed(checked_len_prefix(m), checked_len_prefix(n))
<1>1. /\ checked_len_prefix(m) \in Str /\ checked_len_prefix(n) \in Str
      /\ Len(checked_len_prefix(m)) = Len(checked_len_prefix(n))
  BY PrefixType
<1> QED
  BY <1>1, SameLengthFramed

\* Bytes of a fixed length are framed.
LEMMA FixedFramed ==
  ASSUME NEW n \in Nat, NEW a \in Fixed(n), NEW b \in Fixed(n)
  PROVE  a \in Str /\ b \in Str /\ Len(a) = n /\ Len(b) = n /\ Framed(a, b)
<1>1. a \in Str /\ b \in Str /\ Len(a) = n /\ Len(b) = n
  BY DEF Fixed, Str
<1> QED
  BY <1>1, SameLengthFramed

\* So is one byte.
LEMMA ByteFramed ==
  ASSUME NEW a \in Byte, NEW b \in Byte
  PROVE  <<a>> \in Str /\ <<b>> \in Str /\ Framed(<<a>>, <<b>>) /\ (<<a>> = <<b>> => a = b)
<1>1. <<a>> \in Str /\ <<b>> \in Str /\ Len(<<a>>) = Len(<<b>>)
  BY DEF Str
<1> QED
  BY <1>1, SameLengthFramed

\* What stands for a field of a fixed length that is not signed has that length.
LEMMA ZerosType ==
  ASSUME NEW n \in Nat
  PROVE  Zeros(n) \in Fixed(n)
BY DEF Zeros, Fixed, Byte

\* Bytes of a transaction are bytes, and not too many.
LEMMA BytesFacts ==
  ASSUME NEW a \in Bytes
  PROVE  a \in Str /\ Len(a) \in Small /\ Len(a) \in Nat
<1>1. a \in Str /\ Len(a) \in Nat /\ Len(a) < SizeLimit
  BY LenProperties DEF Bytes, Str
<1>2. SizeLimit \in Nat
  BY SMT DEF SizeLimit
<1> QED
  BY <1>1, <1>2 DEF Small

\* Bytes behind their length are framed and told apart.
LEMMA LenPrefixedFramed ==
  ASSUME NEW a \in Bytes, NEW b \in Bytes
  PROVE  /\ LenPrefixed(a) \in Str /\ LenPrefixed(a) # <<>>
         /\ Framed(LenPrefixed(a), LenPrefixed(b))
         /\ LenPrefixed(a) = LenPrefixed(b) => a = b
<1> DEFINE m == Len(a)
           n == Len(b)
<1>1. a \in Str /\ b \in Str /\ m \in Small /\ n \in Small /\ m \in Nat /\ n \in Nat
  BY BytesFacts
<1>2. /\ checked_len_prefix(m) \in Str /\ checked_len_prefix(n) \in Str
      /\ Len(checked_len_prefix(m)) = 4
  BY <1>1, PrefixType
<1>3. Framed(checked_len_prefix(m), checked_len_prefix(n))
  BY <1>1, PrefixFramed
<1>4. checked_len_prefix(m) = checked_len_prefix(n) => Framed(a, b)
  BY <1>1, PrefixInjective, SameLengthFramed
<1>5. /\ Framed(LenPrefixed(a), LenPrefixed(b))
      /\ LenPrefixed(a) = LenPrefixed(b) => a = b
  <2> DEFINE p == checked_len_prefix(m)
             q == checked_len_prefix(n)
  <2>1. p \in Str /\ q \in Str /\ Framed(p, q) /\ (p = q => Framed(a, b))
    BY <1>2, <1>3, <1>4
  <2> HIDE DEF p, q
  <2>2. Framed(p \o a, q \o b) /\ (p \o a = q \o b => p = q /\ a = b)
    BY <1>1, <2>1, FramedThen
  <2> QED
    BY <2>2 DEF p, q, LenPrefixed
<1>6. LenPrefixed(a) \in Str /\ Len(LenPrefixed(a)) = 4 + m
  <2> DEFINE p == checked_len_prefix(m)
  <2>1. p \in Str /\ Len(p) = 4
    BY <1>2
  <2> HIDE DEF p
  <2>2. p \o a \in Str /\ Len(p \o a) = 4 + Len(a)
    BY <1>1, <2>1, StrConcat
  <2> QED
    BY <2>2 DEF p, LenPrefixed
<1>7. LenPrefixed(a) # <<>>
  BY <1>1, <1>6
<1> QED
  BY <1>5, <1>6, <1>7

\* A table is framed by its own length.
LEMMA TablesFramed ==
  ASSUME NEW a \in Tables, NEW b \in Tables
  PROVE  a \in Str /\ b \in Str /\ Framed(a, b)
<1>1. /\ a \in Str /\ Len(a) \in Small /\ Len(a) \in Nat
      /\ b \in Str /\ Len(b) \in Small /\ Len(b) \in Nat
  BY BytesFacts DEF Tables
<1>2. SUFFICES ASSUME NEW x \in Str, NEW y \in Str, a \o x = b \o y
               PROVE  Len(a) = Len(b)
  BY <1>1, SameLengthFramed DEF Framed
<1>3. Len(a) >= 4 /\ Len(b) >= 4
  BY DEF Tables
<1>4. SubSeq(a, 1, 4) = SubSeq(a \o x, 1, 4) /\ SubSeq(b, 1, 4) = SubSeq(b \o y, 1, 4)
  <2>1. 1 \in 1..Len(a) /\ 4 \in 1..Len(a) /\ 1 \in 1..Len(b) /\ 4 \in 1..Len(b)
    BY <1>1, <1>3
  <2>2. SubSeq(a \o x, 1, 4) = SubSeq(a, 1, 4)
    BY <1>1, <2>1, SubSeqOfConcat1 DEF Str
  <2>3. SubSeq(b \o y, 1, 4) = SubSeq(b, 1, 4)
    BY <1>1, <2>1, SubSeqOfConcat1 DEF Str
  <2> QED
    BY <2>2, <2>3
<1>5. checked_len_prefix(Len(a)) = checked_len_prefix(Len(b))
  BY <1>2, <1>4 DEF Tables
<1> QED
  BY <1>1, <1>5, PrefixInjective

\* What may be missing, or is a table.
LEMMA OptBytesFacts ==
  ASSUME NEW o \in {s \in Seq(Tables) : Len(s) <= 1}
  PROVE  /\ OptBytes(o) \in Str
         /\ o = <<>> => OptBytes(o) = <<>>
         /\ o # <<>> => /\ o = <<OptBytes(o)>> /\ OptBytes(o) \in Tables
                        /\ OptBytes(o) # <<>>
<1>1. CASE o = <<>>
  BY <1>1, StrEmpty DEF OptBytes
<1>2. CASE o # <<>>
  <2>1. Len(o) = 1 /\ o[1] \in Tables
    <3>1. o \in Seq(Tables) /\ Len(o) <= 1
      OBVIOUS
    <3> HIDE DEF Tables
    <3>2. Len(o) \in Nat \ {0}
      BY <1>2, <3>1, EmptySeq
    <3>3. Len(o) = 1 /\ 1 \in 1..Len(o)
      BY <3>1, <3>2
    <3>4. o[1] \in Tables
      BY <3>1, <3>3, ElementOfSeq
    <3> QED
      BY <3>3, <3>4
  <2>2. o = <<o[1]>>
    BY <2>1
  <2>3. Len(o[1]) >= 4 /\ o[1] \in Str
    BY <2>1, BytesFacts DEF Tables
  <2> QED
    BY <1>2, <2>1, <2>2, <2>3 DEF OptBytes
<1> QED
  BY <1>1, <1>2

\* Several pieces, one behind the other, each framed once those before are known.
InTurn(a, b, n) ==
  \A i \in 1..n : /\ a[i] \in Str /\ b[i] \in Str
                  /\ (\A j \in 1..n : j < i => a[j] = b[j]) => Framed(a[i], b[i])
Joined2(a) == a[1] \o a[2]
Joined3(a) == Joined2(a) \o a[3]
Joined4(a) == Joined3(a) \o a[4]
Joined5(a) == Joined4(a) \o a[5]
Joined6(a) == Joined5(a) \o a[6]

\* Two pieces in turn are framed together and told apart.
LEMMA Join2 ==
  ASSUME NEW a, NEW b, InTurn(a, b, 2)
  PROVE  /\ Joined2(a) \in Str /\ Joined2(b) \in Str
         /\ Framed(Joined2(a), Joined2(b))
         /\ Joined2(a) = Joined2(b) => a[1] = b[1] /\ a[2] = b[2]
<1>1. a[1] \in Str /\ b[1] \in Str /\ Framed(a[1], b[1])
  BY DEF InTurn
<1>2. a[2] \in Str /\ b[2] \in Str /\ (a[1] = b[1] => Framed(a[2], b[2]))
  <2>1. \A j \in 1..2 : j < 2 => j \in {1}
    OBVIOUS
  <2> QED
    BY <2>1 DEF InTurn
<1> DEFINE p == a[1]
           q == b[1]
           x == a[2]
           y == b[2]
<1>3. p \in Str /\ q \in Str /\ x \in Str /\ y \in Str /\ Framed(p, q) /\ (p = q => Framed(x, y))
  BY <1>1, <1>2
<1> HIDE DEF p, q, x, y
<1>4. /\ p \o x \in Str /\ q \o y \in Str
      /\ Framed(p \o x, q \o y)
      /\ p \o x = q \o y => p = q /\ x = y
  BY <1>3, FramedThen, StrConcat
<1> QED
  BY <1>1, <1>4 DEF p, q, x, y, Joined2

\* Three pieces in turn.
LEMMA Join3 ==
  ASSUME NEW a, NEW b, InTurn(a, b, 3)
  PROVE  /\ Joined3(a) \in Str /\ Joined3(b) \in Str
         /\ Framed(Joined3(a), Joined3(b))
         /\ Joined3(a) = Joined3(b) => a[1] = b[1] /\ a[2] = b[2] /\ a[3] = b[3]
<1>1. /\ Joined2(a) \in Str /\ Joined2(b) \in Str
      /\ Framed(Joined2(a), Joined2(b))
      /\ Joined2(a) = Joined2(b) => a[1] = b[1] /\ a[2] = b[2]
  <2>1. InTurn(a, b, 2)
    <3>1. \A i \in 1..2 : i \in 1..3 /\ (\A j \in 1..3 : j < i => j \in 1..2)
      OBVIOUS
    <3> QED
      BY <3>1 DEF InTurn
  <2> QED
    BY <2>1, Join2
<1>2. a[3] \in Str /\ b[3] \in Str /\ (a[1] = b[1] /\ a[2] = b[2] => Framed(a[3], b[3]))
  <2>1. \A j \in 1..3 : j < 3 => j \in {1, 2}
    OBVIOUS
  <2> QED
    BY <2>1 DEF InTurn
<1> DEFINE p == Joined2(a)
           q == Joined2(b)
           x == a[3]
           y == b[3]
<1>3. p \in Str /\ q \in Str /\ x \in Str /\ y \in Str /\ Framed(p, q) /\ (p = q => Framed(x, y))
  BY <1>1, <1>2
<1> HIDE DEF p, q, x, y
<1>4. /\ p \o x \in Str /\ q \o y \in Str
      /\ Framed(p \o x, q \o y)
      /\ p \o x = q \o y => p = q /\ x = y
  BY <1>3, FramedThen, StrConcat
<1> QED
  BY <1>1, <1>4 DEF p, q, x, y, Joined3

\* Four pieces in turn.
LEMMA Join4 ==
  ASSUME NEW a, NEW b, InTurn(a, b, 4)
  PROVE  /\ Joined4(a) \in Str /\ Joined4(b) \in Str
         /\ Framed(Joined4(a), Joined4(b))
         /\ Joined4(a) = Joined4(b) => a[1] = b[1] /\ a[2] = b[2] /\ a[3] = b[3] /\ a[4] = b[4]
<1>1. /\ Joined3(a) \in Str /\ Joined3(b) \in Str
      /\ Framed(Joined3(a), Joined3(b))
      /\ Joined3(a) = Joined3(b) => a[1] = b[1] /\ a[2] = b[2] /\ a[3] = b[3]
  <2>1. InTurn(a, b, 3)
    <3>1. \A i \in 1..3 : i \in 1..4 /\ (\A j \in 1..4 : j < i => j \in 1..3)
      OBVIOUS
    <3> QED
      BY <3>1 DEF InTurn
  <2> QED
    BY <2>1, Join3
<1>2. /\ a[4] \in Str /\ b[4] \in Str
      /\ a[1] = b[1] /\ a[2] = b[2] /\ a[3] = b[3] => Framed(a[4], b[4])
  <2>1. \A j \in 1..4 : j < 4 => j \in {1, 2, 3}
    OBVIOUS
  <2> QED
    BY <2>1 DEF InTurn
<1> DEFINE p == Joined3(a)
           q == Joined3(b)
           x == a[4]
           y == b[4]
<1>3. p \in Str /\ q \in Str /\ x \in Str /\ y \in Str /\ Framed(p, q) /\ (p = q => Framed(x, y))
  BY <1>1, <1>2
<1> HIDE DEF p, q, x, y
<1>4. /\ p \o x \in Str /\ q \o y \in Str
      /\ Framed(p \o x, q \o y)
      /\ p \o x = q \o y => p = q /\ x = y
  BY <1>3, FramedThen, StrConcat
<1> QED
  BY <1>1, <1>4 DEF p, q, x, y, Joined4

\* Five pieces in turn.
LEMMA Join5 ==
  ASSUME NEW a, NEW b, InTurn(a, b, 5)
  PROVE  /\ Joined5(a) \in Str /\ Joined5(b) \in Str
         /\ Framed(Joined5(a), Joined5(b))
         /\ Joined5(a) = Joined5(b)
              => a[1] = b[1] /\ a[2] = b[2] /\ a[3] = b[3] /\ a[4] = b[4] /\ a[5] = b[5]
<1>1. /\ Joined4(a) \in Str /\ Joined4(b) \in Str
      /\ Framed(Joined4(a), Joined4(b))
      /\ Joined4(a) = Joined4(b) => a[1] = b[1] /\ a[2] = b[2] /\ a[3] = b[3] /\ a[4] = b[4]
  <2>1. InTurn(a, b, 4)
    <3>1. \A i \in 1..4 : i \in 1..5 /\ (\A j \in 1..5 : j < i => j \in 1..4)
      OBVIOUS
    <3> QED
      BY <3>1 DEF InTurn
  <2> QED
    BY <2>1, Join4
<1>2. /\ a[5] \in Str /\ b[5] \in Str
      /\ a[1] = b[1] /\ a[2] = b[2] /\ a[3] = b[3] /\ a[4] = b[4] => Framed(a[5], b[5])
  <2>1. \A j \in 1..5 : j < 5 => j \in {1, 2, 3, 4}
    OBVIOUS
  <2> QED
    BY <2>1 DEF InTurn
<1> DEFINE p == Joined4(a)
           q == Joined4(b)
           x == a[5]
           y == b[5]
<1>3. p \in Str /\ q \in Str /\ x \in Str /\ y \in Str /\ Framed(p, q) /\ (p = q => Framed(x, y))
  BY <1>1, <1>2
<1> HIDE DEF p, q, x, y
<1>4. /\ p \o x \in Str /\ q \o y \in Str
      /\ Framed(p \o x, q \o y)
      /\ p \o x = q \o y => p = q /\ x = y
  BY <1>3, FramedThen, StrConcat
<1> QED
  BY <1>1, <1>4 DEF p, q, x, y, Joined5

\* Six pieces in turn.
LEMMA Join6 ==
  ASSUME NEW a, NEW b, InTurn(a, b, 6)
  PROVE  /\ Joined6(a) \in Str /\ Joined6(b) \in Str
         /\ Framed(Joined6(a), Joined6(b))
         /\ Joined6(a) = Joined6(b)
              => /\ a[1] = b[1] /\ a[2] = b[2] /\ a[3] = b[3]
                 /\ a[4] = b[4] /\ a[5] = b[5] /\ a[6] = b[6]
<1>1. /\ Joined5(a) \in Str /\ Joined5(b) \in Str
      /\ Framed(Joined5(a), Joined5(b))
      /\ Joined5(a) = Joined5(b)
           => a[1] = b[1] /\ a[2] = b[2] /\ a[3] = b[3] /\ a[4] = b[4] /\ a[5] = b[5]
  <2>1. InTurn(a, b, 5)
    <3>1. \A i \in 1..5 : i \in 1..6 /\ (\A j \in 1..6 : j < i => j \in 1..5)
      OBVIOUS
    <3> QED
      BY <3>1 DEF InTurn
  <2> QED
    BY <2>1, Join5
<1>2. /\ a[6] \in Str /\ b[6] \in Str
      /\ a[1] = b[1] /\ a[2] = b[2] /\ a[3] = b[3] /\ a[4] = b[4] /\ a[5] = b[5]
           => Framed(a[6], b[6])
  <2>1. \A j \in 1..6 : j < 6 => j \in {1, 2, 3, 4, 5}
    OBVIOUS
  <2> QED
    BY <2>1 DEF InTurn
<1> DEFINE p == Joined5(a)
           q == Joined5(b)
           x == a[6]
           y == b[6]
<1>3. p \in Str /\ q \in Str /\ x \in Str /\ y \in Str /\ Framed(p, q) /\ (p = q => Framed(x, y))
  BY <1>1, <1>2
<1> HIDE DEF p, q, x, y
<1>4. /\ p \o x \in Str /\ q \o y \in Str
      /\ Framed(p \o x, q \o y)
      /\ p \o x = q \o y => p = q /\ x = y
  BY <1>3, FramedThen, StrConcat
<1> QED
  BY <1>1, <1>4 DEF p, q, x, y, Joined6

\* How long, and how it begins.
LEMMA PrefixOf ==
  ASSUME NEW a \in Str, NEW b \in Str, Len(a) >= 4
  PROVE  SubSeq(a \o b, 1, 4) = SubSeq(a, 1, 4)
<1>1. Len(a) \in Nat
  BY LenProperties DEF Str
<1>2. 1 \in 1..Len(a) /\ 4 \in 1..Len(a)
  BY <1>1
<1> QED
  BY <1>2, SubSeqOfConcat1 DEF Str

\* The fields of a cell.
LEMMA CellFields ==
  ASSUME NEW c \in Cells
  PROVE  /\ c[1] \in Fixed(8) /\ c[1] \in Str /\ Len(c[1]) = 8
         /\ c[2] \in Tables /\ c[2] \in Str /\ Len(c[2]) \in Nat
         /\ c[3] \in {s \in Seq(Tables) : Len(s) <= 1}
         /\ OptBytes(c[3]) \in Str /\ Len(OptBytes(c[3])) \in Nat
         /\ c = <<c[1], c[2], c[3]>>
         /\ CellSize(c) \in Small /\ CellSize(c) \in Nat
<1>1. /\ c[1] \in Fixed(8) /\ c[2] \in Tables /\ c[3] \in {s \in Seq(Tables) : Len(s) <= 1}
      /\ c = <<c[1], c[2], c[3]>>
      /\ CellSize(c) < SizeLimit
  BY DEF Cells
<1>2. c[1] \in Str /\ Len(c[1]) = 8
  BY <1>1, FixedFramed
<1>3. c[2] \in Str /\ Len(c[2]) \in Nat
  BY <1>1, BytesFacts DEF Tables
<1>4. OptBytes(c[3]) \in Str
  BY <1>1, OptBytesFacts
<1>5. Len(OptBytes(c[3])) \in Nat
  BY <1>4, LenProperties DEF Str
<1>6. CellSize(c) \in Nat
  <2> DEFINE x == Len(c[2])
             y == Len(OptBytes(c[3]))
  <2>1. x \in Nat /\ y \in Nat /\ CellSize(c) = 24 + x + y
    BY <1>3, <1>5 DEF CellSize
  <2> HIDE DEF x, y
  <2> QED
    BY <2>1
<1>7. CellSize(c) \in Small
  <2>1. SizeLimit \in Nat
    BY SMT DEF SizeLimit
  <2> QED
    BY <1>1, <1>6, <2>1 DEF Small
<1> QED
  BY <1>1, <1>2, <1>3, <1>4, <1>5, <1>6, <1>7

\* The bytes of a cell in front of its type: size, offsets, capacity and lock.
CellFront(c) ==
  checked_len_prefix(CellSize(c))
    \o checked_len_prefix(16) \o checked_len_prefix(24)
    \o checked_len_prefix(24 + Len(c[2])) \o c[1] \o c[2]

\* The front of a cell is framed and tells its capacity and lock.
LEMMA FrontFacts ==
  ASSUME NEW c \in Cells, NEW e \in Cells
  PROVE  /\ CellFront(c) \in Str /\ CellFront(e) \in Str
         /\ Framed(CellFront(c), CellFront(e))
         /\ CellFront(c) = CellFront(e) => c[1] = e[1] /\ c[2] = e[2]
<1>1. /\ CellSize(c) \in Nat /\ CellSize(e) \in Nat
      /\ c[1] \in Fixed(8) /\ e[1] \in Fixed(8) /\ c[2] \in Tables /\ e[2] \in Tables
      /\ Len(c[2]) \in Nat /\ Len(e[2]) \in Nat
      /\ c[1] \in Str /\ e[1] \in Str /\ c[2] \in Str /\ e[2] \in Str
  BY CellFields
<1> DEFINE a == <<checked_len_prefix(CellSize(c)), checked_len_prefix(16),
                  checked_len_prefix(24), checked_len_prefix(24 + Len(c[2])), c[1], c[2]>>
           b == <<checked_len_prefix(CellSize(e)), checked_len_prefix(16),
                  checked_len_prefix(24), checked_len_prefix(24 + Len(e[2])), e[1], e[2]>>
<1>2. \A i \in 1..6 : a[i] \in Str /\ b[i] \in Str /\ Framed(a[i], b[i])
  <2>1. /\ 16 \in Nat /\ 24 \in Nat /\ 24 + Len(c[2]) \in Nat /\ 24 + Len(e[2]) \in Nat
    BY <1>1
  <2>2. \A i \in 1..4 : a[i] \in Str /\ b[i] \in Str /\ Framed(a[i], b[i])
    BY <1>1, <2>1, PrefixType, PrefixFramed
  <2>3. Framed(a[5], b[5]) /\ Framed(a[6], b[6])
    BY <1>1, FixedFramed, TablesFramed
  <2> QED
    BY <1>1, <2>2, <2>3
<1>3. /\ CellFront(c) = Joined6(a) /\ CellFront(e) = Joined6(b)
      /\ a[5] = c[1] /\ b[5] = e[1] /\ a[6] = c[2] /\ b[6] = e[2]
  BY DEF CellFront, Joined6, Joined5, Joined4, Joined3, Joined2
<1> HIDE DEF a, b
<1>4. InTurn(a, b, 6)
  BY <1>2 DEF InTurn
<1> QED
  BY <1>3, <1>4, Join6

\* The length of six pieces, the first of four bytes.
LEMMA JoinLength ==
  ASSUME NEW a, \A i \in 1..6 : a[i] \in Str, Len(a[1]) = 4
  PROVE  /\ Len(Joined6(a)) = 4 + Len(a[2]) + Len(a[3]) + Len(a[4]) + Len(a[5]) + Len(a[6])
         /\ SubSeq(Joined6(a), 1, 4) = a[1]
<1>1. \A i \in 1..6 : Len(a[i]) \in Nat
  BY LenProperties DEF Str
<1>2. ASSUME NEW p \in Str, NEW x \in Str, Len(p) >= 4, SubSeq(p, 1, 4) = a[1]
      PROVE  /\ p \o x \in Str /\ Len(p \o x) = Len(p) + Len(x) /\ Len(p \o x) >= 4
             /\ SubSeq(p \o x, 1, 4) = a[1]
  <2>1. p \o x \in Str /\ Len(p \o x) = Len(p) + Len(x) /\ Len(p) \in Nat /\ Len(x) \in Nat
    BY StrConcat, LenProperties DEF Str
  <2>2. SubSeq(p \o x, 1, 4) = a[1]
    BY <1>2, PrefixOf
  <2> QED
    BY <1>2, <2>1, <2>2
<1>3. a[1] \in Str /\ a[2] \in Str /\ a[3] \in Str /\ a[4] \in Str /\ a[5] \in Str /\ a[6] \in Str
  OBVIOUS
<1>4. SubSeq(a[1], 1, 4) = a[1] /\ Len(a[1]) >= 4
  BY <1>3, SubSeqFull DEF Str
<1>5. /\ Joined2(a) \in Str /\ Len(Joined2(a)) = Len(a[1]) + Len(a[2]) /\ Len(Joined2(a)) >= 4
      /\ SubSeq(Joined2(a), 1, 4) = a[1]
  BY <1>2, <1>3, <1>4 DEF Joined2
<1>6. /\ Joined3(a) \in Str /\ Len(Joined3(a)) = Len(Joined2(a)) + Len(a[3])
      /\ Len(Joined3(a)) >= 4 /\ SubSeq(Joined3(a), 1, 4) = a[1]
  BY <1>2, <1>3, <1>5 DEF Joined3
<1>7. /\ Joined4(a) \in Str /\ Len(Joined4(a)) = Len(Joined3(a)) + Len(a[4])
      /\ Len(Joined4(a)) >= 4 /\ SubSeq(Joined4(a), 1, 4) = a[1]
  BY <1>2, <1>3, <1>6 DEF Joined4
<1>8. /\ Joined5(a) \in Str /\ Len(Joined5(a)) = Len(Joined4(a)) + Len(a[5])
      /\ Len(Joined5(a)) >= 4 /\ SubSeq(Joined5(a), 1, 4) = a[1]
  BY <1>2, <1>3, <1>7 DEF Joined5
<1>9. /\ Joined6(a) \in Str /\ Len(Joined6(a)) = Len(Joined5(a)) + Len(a[6])
      /\ SubSeq(Joined6(a), 1, 4) = a[1]
  BY <1>2, <1>3, <1>8 DEF Joined6
<1> QED
  BY <1>5, <1>6, <1>7, <1>8, <1>9

\* A cell is written as a table, and cells that are not the same as tables that are not.
LEMMA CellOutputTable ==
  ASSUME NEW c \in Cells
  PROVE  CellOutput(c) \in Tables /\ CellOutput(c) = CellFront(c) \o OptBytes(c[3])
<1>1. /\ c[1] \in Str /\ Len(c[1]) = 8 /\ c[2] \in Str /\ Len(c[2]) \in Nat
      /\ OptBytes(c[3]) \in Str /\ Len(OptBytes(c[3])) \in Nat
      /\ CellSize(c) \in Nat
  BY CellFields
<1> DEFINE a == <<checked_len_prefix(CellSize(c)), checked_len_prefix(16),
                  checked_len_prefix(24), checked_len_prefix(24 + Len(c[2])), c[1], c[2]>>
           opt == OptBytes(c[3])
           size == CellSize(c)
           lock == Len(c[2])
<1>2. /\ \A i \in 1..6 : a[i] \in Str
      /\ a[1] = checked_len_prefix(size)
      /\ Len(a[1]) = 4 /\ Len(a[2]) = 4 /\ Len(a[3]) = 4 /\ Len(a[4]) = 4
      /\ Len(a[5]) = 8 /\ Len(a[6]) = lock
  <2>1. /\ 16 \in Nat /\ 24 \in Nat /\ 24 + Len(c[2]) \in Nat
    BY <1>1
  <2>2. \A i \in 1..4 : a[i] \in Str /\ Len(a[i]) = 4
    BY <1>1, <2>1, PrefixType
  <2> QED
    BY <1>1, <2>2
<1>3. CellFront(c) = Joined6(a)
  BY DEF CellFront, Joined6, Joined5, Joined4, Joined3, Joined2
<1>4. CellOutput(c) = CellFront(c) \o opt
  BY DEF CellOutput, CellFront
<1>5. size = 24 + lock + Len(opt) /\ lock \in Nat /\ Len(opt) \in Nat /\ opt \in Str
  BY <1>1 DEF CellSize
<1>6. size < SizeLimit
  BY DEF Cells
<1>7. CellFront(c) \in Str
  BY FrontFacts
<1> HIDE DEF a, opt, size, lock
<1>8. Len(CellFront(c)) = 24 + lock /\ SubSeq(CellFront(c), 1, 4) = checked_len_prefix(size)
  <2>1. /\ Len(Joined6(a)) = 4 + Len(a[2]) + Len(a[3]) + Len(a[4]) + Len(a[5]) + Len(a[6])
        /\ SubSeq(Joined6(a), 1, 4) = a[1]
    BY <1>2, JoinLength
  <2> QED
    BY <1>2, <1>3, <1>5, <2>1
<1>9. CellOutput(c) \in Str /\ Len(CellOutput(c)) = size /\ size >= 4
  <2>1. CellFront(c) \o opt \in Str /\ Len(CellFront(c) \o opt) = Len(CellFront(c)) + Len(opt)
    BY <1>5, <1>7, StrConcat
  <2> QED
    BY <1>4, <1>5, <1>8, <2>1
<1>10. SubSeq(CellOutput(c), 1, 4) = checked_len_prefix(size)
  <2>1. Len(CellFront(c)) >= 4
    BY <1>5, <1>8
  <2> QED
    BY <1>4, <1>5, <1>7, <1>8, <2>1, PrefixOf
<1> QED
  BY <1>4, <1>6, <1>9, <1>10 DEF Tables, Bytes, Str, opt

\* The bytes of a cell are framed and tell the cell: what is left for the type is what its
\* length says.
LEMMA CellOutputFramed ==
  ASSUME NEW c \in Cells, NEW e \in Cells
  PROVE  /\ CellOutput(c) \in Str /\ CellOutput(e) \in Str
         /\ Framed(CellOutput(c), CellOutput(e))
         /\ CellOutput(c) = CellOutput(e) => c = e
<1>1. /\ CellOutput(c) \in Str /\ CellOutput(e) \in Str
      /\ Framed(CellOutput(c), CellOutput(e))
  BY CellOutputTable, TablesFramed
<1>2. ASSUME CellOutput(c) = CellOutput(e)
      PROVE  c = e
  <2>1. CellFront(c) \o OptBytes(c[3]) = CellFront(e) \o OptBytes(e[3])
    BY <1>2, CellOutputTable
  <2>2. OptBytes(c[3]) \in Str /\ OptBytes(e[3]) \in Str
    BY CellFields
  <2>3. /\ CellFront(c) = CellFront(e) => c[1] = e[1] /\ c[2] = e[2]
        /\ Framed(CellFront(c), CellFront(e))
    BY FrontFacts
  <2>4. CellFront(c) = CellFront(e) /\ OptBytes(c[3]) = OptBytes(e[3])
    BY <2>1, <2>2, <2>3 DEF Framed
  <2>5. c[3] = e[3]
    <3>1. /\ c[3] \in {s \in Seq(Tables) : Len(s) <= 1}
          /\ e[3] \in {s \in Seq(Tables) : Len(s) <= 1}
      BY CellFields
    <3> DEFINE x == c[3]
               y == e[3]
    <3> HIDE DEF x, y
    <3>2. /\ x = <<>> => OptBytes(x) = <<>>
          /\ x # <<>> => x = <<OptBytes(x)>> /\ OptBytes(x) # <<>>
      BY <3>1, OptBytesFacts DEF x
    <3>3. /\ y = <<>> => OptBytes(y) = <<>>
          /\ y # <<>> => y = <<OptBytes(y)>> /\ OptBytes(y) # <<>>
      BY <3>1, OptBytesFacts DEF y
    <3>4. OptBytes(x) = OptBytes(y)
      BY <2>4 DEF x, y
    <3> QED
      BY <3>2, <3>3, <3>4 DEF x, y
  <2>6. c = <<c[1], c[2], c[3]>> /\ e = <<e[1], e[2], e[3]>>
    BY CellFields
  <2> QED
    BY <2>3, <2>4, <2>5, <2>6
<1> QED
  BY <1>1, <1>2

\* A cell with its data.
LEMMA CellAndData ==
  ASSUME NEW c \in Cells, NEW e \in Cells, NEW m \in Bytes, NEW n \in Bytes
  PROVE  /\ CellOutput(c) \o LenPrefixed(m) \in Str /\ CellOutput(e) \o LenPrefixed(n) \in Str
         /\ Framed(CellOutput(c) \o LenPrefixed(m), CellOutput(e) \o LenPrefixed(n))
         /\ CellOutput(c) \o LenPrefixed(m) = CellOutput(e) \o LenPrefixed(n)
              => c = e /\ m = n
         /\ CellOutput(c) \o LenPrefixed(m) # <<>>
<1> DEFINE p == CellOutput(c)
           q == CellOutput(e)
           x == LenPrefixed(m)
           y == LenPrefixed(n)
<1>1. p \in Str /\ q \in Str /\ Framed(p, q) /\ (p = q => c = e)
  BY CellOutputFramed
<1>2. x \in Str /\ x # <<>> /\ y \in Str /\ Framed(x, y) /\ (x = y => m = n)
  BY LenPrefixedFramed
<1> HIDE DEF p, q, x, y
<1>3. /\ p \o x \in Str /\ q \o y \in Str
      /\ Framed(p \o x, q \o y)
      /\ p \o x = q \o y => p = q /\ x = y
  BY <1>1, <1>2, FramedThen, StrConcat
<1>4. p \o x # <<>>
  BY <1>1, <1>2, ConcatEqualIffEmpty DEF Str
<1> QED
  BY <1>1, <1>2, <1>3, <1>4 DEF p, q, x, y

\* A function over 1..n is a sequence.
LEMMA FunctionIsSeq ==
  ASSUME NEW S, NEW n \in Nat, NEW f \in [1..n -> S]
  PROVE  f \in Seq(S) /\ Len(f) = n
OBVIOUS

\* There are four lists.
LEMMA DimCases == ASSUME NEW d \in Dim
  PROVE d = "inputs" \/ d = "outputs" \/ d = "cell_deps" \/ d = "header_deps"
BY DEF Dim

\* An input: since, out point, and the cell that names.
LEMMA InputFacts ==
  ASSUME NEW x \in ListItems["inputs"]
  PROVE  /\ x[1] \in Fixed(8) /\ x[2] \in Fixed(36) /\ x = <<x[1], x[2]>>
         /\ Resolve(x[2]).output \in Cells /\ Resolve(x[2]).data \in Bytes
         /\ Resolve(x[2]) = [output |-> Resolve(x[2]).output, data |-> Resolve(x[2]).data]
<1>1. "inputs" \in Dim
  BY DEF Dim
<1>2. x \in ItemsOf("inputs") /\ Resolve(x[2]) \in [output : Cells, data : Bytes]
  BY <1>1, SigningAssumption
<1>3. x \in Fixed(8) \X Fixed(36)
  BY <1>2 DEF ItemsOf
<1> HIDE DEF Fixed, Cells, Bytes
<1> QED
  BY <1>2, <1>3

\* An output: a cell and its data.
LEMMA OutputFacts ==
  ASSUME NEW x \in ListItems["outputs"]
  PROVE  x.cell \in Cells /\ x.data \in Bytes /\ x = [cell |-> x.cell, data |-> x.data]
<1>1. x \in ItemsOf("outputs")
  BY SigningAssumption DEF Dim
<1> QED
  BY <1>1 DEF ItemsOf

\* Dependencies are of a fixed length.
LEMMA DepFacts ==
  /\ \A x \in ListItems["cell_deps"] : x \in Fixed(37)
  /\ \A x \in ListItems["header_deps"] : x \in Fixed(32)
<1>1. "cell_deps" \in Dim /\ "header_deps" \in Dim
  BY DEF Dim
<1>2. /\ \A x \in ListItems["cell_deps"] : x \in ItemsOf("cell_deps")
      /\ \A x \in ListItems["header_deps"] : x \in ItemsOf("header_deps")
  BY <1>1, SigningAssumption
<1> QED
  BY <1>2 DEF ItemsOf

\* The resolved cell of an input is framed and tells the cell.
LEMMA ResolvedFramed ==
  ASSUME NEW x \in ListItems["inputs"], NEW y \in ListItems["inputs"]
  PROVE  /\ Resolved(x) \in Str /\ Resolved(y) \in Str /\ Framed(Resolved(x), Resolved(y))
         /\ Resolved(x) = Resolved(y) => Resolve(x[2]) = Resolve(y[2])
         /\ Resolved(x) # <<>>
<1> DEFINE c == Resolve(x[2]).output
           m == Resolve(x[2]).data
           e == Resolve(y[2]).output
           n == Resolve(y[2]).data
<1>1. /\ c \in Cells /\ m \in Bytes /\ Resolve(x[2]) = [output |-> c, data |-> m]
      /\ e \in Cells /\ n \in Bytes /\ Resolve(y[2]) = [output |-> e, data |-> n]
  BY InputFacts
<1>2. /\ Resolved(x) = CellOutput(c) \o LenPrefixed(m)
      /\ Resolved(y) = CellOutput(e) \o LenPrefixed(n)
  BY DEF Resolved
<1> HIDE DEF c, m, e, n
<1>3. /\ CellOutput(c) \o LenPrefixed(m) \in Str /\ CellOutput(e) \o LenPrefixed(n) \in Str
      /\ Framed(CellOutput(c) \o LenPrefixed(m), CellOutput(e) \o LenPrefixed(n))
      /\ CellOutput(c) \o LenPrefixed(m) = CellOutput(e) \o LenPrefixed(n)
           => c = e /\ m = n
      /\ CellOutput(c) \o LenPrefixed(m) # <<>>
  BY <1>1, CellAndData
<1> QED
  BY <1>1, <1>2, <1>3

\* What is hashed of an item of a segment is framed and tells the item.
LEMMA SegmentSlotFramed ==
  ASSUME NEW d \in Dim, NEW x \in ListItems[d], NEW y \in ListItems[d]
  PROVE  /\ SegmentSlot(d, x) \in Str /\ SegmentSlot(d, y) \in Str
         /\ Framed(SegmentSlot(d, x), SegmentSlot(d, y))
         /\ SegmentSlot(d, x) = SegmentSlot(d, y) => x = y
<1>1. CASE d = "inputs"
  <2>0. x \in ListItems["inputs"] /\ y \in ListItems["inputs"]
    BY <1>1
  <2> DEFINE a == <<x[1], x[2], Resolved(x)>>
             b == <<y[1], y[2], Resolved(y)>>
  <2>1. /\ x[1] \in Fixed(8) /\ x[2] \in Fixed(36) /\ x = <<x[1], x[2]>>
        /\ y[1] \in Fixed(8) /\ y[2] \in Fixed(36) /\ y = <<y[1], y[2]>>
    BY <2>0, InputFacts
  <2>2. x[1] \in Str /\ y[1] \in Str /\ Framed(x[1], y[1])
    BY <2>1, FixedFramed
  <2>3. x[2] \in Str /\ y[2] \in Str /\ Framed(x[2], y[2])
    BY <2>1, FixedFramed
  <2>4. Resolved(x) \in Str /\ Resolved(y) \in Str /\ Framed(Resolved(x), Resolved(y))
    BY <2>0, ResolvedFramed
  <2>5. \A i \in 1..3 : a[i] \in Str /\ b[i] \in Str /\ Framed(a[i], b[i])
    BY <2>2, <2>3, <2>4
  <2>6. /\ SegmentSlot(d, x) = Joined3(a) /\ SegmentSlot(d, y) = Joined3(b)
        /\ a[1] = x[1] /\ a[2] = x[2] /\ b[1] = y[1] /\ b[2] = y[2]
    BY <1>1 DEF SegmentSlot, Joined3, Joined2
  <2> HIDE DEF a, b
  <2>7. InTurn(a, b, 3)
    BY <2>5 DEF InTurn
  <2>8. /\ Joined3(a) \in Str /\ Joined3(b) \in Str /\ Framed(Joined3(a), Joined3(b))
        /\ Joined3(a) = Joined3(b) => a[1] = b[1] /\ a[2] = b[2]
    BY <2>7, Join3
  <2> QED
    BY <2>1, <2>6, <2>8
<1>2. CASE d = "outputs"
  <2>1. /\ x.cell \in Cells /\ x.data \in Bytes /\ x = [cell |-> x.cell, data |-> x.data]
        /\ y.cell \in Cells /\ y.data \in Bytes /\ y = [cell |-> y.cell, data |-> y.data]
    BY <1>2, OutputFacts
  <2>2. /\ SegmentSlot(d, x) = CellOutput(x.cell) \o LenPrefixed(x.data)
        /\ SegmentSlot(d, y) = CellOutput(y.cell) \o LenPrefixed(y.data)
    BY <1>2 DEF SegmentSlot
  <2> DEFINE c == x.cell
             m == x.data
             e == y.cell
             n == y.data
  <2>3. c \in Cells /\ m \in Bytes /\ e \in Cells /\ n \in Bytes
    BY <2>1
  <2> HIDE DEF c, m, e, n
  <2>4. /\ CellOutput(c) \o LenPrefixed(m) \in Str /\ CellOutput(e) \o LenPrefixed(n) \in Str
        /\ Framed(CellOutput(c) \o LenPrefixed(m), CellOutput(e) \o LenPrefixed(n))
        /\ CellOutput(c) \o LenPrefixed(m) = CellOutput(e) \o LenPrefixed(n)
             => c = e /\ m = n
    BY <2>3, CellAndData
  <2> QED
    BY <2>1, <2>2, <2>4 DEF c, m, e, n
<1>3. CASE d = "cell_deps"
  <2>1. /\ x \in Fixed(37) /\ y \in Fixed(37)
        /\ SegmentSlot(d, x) = x /\ SegmentSlot(d, y) = y
    BY <1>3, DepFacts DEF SegmentSlot
  <2> QED
    BY <2>1, FixedFramed
<1>4. CASE d = "header_deps"
  <2>1. /\ x \in Fixed(32) /\ y \in Fixed(32)
        /\ SegmentSlot(d, x) = x /\ SegmentSlot(d, y) = y
    BY <1>4, DepFacts DEF SegmentSlot
  <2> QED
    BY <2>1, FixedFramed
<1> QED
  BY <1>1, <1>2, <1>3, <1>4, DimCases

\* Slots behind their index.
LEMMA SlotsFramed ==
  ASSUME NEW s \in Seq(Str), NEW t \in Seq(Str), Len(s) = Len(t),
         \A i \in 1..Len(s) : Framed(s[i], t[i]), NEW m, NEW n
  PROVE  /\ Slots(m, s) \in Str /\ Slots(n, t) \in Str
         /\ Framed(Slots(m, s), Slots(n, t))
         /\ Slots(m, s) = Slots(n, t) => s = t
<1> DEFINE a == [i \in DOMAIN s |-> checked_len_prefix(i - 1) \o s[i]]
           b == [i \in DOMAIN t |-> checked_len_prefix(i - 1) \o t[i]]
<1>1. /\ Len(s) \in Nat /\ DOMAIN s = 1..Len(s) /\ DOMAIN t = 1..Len(s)
      /\ \A i \in 1..Len(s) : s[i] \in Str /\ t[i] \in Str
  BY LenProperties, ElementOfSeq
<1>2. ASSUME NEW i \in 1..Len(s)
      PROVE  /\ a[i] \in Str /\ b[i] \in Str /\ Framed(a[i], b[i])
             /\ a[i] = b[i] => s[i] = t[i]
  <2> DEFINE p == checked_len_prefix(i - 1)
             x == s[i]
             y == t[i]
  <2>1. p \in Str /\ Framed(p, p) /\ x \in Str /\ y \in Str /\ Framed(x, y)
    <3>1. i - 1 \in Nat
      BY <1>1
    <3> QED
      BY <1>1, <3>1, PrefixType, PrefixFramed
  <2>2. a[i] = p \o x /\ b[i] = p \o y
    BY <1>1
  <2> HIDE DEF p, x, y, a, b
  <2>3. /\ p \o x \in Str /\ p \o y \in Str /\ Framed(p \o x, p \o y)
        /\ p \o x = p \o y => x = y
    BY <2>1, FramedThen, StrConcat
  <2> QED
    BY <2>2, <2>3 DEF x, y
<1>3. a \in Seq(Str) /\ b \in Seq(Str) /\ Len(a) = Len(s) /\ Len(b) = Len(s)
  <2>1. a \in [1..Len(s) -> Str] /\ b \in [1..Len(s) -> Str]
    <3>1. DOMAIN a = 1..Len(s) /\ DOMAIN b = 1..Len(s)
      BY <1>1
    <3>2. a = [i \in 1..Len(s) |-> a[i]] /\ b = [i \in 1..Len(s) |-> b[i]]
      BY <1>1
    <3> HIDE DEF a, b
    <3> QED
      BY <1>2, <3>1, <3>2
  <2> HIDE DEF a, b
  <2> QED
    BY <1>1, <2>1, FunctionIsSeq
<1>4. Slots(m, s) = FlattenSeq(a) /\ Slots(n, t) = FlattenSeq(b)
  BY DEF Slots
<1> HIDE DEF a, b
<1>5. /\ FlattenSeq(a) \in Str /\ FlattenSeq(b) \in Str
      /\ Framed(FlattenSeq(a), FlattenSeq(b))
      /\ FlattenSeq(a) = FlattenSeq(b) => a = b
  BY <1>2, <1>3, FlattenFramed
<1>6. a = b => s = t
  BY <1>2, SeqEqual
<1> QED
  BY <1>4, <1>5, <1>6

(***************************************************************************)
(* What an OTX takes of each list.                                         *)
(***************************************************************************)
SegmentCounts(o, d) == [j \in 1..Len(o.segments) |-> o.segments[j].counts[d]]

\* What is taken of a list up to a segment, as a sum over the segments.
LEMMA TakenIs ==
  ASSUME NEW o, Len(o.segments) \in Nat, NEW s \in 0..Len(o.segments), NEW d
  PROVE  Taken(o, s, d) = o.start[d] + o.base[d] + SumOf(SegmentCounts(o, d), 1..s)
<1> DEFINE S == 1..s
           left(g, u) == IF u = {} THEN 0
                         ELSE o.segments[CHOOSE x \in u : TRUE].counts[d]
                                + g[u \ {CHOOSE x \in u : TRUE}]
           right(g, u) == IF u = {} THEN 0
                          ELSE SegmentCounts(o, d)[CHOOSE x \in u : TRUE]
                                 + g[u \ {CHOOSE x \in u : TRUE}]
           Left(g) == g = [u \in SUBSET S |-> left(g, u)]
           Right(g) == g = [u \in SUBSET S |-> right(g, u)]
<1>1. ASSUME NEW g, NEW u \in SUBSET S
      PROVE  left(g, u) = right(g, u)
  <2>1. CASE u # {}
    <3>1. (CHOOSE x \in u : TRUE) \in S
      BY <2>1
    <3>2. (CHOOSE x \in u : TRUE) \in 1..Len(o.segments)
      BY <3>1
    <3>3. QED
      BY <2>1, <3>2 DEF SegmentCounts
  <2>2. QED
    BY <2>1
<1>2. \A g : Left(g) <=> Right(g)
  <2> HIDE DEF left, right
  <2>1. QED
    BY <1>1
<1>3. Taken(o, s, d) = o.start[d] + o.base[d] + (CHOOSE g : Left(g))[S]
  BY DEF Taken, MapThenSumSet, MapThenFoldSet
<1>4. SumOf(SegmentCounts(o, d), S) = (CHOOSE g : Right(g))[S]
  <2> HIDE DEF S
  <2>1. QED
    BY DEF SumOf, MapThenSumSet, MapThenFoldSet
<1> HIDE DEF Left, Right
<1>5. (CHOOSE g : Left(g)) = (CHOOSE g : Right(g))
  BY <1>2, Zenon
<1>6. QED
  BY <1>3, <1>4, <1>5

\* The fields of a view.
LEMMA ViewFacts ==
  ASSUME NEW o \in Otxs
  PROVE  /\ o.message \in Messages /\ o.append_permissions \in Byte
         /\ \A d \in Dim : /\ o.start[d] \in Nat /\ o.base[d] \in Nat
                           /\ o.masks[d] \in Str
         /\ Len(o.segments) \in Nat /\ Len(o.segments) <= MaxSegments
         /\ \A s \in 1..Len(o.segments) : /\ o.segments[s].flags \in Byte
                                          /\ \A d \in Dim : o.segments[s].counts[d] \in Nat
<1> DEFINE V == [flags : Byte, counts : [Dim -> Nat]]
<1>1. /\ o.message \in Messages /\ o.append_permissions \in Byte
      /\ o.start \in [Dim -> Nat] /\ o.base \in [Dim -> Nat] /\ o.masks \in [Dim -> Seq(Byte)]
      /\ o.segments \in Seq(V) /\ Len(o.segments) <= MaxSegments
  BY DEF Otxs
<1>2. Len(o.segments) \in Nat /\ \A s \in 1..Len(o.segments) : o.segments[s] \in V
  <2> HIDE DEF V
  <2> QED
    BY <1>1, LenProperties, ElementOfSeq
<1> QED
  BY <1>1, <1>2 DEF Str

\* The fields of a transaction.
LEMMA TransactionFacts ==
  ASSUME NEW t \in Transactions
  PROVE  /\ \A d \in Dim : /\ t.lists[d] \in Seq(ListItems[d])
                           /\ Len(t.lists[d]) \in Nat /\ Len(t.lists[d]) \in Small
         /\ t.message \in Seq(Messages) /\ Len(t.message) <= 1
         /\ t.witnesses \in Seq(Witnesses)
<1>1. /\ t.lists \in [inputs : Short(ListItems["inputs"]), outputs : Short(ListItems["outputs"]),
                      cell_deps : Short(ListItems["cell_deps"]),
                      header_deps : Short(ListItems["header_deps"])]
      /\ t.message \in Seq(Messages) /\ Len(t.message) <= 1
      /\ t.witnesses \in Seq(Witnesses)
  BY DEF Transactions
<1>2. \A d \in Dim : t.lists[d] \in Short(ListItems[d])
  BY <1>1 DEF Dim
<1>3. ASSUME NEW d \in Dim
      PROVE  /\ t.lists[d] \in Seq(ListItems[d])
             /\ Len(t.lists[d]) \in Nat /\ Len(t.lists[d]) < SizeLimit
  BY <1>2, LenProperties DEF Short
<1>4. SizeLimit \in Nat
  BY SMT DEF SizeLimit
<1>5. \A d \in Dim : Len(t.lists[d]) \in Small
  BY <1>3, <1>4 DEF Small
<1> QED
  BY <1>1, <1>3, <1>5

\* One segment after the other.
LEMMA TakenStep ==
  ASSUME NEW o \in Otxs, NEW d \in Dim
  PROVE  /\ Taken(o, 0, d) = o.start[d] + o.base[d]
         /\ \A s \in 0..Len(o.segments) : Taken(o, s, d) \in Nat
         /\ \A s \in 1..Len(o.segments) :
              Taken(o, s, d) = Taken(o, s - 1, d) + o.segments[s].counts[d]
<1>1. /\ o.start[d] \in Nat /\ o.base[d] \in Nat /\ Len(o.segments) \in Nat
      /\ \A s \in 1..Len(o.segments) : o.segments[s].counts[d] \in Nat
  BY ViewFacts
<1> DEFINE f == SegmentCounts(o, d)
<1>2. \A s \in 1..Len(o.segments) : f[s] = o.segments[s].counts[d] /\ f[s] \in Nat
  BY <1>1 DEF SegmentCounts
<1> HIDE DEF f
<1>3. \A s \in 0..Len(o.segments) :
        Taken(o, s, d) = o.start[d] + o.base[d] + SumOf(f, 1..s)
  BY <1>1, TakenIs DEF f
<1>4. ASSUME NEW s \in 0..Len(o.segments)
      PROVE  IsFiniteSet(1..s) /\ SumOf(f, 1..s) \in Nat
  <2>1. IsFiniteSet(1..s)
    <3>1. s \in Int /\ 1 \in Int
      BY <1>1
    <3> QED
      BY <3>1, FS_Interval
  <2>2. \A x \in 1..s : f[x] \in Nat
    BY <1>1, <1>2
  <2> QED
    BY <2>1, <2>2, SumFacts
<1>5. SumOf(f, 1..0) = 0
  <2>1. 1..0 = {}
    OBVIOUS
  <2> QED
    BY <2>1, SumEmpty
<1>6. ASSUME NEW s \in 1..Len(o.segments)
      PROVE  SumOf(f, 1..s) = SumOf(f, 1..(s - 1)) + f[s]
  <2> DEFINE S == 1..(s - 1)
  <2>1. s - 1 \in 0..Len(o.segments) /\ s \notin S /\ S \cup {s} = 1..s
    BY <1>1
  <2>2. IsFiniteSet(S)
    BY <1>4, <2>1
  <2>3. \A y \in S \cup {s} : f[y] \in Nat
    BY <1>1, <1>2
  <2> HIDE DEF S
  <2>4. SumOf(f, S \cup {s}) = SumOf(f, S) + f[s]
    BY <2>1, <2>2, <2>3, SumAdd
  <2> QED
    BY <2>1, <2>4 DEF S
<1>7. Taken(o, 0, d) = o.start[d] + o.base[d]
  <2>1. 0 \in 0..Len(o.segments)
    BY <1>1
  <2> QED
    BY <1>1, <1>3, <1>5, <2>1
<1>8. \A s \in 0..Len(o.segments) : Taken(o, s, d) \in Nat
  BY <1>1, <1>3, <1>4
<1>9. ASSUME NEW s \in 1..Len(o.segments)
      PROVE  Taken(o, s, d) = Taken(o, s - 1, d) + o.segments[s].counts[d]
  <2>1. s \in 0..Len(o.segments) /\ s - 1 \in 0..Len(o.segments)
    BY <1>1
  <2>2. /\ Taken(o, s, d) = o.start[d] + o.base[d] + SumOf(f, 1..s)
        /\ Taken(o, s - 1, d) = o.start[d] + o.base[d] + SumOf(f, 1..(s - 1))
    BY <1>3, <2>1
  <2>3. SumOf(f, 1..(s - 1)) \in Nat /\ f[s] \in Nat /\ f[s] = o.segments[s].counts[d]
    BY <1>2, <1>4, <2>1
  <2> QED
    BY <1>1, <1>6, <2>2, <2>3
<1> QED
  BY <1>7, <1>8, <1>9

\* No segment reaches further than the last.
LEMMA TakenWithin ==
  ASSUME NEW o \in Otxs, NEW d \in Dim, NEW s \in 0..Len(o.segments)
  PROVE  Taken(o, s, d) <= Taken(o, Len(o.segments), d)
<1> DEFINE n == Len(o.segments)
           Good == {k \in 0..n : s <= n - k => Taken(o, n - k, d) <= Taken(o, n, d)}
<1>1. /\ n \in Nat
      /\ \A k \in 0..n : Taken(o, k, d) \in Nat
      /\ \A k \in 1..n : o.segments[k].counts[d] \in Nat
      /\ \A k \in 1..n : Taken(o, k, d) = Taken(o, k - 1, d) + o.segments[k].counts[d]
  BY ViewFacts, TakenStep
<1> HIDE DEF n
<1>2. 0 \in Good
  BY <1>1
<1>3. ASSUME NEW k \in 0..(n - 1), k \in Good
      PROVE  k + 1 \in Good
  <2> DEFINE i == n - k
  <2>1. i \in 1..n /\ n - (k + 1) = i - 1 /\ i - 1 \in 0..n /\ i \in 0..n /\ n \in 0..n
        /\ k + 1 \in 0..n
    BY <1>1
  <2>2. s <= i => Taken(o, i, d) <= Taken(o, n, d)
    BY <1>3
  <2> HIDE DEF i
  <2>3. Taken(o, i, d) = Taken(o, i - 1, d) + o.segments[i].counts[d]
    BY <1>1, <2>1
  <2>4. /\ Taken(o, i, d) \in Nat /\ Taken(o, i - 1, d) \in Nat /\ Taken(o, n, d) \in Nat
        /\ o.segments[i].counts[d] \in Nat
    BY <1>1, <2>1
  <2>5. s \in Nat
    BY <1>1
  <2>6. s <= i - 1 => Taken(o, i - 1, d) <= Taken(o, n, d)
    <3> DEFINE x == Taken(o, i, d)
               y == Taken(o, i - 1, d)
               z == Taken(o, n, d)
               c == o.segments[i].counts[d]
    <3>1. /\ x \in Nat /\ y \in Nat /\ z \in Nat /\ c \in Nat /\ x = y + c
          /\ (s <= i => x <= z)
      BY <2>2, <2>3, <2>4
    <3> HIDE DEF x, y, z, c
    <3>2. s <= i - 1 => y <= z
      BY <1>1, <2>1, <2>5, <3>1
    <3> QED
      BY <3>2 DEF y, z
  <2> QED
    BY <2>1, <2>6
<1>4. \A k \in 0..n : k \in Good
  <2> HIDE DEF Good
  <2> QED
    BY <1>1, <1>2, <1>3, UpToInduction
<1>5. n - s \in 0..n /\ n - (n - s) = s /\ s <= s
  BY <1>1 DEF n
<1>6. n - s \in Good
  BY <1>4, <1>5
<1> QED
  BY <1>5, <1>6 DEF n

\* The items of each scope are there.
LEMMA ItemsThere ==
  ASSUME NEW t \in Transactions, NEW o \in Otxs, Valid(t, o), NEW d \in Dim
  PROVE  /\ BaseItems(t, o, d) \in Seq(ListItems[d]) /\ Len(BaseItems(t, o, d)) = o.base[d]
         /\ o.base[d] \in Small /\ o.base[d] \in Nat
         /\ \A s \in 1..Len(o.segments) :
              /\ SegmentItems(t, o, s, d) \in Seq(ListItems[d])
              /\ Len(SegmentItems(t, o, s, d)) = o.segments[s].counts[d]
              /\ o.segments[s].counts[d] \in Small /\ o.segments[s].counts[d] \in Nat
<1> DEFINE list == t.lists[d]
<1>1. /\ list \in Seq(ListItems[d]) /\ Len(list) \in Nat /\ Len(list) \in Small
      /\ \A i \in 1..Len(list) : list[i] \in ListItems[d]
  BY TransactionFacts, ElementOfSeq
<1>2. /\ Len(o.segments) \in Nat /\ o.start[d] \in Nat /\ o.base[d] \in Nat
      /\ \A s \in 1..Len(o.segments) : o.segments[s].counts[d] \in Nat
  BY ViewFacts
<1>3. Taken(o, Len(o.segments), d) <= Len(list)
  BY DEF Valid
<1> HIDE DEF list
<1>4. \A s \in 0..Len(o.segments) : Taken(o, s, d) \in Nat /\ Taken(o, s, d) <= Len(list)
  <2>1. ASSUME NEW s \in 0..Len(o.segments)
        PROVE  Taken(o, s, d) <= Len(list)
    <3>1. Len(o.segments) \in 0..Len(o.segments)
      BY <1>2
    <3>2. Taken(o, s, d) \in Nat /\ Taken(o, Len(o.segments), d) \in Nat
      BY <3>1, TakenStep
    <3> QED
      BY <1>1, <1>3, <3>2, TakenWithin
  <2> QED
    BY <2>1, TakenStep
<1>5. ASSUME NEW a \in Nat, NEW b \in Nat, NEW n \in Nat, b = a + n, b <= Len(list)
      PROVE  /\ SubSeq(list, a + 1, b) \in Seq(ListItems[d])
             /\ Len(SubSeq(list, a + 1, b)) = n
             /\ n \in Small
  <2>1. \A i \in (a + 1)..b : list[i] \in ListItems[d]
    BY <1>1, <1>5
  <2>2. a + 1 \in Int /\ b \in Int
    OBVIOUS
  <2>3. /\ SubSeq(list, a + 1, b) \in Seq(ListItems[d])
        /\ Len(SubSeq(list, a + 1, b)) = IF a + 1 <= b THEN b - (a + 1) + 1 ELSE 0
    BY <2>1, <2>2, SubSeqProperties
  <2>4. n <= Len(list) /\ SizeLimit \in Nat
    <3>1. SizeLimit \in Nat
      BY SMT DEF SizeLimit
    <3> QED
      BY <1>1, <1>5, <3>1
  <2> QED
    BY <1>1, <1>5, <2>3, <2>4 DEF Small
<1>6. /\ BaseItems(t, o, d) \in Seq(ListItems[d]) /\ Len(BaseItems(t, o, d)) = o.base[d]
      /\ o.base[d] \in Small
  <2>1. 0 \in 0..Len(o.segments)
    BY <1>2
  <2>2. Taken(o, 0, d) = o.start[d] + o.base[d] /\ Taken(o, 0, d) \in Nat
        /\ Taken(o, 0, d) <= Len(list)
    BY <1>4, <2>1, TakenStep
  <2>3. BaseItems(t, o, d) = SubSeq(list, o.start[d] + 1, Taken(o, 0, d))
    BY DEF BaseItems, list
  <2> DEFINE a == o.start[d]
             b == Taken(o, 0, d)
             n == o.base[d]
  <2>4. a \in Nat /\ b \in Nat /\ n \in Nat /\ b = a + n /\ b <= Len(list)
    BY <1>2, <2>2
  <2>5. BaseItems(t, o, d) = SubSeq(list, a + 1, b)
    BY <2>3
  <2> HIDE DEF a, b, n
  <2>6. /\ SubSeq(list, a + 1, b) \in Seq(ListItems[d])
        /\ Len(SubSeq(list, a + 1, b)) = n /\ n \in Small
    BY <1>5, <2>4
  <2> QED
    BY <2>5, <2>6 DEF n
<1>7. ASSUME NEW s \in 1..Len(o.segments)
      PROVE  /\ SegmentItems(t, o, s, d) \in Seq(ListItems[d])
             /\ Len(SegmentItems(t, o, s, d)) = o.segments[s].counts[d]
             /\ o.segments[s].counts[d] \in Small
  <2>1. s \in 0..Len(o.segments) /\ s - 1 \in 0..Len(o.segments)
    BY <1>2
  <2>2. /\ Taken(o, s, d) \in Nat /\ Taken(o, s - 1, d) \in Nat /\ Taken(o, s, d) <= Len(list)
        /\ Taken(o, s, d) = Taken(o, s - 1, d) + o.segments[s].counts[d]
    BY <1>4, <2>1, TakenStep
  <2>3. SegmentItems(t, o, s, d) = SubSeq(list, Taken(o, s - 1, d) + 1, Taken(o, s, d))
    BY DEF SegmentItems, list
  <2> DEFINE a == Taken(o, s - 1, d)
             b == Taken(o, s, d)
             n == o.segments[s].counts[d]
  <2>4. a \in Nat /\ b \in Nat /\ n \in Nat /\ b = a + n /\ b <= Len(list)
    BY <1>2, <2>2
  <2>5. SegmentItems(t, o, s, d) = SubSeq(list, a + 1, b)
    BY <2>3
  <2> HIDE DEF a, b, n
  <2>6. /\ SubSeq(list, a + 1, b) \in Seq(ListItems[d])
        /\ Len(SubSeq(list, a + 1, b)) = n /\ n \in Small
    BY <1>5, <2>4
  <2> QED
    BY <2>5, <2>6 DEF n
<1> QED
  BY <1>2, <1>6, <1>7

(***************************************************************************)
(* Segments.                                                               *)
(***************************************************************************)
\* The slots of a segment are bytes, one for each item.
LEMMA SlotsTyped ==
  ASSUME NEW d \in Dim, NEW x \in Seq(ListItems[d])
  PROVE  /\ [i \in DOMAIN x |-> SegmentSlot(d, x[i])] \in Seq(Str)
         /\ Len([i \in DOMAIN x |-> SegmentSlot(d, x[i])]) = Len(x)
<1>1. Len(x) \in Nat /\ DOMAIN x = 1..Len(x) /\ \A i \in 1..Len(x) : x[i] \in ListItems[d]
  BY LenProperties, ElementOfSeq
<1>2. \A i \in 1..Len(x) : SegmentSlot(d, x[i]) \in Str
  BY <1>1, SegmentSlotFramed
<1>3. [i \in DOMAIN x |-> SegmentSlot(d, x[i])] \in [1..Len(x) -> Str]
  BY <1>1, <1>2
<1> QED
  BY <1>1, <1>3, FunctionIsSeq

\* One list of a segment is framed and tells the items.
LEMMA SegmentListFramed ==
  ASSUME NEW t \in Transactions, NEW o \in Otxs, Valid(t, o), NEW s \in 1..Len(o.segments),
         NEW u \in Transactions, NEW p \in Otxs, Valid(u, p), NEW r \in 1..Len(p.segments),
         NEW d \in Dim
  PROVE  /\ SegmentList(t, o, s, d) \in Str /\ SegmentList(u, p, r, d) \in Str
         /\ Framed(SegmentList(t, o, s, d), SegmentList(u, p, r, d))
         /\ SegmentList(t, o, s, d) = SegmentList(u, p, r, d)
              => SegmentItems(t, o, s, d) = SegmentItems(u, p, r, d)
<1> DEFINE x == SegmentItems(t, o, s, d)
           y == SegmentItems(u, p, r, d)
           m == o.segments[s].counts[d]
           n == p.segments[r].counts[d]
           i == Taken(o, s - 1, d)
           j == Taken(p, r - 1, d)
<1>1. /\ x \in Seq(ListItems[d]) /\ Len(x) = m /\ m \in Small /\ m \in Nat
      /\ y \in Seq(ListItems[d]) /\ Len(y) = n /\ n \in Small /\ n \in Nat
  BY ItemsThere
<1>2. /\ SegmentList(t, o, s, d)
           = checked_len_prefix(m) \o Slots(i, [k \in DOMAIN x |-> SegmentSlot(d, x[k])])
      /\ SegmentList(u, p, r, d)
           = checked_len_prefix(n) \o Slots(j, [k \in DOMAIN y |-> SegmentSlot(d, y[k])])
  BY DEF SegmentList, SegmentSlots
<1> HIDE DEF x, y, m, n, i, j
<1> DEFINE a == checked_len_prefix(m)
           b == checked_len_prefix(n)
           v == [k \in DOMAIN x |-> SegmentSlot(d, x[k])]
           w == [k \in DOMAIN y |-> SegmentSlot(d, y[k])]
<1>3. a \in Str /\ b \in Str /\ Framed(a, b) /\ (a = b => m = n)
  BY <1>1, PrefixType, PrefixFramed, PrefixInjective
<1>4. v \in Seq(Str) /\ Len(v) = m /\ w \in Seq(Str) /\ Len(w) = n
  BY <1>1, SlotsTyped
<1>5. ASSUME NEW k \in 1..m, m = n
      PROVE  /\ Framed(v[k], w[k])
             /\ v[k] = w[k] => x[k] = y[k]
  <2>1. k \in DOMAIN x /\ k \in DOMAIN y /\ x[k] \in ListItems[d] /\ y[k] \in ListItems[d]
    BY <1>1, <1>5, LenProperties, ElementOfSeq
  <2> QED
    BY <2>1, SegmentSlotFramed
<1> HIDE DEF a, b, v, w
<1>6. FlattenSeq(v) \in Str /\ FlattenSeq(w) \in Str
  BY <1>4, FlattenType DEF Str
<1>7. Slots(i, v) \in Str /\ Slots(j, w) \in Str
  <2>1. \A k : \A z \in Seq(Str) : (\A l \in 1..Len(z) : Framed(z[l], z[l])) => Slots(k, z) \in Str
    BY SlotsFramed
  <2>2. \A z \in Seq(Str) : \A l \in 1..Len(z) : Framed(z[l], z[l])
    BY ElementOfSeq, SameLengthFramed
  <2> QED
    BY <1>4, <2>1, <2>2
<1>8. m = n => /\ Framed(Slots(i, v), Slots(j, w))
               /\ Slots(i, v) = Slots(j, w) => v = w
  BY <1>4, <1>5, SlotsFramed
<1>9. m = n /\ v = w => x = y
  BY <1>1, <1>5, SeqEqual
<1> DEFINE e == Slots(i, v)
           f == Slots(j, w)
<1>10. e \in Str /\ f \in Str /\ (a = b => Framed(e, f))
  BY <1>3, <1>7, <1>8
<1>11. SegmentList(t, o, s, d) = a \o e /\ SegmentList(u, p, r, d) = b \o f
  BY <1>2 DEF a, b, v, w
<1>12. m = n /\ e = f => x = y
  BY <1>8, <1>9
<1> HIDE DEF e, f
<1>13. /\ a \o e \in Str /\ b \o f \in Str /\ Framed(a \o e, b \o f)
       /\ a \o e = b \o f => a = b /\ e = f
  BY <1>3, <1>10, FramedThen, StrConcat
<1> QED
  BY <1>3, <1>11, <1>12, <1>13 DEF x, y

\* A segment is framed and tells its flags and items.
LEMMA SegmentFramed ==
  ASSUME NEW t \in Transactions, NEW o \in Otxs, Valid(t, o), NEW s \in 1..Len(o.segments),
         NEW u \in Transactions, NEW p \in Otxs, Valid(u, p), NEW r \in 1..Len(p.segments)
  PROVE  /\ SegmentBytes(t, o, s) \in Str /\ SegmentBytes(u, p, r) \in Str
         /\ Framed(SegmentBytes(t, o, s), SegmentBytes(u, p, r))
         /\ SegmentBytes(t, o, s) = SegmentBytes(u, p, r)
              => /\ o.segments[s].flags = p.segments[r].flags
                 /\ \A d \in Dim : SegmentItems(t, o, s, d) = SegmentItems(u, p, r, d)
<1> DEFINE a == <<SegmentList(t, o, s, "inputs"), SegmentList(t, o, s, "outputs"),
                  SegmentList(t, o, s, "cell_deps"), SegmentList(t, o, s, "header_deps")>>
           b == <<SegmentList(u, p, r, "inputs"), SegmentList(u, p, r, "outputs"),
                  SegmentList(u, p, r, "cell_deps"), SegmentList(u, p, r, "header_deps")>>
<1>1. \A d \in Dim :
        /\ SegmentList(t, o, s, d) \in Str /\ SegmentList(u, p, r, d) \in Str
        /\ Framed(SegmentList(t, o, s, d), SegmentList(u, p, r, d))
        /\ SegmentList(t, o, s, d) = SegmentList(u, p, r, d)
             => SegmentItems(t, o, s, d) = SegmentItems(u, p, r, d)
  BY SegmentListFramed
<1>2. "inputs" \in Dim /\ "outputs" \in Dim /\ "cell_deps" \in Dim /\ "header_deps" \in Dim
  BY DEF Dim
<1>3. \A i \in 1..4 : a[i] \in Str /\ b[i] \in Str /\ Framed(a[i], b[i])
  BY <1>1, <1>2
<1>4. a[1] = b[1] /\ a[2] = b[2] /\ a[3] = b[3] /\ a[4] = b[4]
        => \A d \in Dim : SegmentItems(t, o, s, d) = SegmentItems(u, p, r, d)
  <2>1. SUFFICES ASSUME a[1] = b[1], a[2] = b[2], a[3] = b[3], a[4] = b[4], NEW d \in Dim
                 PROVE  SegmentList(t, o, s, d) = SegmentList(u, p, r, d)
    BY <1>1
  <2> QED
    BY <2>1, DimCases
<1>5. SegmentEntities(t, o, s) = Joined4(a) /\ SegmentEntities(u, p, r) = Joined4(b)
  BY DEF SegmentEntities, Joined4, Joined3, Joined2
<1> DEFINE f == o.segments[s].flags
           g == p.segments[r].flags
<1>6. f \in Byte /\ g \in Byte
  BY ViewFacts
<1>7. SegmentBytes(t, o, s) = <<f>> \o Joined4(a) /\ SegmentBytes(u, p, r) = <<g>> \o Joined4(b)
  BY <1>5 DEF SegmentBytes
<1> HIDE DEF a, b, f, g
<1>8. InTurn(a, b, 4)
  BY <1>3 DEF InTurn
<1>9. /\ Joined4(a) \in Str /\ Joined4(b) \in Str /\ Framed(Joined4(a), Joined4(b))
      /\ Joined4(a) = Joined4(b) => a[1] = b[1] /\ a[2] = b[2] /\ a[3] = b[3] /\ a[4] = b[4]
  BY <1>8, Join4
<1>10. <<f>> \in Str /\ <<g>> \in Str /\ Framed(<<f>>, <<g>>) /\ (<<f>> = <<g>> => f = g)
  BY <1>6, ByteFramed
<1> DEFINE v == <<f>>
           w == <<g>>
           x == Joined4(a)
           y == Joined4(b)
<1>11. /\ v \in Str /\ w \in Str /\ Framed(v, w) /\ x \in Str /\ y \in Str /\ Framed(x, y)
  BY <1>9, <1>10
<1> HIDE DEF v, w, x, y
<1>12. /\ v \o x \in Str /\ w \o y \in Str /\ Framed(v \o x, w \o y)
       /\ v \o x = w \o y => v = w /\ x = y
  BY <1>11, FramedThen, StrConcat
<1>13. v = w => f = g
  BY <1>10 DEF v, w
<1>14. x = y => \A d \in Dim : SegmentItems(t, o, s, d) = SegmentItems(u, p, r, d)
  BY <1>4, <1>9 DEF x, y
<1>15. SegmentBytes(t, o, s) = v \o x /\ SegmentBytes(u, p, r) = w \o y
  BY <1>7 DEF v, w, x, y
<1> QED
  BY <1>12, <1>13, <1>14, <1>15 DEF f, g

\* The bytes of a segment are those of its flags and items, wherever they are.
LEMMA SegmentBytesOf ==
  ASSUME NEW t \in Transactions, NEW o \in Otxs, Valid(t, o), NEW s \in 1..Len(o.segments),
         NEW u \in Transactions, NEW p \in Otxs, Valid(u, p), NEW r \in 1..Len(p.segments),
         o.segments[s].flags = p.segments[r].flags,
         \A d \in Dim : SegmentItems(t, o, s, d) = SegmentItems(u, p, r, d)
  PROVE  SegmentBytes(t, o, s) = SegmentBytes(u, p, r)
<1>1. ASSUME NEW d \in Dim
      PROVE  SegmentList(t, o, s, d) = SegmentList(u, p, r, d)
  <2>1. o.segments[s].counts[d] = p.segments[r].counts[d]
    BY ItemsThere
  <2>2. SegmentSlots(t, o, s, d) = SegmentSlots(u, p, r, d)
    BY DEF SegmentSlots
  <2>3. \A m, n, x : Slots(m, x) = Slots(n, x)
    BY DEF Slots
  <2> QED
    BY <2>1, <2>2, <2>3 DEF SegmentList
<1>2. SegmentEntities(t, o, s) = SegmentEntities(u, p, r)
  BY <1>1 DEF SegmentEntities, Dim
<1> QED
  BY <1>2 DEF SegmentBytes

\* The first byte is the flags, the fifth the last of the number of inputs.
LEMMA SegmentBegins ==
  ASSUME NEW t \in Transactions, NEW o \in Otxs, Valid(t, o), NEW s \in 1..Len(o.segments)
  PROVE  /\ Len(SegmentBytes(t, o, s)) \in Nat /\ Len(SegmentBytes(t, o, s)) >= 5
         /\ SegmentBytes(t, o, s)[1] = o.segments[s].flags
         /\ SegmentBytes(t, o, s)[5] = 0
<1> DEFINE f == o.segments[s].flags
           n == o.segments[s].counts["inputs"]
           c == checked_len_prefix(n)
           rest == Slots(Taken(o, s - 1, "inputs"), SegmentSlots(t, o, s, "inputs"))
           l == SegmentList(t, o, s, "inputs")
           b == SegmentList(t, o, s, "outputs")
           k == SegmentList(t, o, s, "cell_deps")
           h == SegmentList(t, o, s, "header_deps")
<1>1. "inputs" \in Dim /\ "outputs" \in Dim /\ "cell_deps" \in Dim /\ "header_deps" \in Dim
  BY DEF Dim
<1>2. f \in Byte /\ n \in Nat
  BY <1>1, ViewFacts
<1>3. l \in Str /\ b \in Str /\ k \in Str /\ h \in Str
  BY <1>1, SegmentListFramed
<1>4. c \in Str /\ Len(c) = 4 /\ c[4] = 0
  BY <1>2, PrefixType
<1>5. rest \in Str
  <2> DEFINE x == SegmentItems(t, o, s, "inputs")
             v == SegmentSlots(t, o, s, "inputs")
  <2>1. x \in Seq(ListItems["inputs"])
    BY <1>1, ItemsThere
  <2>2. v \in Seq(Str)
    BY <1>1, <2>1, SlotsTyped DEF SegmentSlots
  <2>3. \A m : \A z \in Seq(Str) : (\A i \in 1..Len(z) : Framed(z[i], z[i])) => Slots(m, z) \in Str
    BY SlotsFramed
  <2>4. \A z \in Seq(Str) : \A i \in 1..Len(z) : Framed(z[i], z[i])
    BY ElementOfSeq, SameLengthFramed
  <2> QED
    BY <2>2, <2>3, <2>4
<1>6. l = c \o rest
  BY DEF SegmentList
<1>7. SegmentBytes(t, o, s) = <<f>> \o (l \o b \o k \o h)
  BY DEF SegmentBytes, SegmentEntities
<1>8. <<f>> \in Str /\ Len(<<f>>) = 1
  BY <1>2, ByteFramed
<1> HIDE DEF f, n, c, rest, l, b, k, h
<1>9. ASSUME NEW x \in Str, NEW y \in Str, Len(x) >= 4, x[4] = 0
      PROVE  x \o y \in Str /\ Len(x \o y) >= 4 /\ (x \o y)[4] = 0
  <2>1. Len(x) \in Nat /\ Len(y) \in Nat
    BY LenProperties DEF Str
  <2>2. 4 \in 1..(Len(x) + Len(y))
    BY <1>9, <2>1
  <2> QED
    BY <1>9, <2>1, <2>2, ConcatProperties DEF Str
<1>10. l \in Str /\ Len(l) >= 4 /\ l[4] = 0
  <2>1. Len(c) >= 4
    BY <1>4
  <2>2. c \o rest \in Str /\ Len(c \o rest) >= 4 /\ (c \o rest)[4] = 0
    BY <1>4, <1>5, <1>9, <2>1
  <2> QED
    BY <1>6, <2>2
<1> DEFINE q == l \o b \o k \o h
<1>11. q \in Str /\ Len(q) >= 4 /\ q[4] = 0
  <2> DEFINE x == l \o b
             y == x \o k
  <2>1. x \in Str /\ Len(x) >= 4 /\ x[4] = 0
    BY <1>3, <1>9, <1>10
  <2> HIDE DEF x
  <2>2. y \in Str /\ Len(y) >= 4 /\ y[4] = 0
    BY <1>3, <1>9, <2>1
  <2> HIDE DEF y
  <2>3. y \o h \in Str /\ Len(y \o h) >= 4 /\ (y \o h)[4] = 0
    BY <1>3, <1>9, <2>2
  <2> QED
    BY <2>3 DEF x, y
<1>12. SegmentBytes(t, o, s) = <<f>> \o q
  BY <1>7
<1> HIDE DEF q
<1>13. /\ Len(q) \in Nat /\ Len(<<f>> \o q) = 1 + Len(q)
       /\ \A i \in 1..(1 + Len(q)) : (<<f>> \o q)[i] = IF i <= 1 THEN <<f>>[i] ELSE q[i - 1]
  BY <1>8, <1>11, ConcatProperties, LenProperties DEF Str
<1>14. 1 \in 1..(1 + Len(q)) /\ 5 \in 1..(1 + Len(q))
  BY <1>11, <1>13
<1>15. (<<f>> \o q)[1] = f /\ (<<f>> \o q)[5] = q[4]
  BY <1>13, <1>14
<1> QED
  BY <1>11, <1>12, <1>13, <1>15 DEF f

\* Parts put together begin as the first of them does.
LEMMA FlattenHead ==
  ASSUME NEW s \in Seq(Str), Len(s) >= 1, Len(s[1]) >= 1
  PROVE  Len(FlattenSeq(s)) >= 1 /\ FlattenSeq(s)[1] = s[1][1]
<1> DEFINE Fine(x) == x \in Str /\ Len(x) >= 1 /\ x[1] = s[1][1]
           Good == {n \in 0..Len(s) : n >= 1 => Fine(UpTo(s, n))}
<1>1. /\ Len(s) \in Nat /\ \A i \in 1..Len(s) : s[i] \in Str
      /\ UpTo(s, 0) = <<>>
      /\ \A n \in 1..Len(s) : UpTo(s, n) = UpTo(s, n - 1) \o s[n]
      /\ \A n \in 0..Len(s) : UpTo(s, n) \in Str
  BY LenProperties, ElementOfSeq, UpToStep DEF Str
<1>2. 0 \in Good
  BY <1>1
<1>3. ASSUME NEW n \in 0..(Len(s) - 1), n \in Good
      PROVE  n + 1 \in Good
  <2> DEFINE k == n + 1
  <2>1. k \in 1..Len(s) /\ k - 1 = n /\ k \in 0..Len(s)
    BY <1>1
  <2>2. n >= 1 => Fine(UpTo(s, n))
    BY <1>3
  <2> HIDE DEF k, Fine
  <2>3. UpTo(s, k) = UpTo(s, n) \o s[k]
    BY <1>1, <2>1
  <2>4. Fine(UpTo(s, k))
    <3>1. CASE n = 0
      <4>1. k = 1
        BY <2>1, <3>1
      <4>2. UpTo(s, k) = s[1] /\ s[1] \in Str
        BY <1>1, <2>1, <2>3, <3>1, <4>1, StrEmpty
      <4> QED
        BY <4>2 DEF Fine
    <3>2. CASE n # 0
      <4> DEFINE x == UpTo(s, n)
                 y == s[k]
      <4>1. n >= 1 /\ x \in Str /\ y \in Str
        BY <1>1, <2>1, <3>2
      <4>2. Len(x) >= 1 /\ x[1] = s[1][1]
        BY <2>2, <4>1 DEF Fine
      <4> HIDE DEF x, y
      <4>3. Len(x) \in Nat /\ Len(y) \in Nat
        BY <4>1, LenProperties DEF Str
      <4>4. 1 \in 1..(Len(x) + Len(y)) /\ 1 <= Len(x)
        BY <4>2, <4>3
      <4>5. x \o y \in Str /\ Len(x \o y) >= 1 /\ (x \o y)[1] = x[1]
        BY <4>1, <4>3, <4>4, ConcatProperties DEF Str
      <4> QED
        BY <2>3, <4>2, <4>5 DEF Fine, x, y
    <3> QED
      BY <3>1, <3>2
  <2> QED
    BY <2>1, <2>4 DEF k
<1>4. \A n \in 0..Len(s) : n \in Good
  <2> HIDE DEF Good
  <2> QED
    BY <1>1, <1>2, <1>3, UpToInduction
<1>5. Fine(UpTo(s, Len(s)))
  <2>1. Len(s) \in 0..Len(s)
    BY <1>1
  <2>2. Len(s) \in Good
    BY <1>4, <2>1
  <2> HIDE DEF Fine
  <2> QED
    BY <2>2
<1> QED
  BY <1>5, FlattenIsUpTo

\* The segments a segment covers, as they are hashed.
Covered(t, o, s) == [p \in 1..(s - 1) |-> SegmentBytes(t, o, p)]
SegmentPreimage(t, o, s) == PreviousSegments(t, o, s) \o SegmentBytes(t, o, s)

\* The segments in front of a segment, as bytes.
LEMMA CoveredTyped ==
  ASSUME NEW t \in Transactions, NEW o \in Otxs, Valid(t, o), NEW s \in 1..Len(o.segments)
  PROVE  /\ Covered(t, o, s) \in Seq(Str) /\ Len(Covered(t, o, s)) = s - 1
         /\ s - 1 \in Small /\ s - 1 \in Nat
         /\ \A i \in 1..(s - 1) : /\ i \in 1..Len(o.segments)
                                  /\ Covered(t, o, s)[i] = SegmentBytes(t, o, i)
         /\ FlattenSeq(Covered(t, o, s)) \in Str
<1>1. Len(o.segments) \in Nat /\ Len(o.segments) <= MaxSegments
  BY ViewFacts
<1>2. s - 1 \in Nat /\ \A i \in 1..(s - 1) : i \in 1..Len(o.segments)
  BY <1>1
<1>3. s - 1 \in Small
  <2>1. MaxSegments \in Int /\ MaxSegments <= SizeLimit - 1 /\ SizeLimit \in Int
    <3>1. SizeLimit \in Int
      BY SMT DEF SizeLimit
    <3> QED
      BY <3>1, SigningAssumption
  <2> QED
    BY <1>1, <1>2, <2>1 DEF Small
<1>4. \A i \in 1..(s - 1) : SegmentBytes(t, o, i) \in Str
  BY <1>2, SegmentFramed
<1>5. Covered(t, o, s) \in [1..(s - 1) -> Str]
  BY <1>4 DEF Covered
<1>6. Covered(t, o, s) \in Seq(Str) /\ Len(Covered(t, o, s)) = s - 1
  BY <1>2, <1>5, FunctionIsSeq
<1>7. \A i \in 1..(s - 1) : Covered(t, o, s)[i] = SegmentBytes(t, o, i)
  BY DEF Covered
<1> QED
  BY <1>2, <1>3, <1>6, <1>7, FlattenType DEF Str

\* What two segments with the coverage flag are made over.
LEMMA CoveringSame ==
  ASSUME NEW t \in Transactions, NEW o \in Otxs, Valid(t, o), NEW s \in 1..Len(o.segments),
         NEW u \in Transactions, NEW p \in Otxs, Valid(u, p), NEW r \in 1..Len(p.segments),
         CoversPrevious(o.segments[s].flags), CoversPrevious(p.segments[r].flags),
         SegmentPreimage(t, o, s) = SegmentPreimage(u, p, r)
  PROVE  /\ SegmentBytes(t, o, s) = SegmentBytes(u, p, r) /\ s = r
         /\ \A i \in 1..(s - 1) : SegmentBytes(t, o, i) = SegmentBytes(u, p, i)
<1> DEFINE v == Covered(t, o, s)
           w == Covered(u, p, r)
           a == <<checked_len_prefix(s - 1), FlattenSeq(v), SegmentBytes(t, o, s)>>
           b == <<checked_len_prefix(r - 1), FlattenSeq(w), SegmentBytes(u, p, r)>>
<1>1. /\ v \in Seq(Str) /\ Len(v) = s - 1 /\ s - 1 \in Small /\ s - 1 \in Nat
      /\ w \in Seq(Str) /\ Len(w) = r - 1 /\ r - 1 \in Small /\ r - 1 \in Nat
      /\ \A i \in 1..(s - 1) : i \in 1..Len(o.segments) /\ v[i] = SegmentBytes(t, o, i)
      /\ \A i \in 1..(r - 1) : i \in 1..Len(p.segments) /\ w[i] = SegmentBytes(u, p, i)
      /\ FlattenSeq(v) \in Str /\ FlattenSeq(w) \in Str
  BY CoveredTyped
<1>2. /\ SegmentPreimage(t, o, s) = Joined3(a) /\ SegmentPreimage(u, p, r) = Joined3(b)
  BY DEF SegmentPreimage, PreviousSegments, Covered, Joined3, Joined2
<1> HIDE DEF v, w
<1>3. a[1] \in Str /\ b[1] \in Str /\ Framed(a[1], b[1]) /\ (a[1] = b[1] => s - 1 = r - 1)
  BY <1>1, PrefixType, PrefixFramed, PrefixInjective
<1>4. s - 1 = r - 1
        => /\ Framed(FlattenSeq(v), FlattenSeq(w))
           /\ FlattenSeq(v) = FlattenSeq(w) => v = w
  <2>1. \A i \in 1..(s - 1) : s - 1 = r - 1 => Framed(v[i], w[i])
    BY <1>1, SegmentFramed
  <2> QED
    BY <1>1, <2>1, FlattenFramed
<1>5. a[3] \in Str /\ b[3] \in Str /\ Framed(a[3], b[3])
  BY SegmentFramed
<1>6. a[2] = FlattenSeq(v) /\ b[2] = FlattenSeq(w)
      /\ a[3] = SegmentBytes(t, o, s) /\ b[3] = SegmentBytes(u, p, r)
  OBVIOUS
<1> HIDE DEF a, b
<1>7. InTurn(a, b, 3)
  <2>1. \A i \in 1..3 : a[i] \in Str /\ b[i] \in Str
    BY <1>1, <1>3, <1>5, <1>6
  <2>2. ASSUME NEW i \in 1..3, \A j \in 1..3 : j < i => a[j] = b[j]
        PROVE  Framed(a[i], b[i])
    <3>1. CASE i = 2
      <4>1. a[1] = b[1]
        BY <2>2, <3>1
      <4> QED
        BY <1>3, <1>4, <1>6, <3>1, <4>1
    <3>2. CASE i # 2
      <4>1. i = 1 \/ i = 3
        BY <3>2
      <4> QED
        BY <1>3, <1>5, <4>1
    <3> QED
      BY <3>1, <3>2
  <2> QED
    BY <2>1, <2>2 DEF InTurn
<1>8. a[1] = b[1] /\ a[2] = b[2] /\ a[3] = b[3]
  BY <1>2, <1>7, Join3
<1>9. s = r
  BY <1>1, <1>3, <1>8
<1>10. v = w
  BY <1>4, <1>6, <1>8, <1>9
<1> QED
  BY <1>1, <1>6, <1>8, <1>9, <1>10

\* The fifth byte is the first behind four.
LEMMA FifthByte ==
  ASSUME NEW a \in Str, NEW b \in Str, Len(a) = 4, Len(b) >= 1
  PROVE  (a \o b)[5] = b[1]
<1>1. Len(b) \in Nat
  BY LenProperties DEF Str
<1>2. /\ Len(a \o b) = Len(a) + Len(b)
      /\ \A i \in 1..(Len(a) + Len(b)) :
           (a \o b)[i] = IF i <= Len(a) THEN a[i] ELSE b[i - Len(a)]
  <2>1. a \in Seq(Byte) /\ b \in Seq(Byte)
    BY DEF Str
  <2> QED
    BY <2>1, ConcatProperties
<1>3. 5 \in 1..(Len(a) + Len(b)) /\ ~(5 <= Len(a)) /\ 5 - Len(a) = 1
  BY <1>1
<1>4. (a \o b)[5] = b[5 - Len(a)]
  BY <1>2, <1>3
<1> QED
  BY <1>3, <1>4

\* A preimage with the segments in front is never one without: its fifth byte is that of
\* the flags of a segment that says so or lets more follow, where the other has the last
\* byte of a count.
LEMMA CoveringDiffers ==
  ASSUME NEW t \in Transactions, NEW o \in Otxs, Valid(t, o), NEW s \in 1..Len(o.segments),
         NEW u \in Transactions, NEW p \in Otxs, Valid(u, p), NEW r \in 1..Len(p.segments),
         CoversPrevious(o.segments[s].flags), ~CoversPrevious(p.segments[r].flags)
  PROVE  SegmentPreimage(t, o, s) # SegmentPreimage(u, p, r)
<1> DEFINE v == Covered(t, o, s)
           c == checked_len_prefix(s - 1)
           l == FlattenSeq(v)
           x == SegmentBytes(t, o, s)
           y == SegmentBytes(u, p, r)
<1>1. /\ v \in Seq(Str) /\ Len(v) = s - 1 /\ s - 1 \in Nat
      /\ \A i \in 1..(s - 1) : i \in 1..Len(o.segments) /\ v[i] = SegmentBytes(t, o, i)
      /\ l \in Str
  BY CoveredTyped
<1>2. /\ x \in Str /\ Len(x) \in Nat /\ Len(x) >= 5 /\ x[1] = o.segments[s].flags
      /\ y \in Str /\ y[5] = 0
  BY SegmentFramed, SegmentBegins
<1>3. c \in Str /\ Len(c) = 4
  BY <1>1, PrefixType
<1>4. SegmentPreimage(u, p, r) = y
  <2>1. SegmentPreimage(u, p, r) = <<>> \o y
    BY DEF SegmentPreimage, PreviousSegments
  <2> QED
    BY <1>2, <2>1, StrEmpty
<1>5. SegmentPreimage(t, o, s) = (c \o l) \o x
  BY DEF SegmentPreimage, PreviousSegments, Covered
<1>6. Len(o.segments) \in Nat /\ \A i \in 1..Len(o.segments) : o.segments[i].flags \in Byte
  BY ViewFacts
<1>7. o.segments[s].flags # 0
  BY DEF CoversPrevious
<1>8. CASE s = 1
  <2>1. l = <<>>
    <3>1. Len(v) = 0
      BY <1>1, <1>8
    <3>2. v = <<>>
      BY <1>1, <3>1, LenProperties
    <3> QED
      BY <3>1, <3>2 DEF FlattenSeq
  <2>2. SegmentPreimage(t, o, s) = c \o x
    BY <1>3, <1>5, <2>1, StrEmpty
  <2> HIDE DEF v, c, l, x, y
  <2>3. Len(x) >= 1
    BY <1>2
  <2>4. (c \o x)[5] = x[1]
    BY <1>2, <1>3, <2>3, FifthByte
  <2> QED
    BY <1>2, <1>4, <1>7, <2>2, <2>4
<1>9. CASE s # 1
  <2>1. s - 1 >= 1 /\ 1 \in 1..(s - 1) /\ 1 < Len(o.segments) /\ 1 \in 1..Len(o.segments)
    BY <1>6, <1>9
  <2>2. AllowsMore(o.segments[1].flags)
    <3>1. 1 \in DOMAIN o.segments
      <4>1. o.segments \in Seq([flags : Byte, counts : [Dim -> Nat]])
        BY DEF Otxs
      <4> QED
        BY <2>1, <4>1, LenProperties
    <3> QED
      BY <2>1, <3>1 DEF Valid
  <2>3. o.segments[1].flags # 0
    BY <2>2 DEF AllowsMore
  <2>4. v[1] = SegmentBytes(t, o, 1) /\ v[1][1] = o.segments[1].flags /\ Len(v[1]) >= 1
    <3>1. v[1] = SegmentBytes(t, o, 1)
      BY <1>1, <2>1
    <3>2. Len(SegmentBytes(t, o, 1)) \in Nat /\ Len(SegmentBytes(t, o, 1)) >= 5
          /\ SegmentBytes(t, o, 1)[1] = o.segments[1].flags
      BY <2>1, SegmentBegins
    <3> QED
      BY <3>1, <3>2
  <2>5. Len(l) >= 1 /\ l[1] = o.segments[1].flags
    <3> HIDE DEF v
    <3> QED
      BY <1>1, <2>1, <2>4, FlattenHead
  <2> HIDE DEF v, c, l, x, y
  <2>6. Len(l) \in Nat
    BY <1>1, LenProperties DEF Str
  <2>7. (c \o l)[5] = l[1]
    BY <1>1, <1>3, <2>5, FifthByte
  <2>8. (c \o l)[5] = l[1] /\ c \o l \in Str /\ Len(c \o l) = Len(c) + Len(l)
    BY <1>1, <1>3, <2>7, StrConcat
  <2> DEFINE q == c \o l
  <2>9. q \in Str /\ q[5] = l[1] /\ Len(q) = Len(c) + Len(l)
    BY <2>8
  <2> HIDE DEF q
  <2>10. 5 \in 1..(Len(q) + Len(x)) /\ 5 <= Len(q)
    BY <1>2, <1>3, <2>5, <2>6, <2>9
  <2>11. (q \o x)[5] = q[5]
    BY <1>2, <2>9, <2>10, ConcatProperties DEF Str
  <2> QED
    BY <1>2, <1>4, <1>5, <2>3, <2>5, <2>9, <2>11 DEF q
<1> QED
  BY <1>8, <1>9

\* Equal preimages are of equal segments and, with the coverage flag, of equal ones in
\* front.
LEMMA SegmentPreimageBinds ==
  ASSUME NEW t \in Transactions, NEW o \in Otxs, Valid(t, o), NEW s \in 1..Len(o.segments),
         NEW u \in Transactions, NEW p \in Otxs, Valid(u, p), NEW r \in 1..Len(p.segments),
         SegmentPreimage(t, o, s) = SegmentPreimage(u, p, r)
  PROVE  /\ SegmentBytes(t, o, s) = SegmentBytes(u, p, r)
         /\ o.segments[s].flags = p.segments[r].flags
         /\ CoversPrevious(o.segments[s].flags) =>
              /\ s = r
              /\ \A i \in 1..(s - 1) : SegmentBytes(t, o, i) = SegmentBytes(u, p, i)
<1>1. CASE CoversPrevious(o.segments[s].flags) /\ CoversPrevious(p.segments[r].flags)
  BY <1>1, CoveringSame, SegmentFramed
<1>2. CASE CoversPrevious(o.segments[s].flags) /\ ~CoversPrevious(p.segments[r].flags)
  BY <1>2, CoveringDiffers
<1>3. CASE ~CoversPrevious(o.segments[s].flags) /\ CoversPrevious(p.segments[r].flags)
  BY <1>3, CoveringDiffers
<1>4. CASE ~CoversPrevious(o.segments[s].flags) /\ ~CoversPrevious(p.segments[r].flags)
  <2>1. /\ SegmentPreimage(t, o, s) = <<>> \o SegmentBytes(t, o, s)
        /\ SegmentPreimage(u, p, r) = <<>> \o SegmentBytes(u, p, r)
    BY <1>4 DEF SegmentPreimage, PreviousSegments
  <2>2. SegmentBytes(t, o, s) = SegmentBytes(u, p, r)
    BY <2>1, SegmentFramed, StrEmpty
  <2> QED
    BY <1>4, <2>2, SegmentFramed
<1> QED
  BY <1>1, <1>2, <1>3, <1>4

(***************************************************************************)
(* Masks.                                                                  *)
(***************************************************************************)
\* Powers of two.
LEMMA Powers ==
  /\ 2^0 = 1 /\ 2^1 = 2 /\ 2^2 = 4 /\ 2^3 = 8 /\ 2^4 = 16 /\ 2^5 = 32 /\ 2^6 = 64 /\ 2^7 = 128
OBVIOUS

\* The powers a byte is divided by.
LEMMA PowerCases ==
  ASSUME NEW j \in 1..7
  PROVE  \/ j = 1 /\ 2^j = 2
         \/ j = 2 /\ 2^j = 4
         \/ j = 3 /\ 2^j = 8
         \/ j = 4 /\ 2^j = 16
         \/ j = 5 /\ 2^j = 32
         \/ j = 6 /\ 2^j = 64
         \/ j = 7 /\ 2^j = 128
<1>1. j = 1 \/ j = 2 \/ j = 3 \/ j = 4 \/ j = 5 \/ j = 6 \/ j = 7
  OBVIOUS
<1>2. j = 1 => 2^j = 2
  BY Powers
<1>3. j = 2 => 2^j = 4
  BY Powers
<1>4. j = 3 => 2^j = 8
  BY Powers
<1>5. j = 4 => 2^j = 16
  BY Powers
<1>6. j = 5 => 2^j = 32
  BY Powers
<1>7. j = 6 => 2^j = 64
  BY Powers
<1>8. j = 7 => 2^j = 128
  BY Powers
<1> QED
  BY <1>1, <1>2, <1>3, <1>4, <1>5, <1>6, <1>7, <1>8, Zenon

\* A byte is its bits.
LEMMA ByteIsBits ==
  ASSUME NEW x \in Byte
  PROVE  x = ((x \div 2^0) % 2) + 2 * ((x \div 2^1) % 2) + 4 * ((x \div 2^2) % 2)
               + 8 * ((x \div 2^3) % 2) + 16 * ((x \div 2^4) % 2) + 32 * ((x \div 2^5) % 2)
               + 64 * ((x \div 2^6) % 2) + 128 * ((x \div 2^7) % 2)
<1>1. x \in Int /\ 0 <= x /\ x <= 255
  BY DEF Byte
<1>2. x = ((x \div 1) % 2) + 2 * ((x \div 2) % 2) + 4 * ((x \div 4) % 2)
            + 8 * ((x \div 8) % 2) + 16 * ((x \div 16) % 2) + 32 * ((x \div 32) % 2)
            + 64 * ((x \div 64) % 2) + 128 * ((x \div 128) % 2)
  BY <1>1, SMT
<1> QED
  BY <1>2, Powers, SMT

\* The bits of a byte below a power of two, from that power on.
LEMMA NoBitsBeyond ==
  ASSUME NEW x \in Byte, NEW r \in 1..7, x < 2^r, NEW j \in r..7
  PROVE  (x \div 2^j) % 2 = 0
<1>1. x \in Int /\ 0 <= x
  BY DEF Byte
<1>2. \A y \in {2, 4, 8, 16, 32, 64, 128} : x < y => (x \div y) % 2 = 0
  BY <1>1, SMT
<1> DEFINE y == 2^j
           z == 2^r
<1>3. j \in 1..7 /\ r <= j /\ x < z
  OBVIOUS
<1>4. \/ j = 1 /\ y = 2
      \/ j = 2 /\ y = 4
      \/ j = 3 /\ y = 8
      \/ j = 4 /\ y = 16
      \/ j = 5 /\ y = 32
      \/ j = 6 /\ y = 64
      \/ j = 7 /\ y = 128
  BY <1>3, PowerCases, Zenon
<1>5. \/ r = 1 /\ z = 2
      \/ r = 2 /\ z = 4
      \/ r = 3 /\ z = 8
      \/ r = 4 /\ z = 16
      \/ r = 5 /\ z = 32
      \/ r = 6 /\ z = 64
      \/ r = 7 /\ z = 128
  BY PowerCases, Zenon
<1> HIDE DEF y, z
<1>6. x < y /\ y \in {2, 4, 8, 16, 32, 64, 128}
  BY <1>1, <1>3, <1>4, <1>5
<1>7. (x \div y) % 2 = 0
  BY <1>2, <1>6
<1> QED
  BY <1>7 DEF y

Bit(mask, k, b) == (mask[k] \div 2^(b - 1)) % 2
Digits(mask) == {Bit(mask, k, b) : k \in 1..Len(mask), b \in 1..8}

\* The bits of a mask, eight for each byte, in order.
LEMMA MaskBitsFacts ==
  ASSUME NEW mask \in Str
  PROVE  /\ Len(MaskBits(mask)) = 8 * Len(mask)
         /\ \A k \in 1..Len(mask), b \in 1..8 : MaskBits(mask)[8 * (k - 1) + b] = Bit(mask, k, b)
         /\ MaskBits(mask) \in Seq(Digits(mask))
<1> DEFINE S == Digits(mask)
           rows == [k \in DOMAIN mask |-> [b \in 1..8 |-> (mask[k] \div 2^(b - 1)) % 2]]
           m == Len(mask)
           Fine(n) == /\ Len(UpTo(rows, n)) = 8 * n
                      /\ \A k \in 1..n, b \in 1..8 : UpTo(rows, n)[8 * (k - 1) + b] = rows[k][b]
           Good == {n \in 0..m : Fine(n)}
<1>1. m \in Nat /\ DOMAIN mask = 1..m
  BY LenProperties DEF Str
<1>2. \A k \in 1..m : /\ rows[k] \in [1..8 -> S]
                      /\ \A b \in 1..8 : rows[k][b] = Bit(mask, k, b)
  <2>1. ASSUME NEW k \in 1..m
        PROVE  /\ rows[k] \in [1..8 -> S]
               /\ \A b \in 1..8 : rows[k][b] = Bit(mask, k, b)
    <3>1. rows[k] = [b \in 1..8 |-> Bit(mask, k, b)]
      BY <1>1 DEF Bit
    <3>2. \A b \in 1..8 : Bit(mask, k, b) \in S
      <4>1. m = Len(mask)
        OBVIOUS
      <4> HIDE DEF m
      <4> QED
        BY <4>1 DEF Digits
    <3> HIDE DEF rows, S
    <3> QED
      BY <3>1, <3>2
  <2> HIDE DEF rows, S
  <2> QED
    BY <2>1
<1>3. \A k \in 1..m : rows[k] \in Seq(S) /\ Len(rows[k]) = 8
  <2>1. \A f \in [1..8 -> S] : f \in Seq(S) /\ Len(f) = 8
    <3> HIDE DEF S
    <3>1. 8 \in Nat
      OBVIOUS
    <3> QED
      BY <3>1, FunctionIsSeq
  <2> HIDE DEF rows, S
  <2> QED
    BY <1>2, <2>1
<1>4. rows \in Seq(Seq(S)) /\ Len(rows) = m
  <2>1. DOMAIN rows = 1..m /\ rows = [k \in 1..m |-> rows[k]]
    BY <1>1
  <2> HIDE DEF rows, S
  <2>2. rows \in [1..m -> Seq(S)]
    BY <1>3, <2>1
  <2> QED
    BY <1>1, <2>2, FunctionIsSeq
<1>5. MaskBits(mask) = UpTo(rows, m)
  <2>1. MaskBits(mask) = FlattenSeq(rows)
    BY DEF MaskBits
  <2> HIDE DEF rows, S
  <2> QED
    BY <1>4, <2>1, FlattenIsUpTo
<1> HIDE DEF rows, S, m
<1>6. /\ UpTo(rows, 0) = <<>>
      /\ \A n \in 1..m : UpTo(rows, n) = UpTo(rows, n - 1) \o rows[n]
      /\ \A n \in 0..m : UpTo(rows, n) \in Seq(S)
  BY <1>4, UpToStep
<1>7. 0 \in Good
  <2>1. Fine(0)
    BY <1>6
  <2> HIDE DEF Fine
  <2> QED
    BY <1>1, <2>1
<1>8. ASSUME NEW n \in 0..(m - 1), n \in Good
      PROVE  n + 1 \in Good
  <2> DEFINE k == n + 1
             x == UpTo(rows, n)
             y == rows[k]
  <2>1. k \in 1..m /\ k - 1 = n /\ k \in 0..m /\ n \in 0..m /\ n \in Nat
    BY <1>1
  <2>2. Fine(n)
    BY <1>8
  <2>3. x \in Seq(S) /\ Len(x) = 8 * n /\ y \in Seq(S) /\ Len(y) = 8
    BY <1>3, <1>6, <2>1, <2>2
  <2>4. \A i \in 1..n, b \in 1..8 : x[8 * (i - 1) + b] = rows[i][b]
    BY <2>2
  <2>5. UpTo(rows, k) = x \o y
    <3> HIDE DEF k
    <3> QED
      BY <1>6, <2>1
  <2> HIDE DEF x, y, k, Fine
  <2>6. /\ Len(x \o y) = 8 * n + 8
        /\ \A i \in 1..(8 * n + 8) : (x \o y)[i] = IF i <= 8 * n THEN x[i] ELSE y[i - 8 * n]
    <3>1. /\ Len(x \o y) = Len(x) + Len(y)
          /\ \A i \in 1..(Len(x) + Len(y)) :
               (x \o y)[i] = IF i <= Len(x) THEN x[i] ELSE y[i - Len(x)]
      BY <2>3, ConcatProperties
    <3> QED
      BY <2>3, <3>1
  <2>7. ASSUME NEW i \in 1..k, NEW b \in 1..8
        PROVE  (x \o y)[8 * (i - 1) + b] = rows[i][b]
    <3> DEFINE j == 8 * (i - 1) + b
    <3>1. /\ j \in 1..(8 * n + 8) /\ (i \in 1..n => j <= 8 * n)
          /\ (i = k => j > 8 * n /\ j - 8 * n = b)
          /\ (i \in 1..n \/ i = k)
      BY <2>1
    <3> HIDE DEF j
    <3>2. (x \o y)[j] = IF j <= 8 * n THEN x[j] ELSE y[j - 8 * n]
      BY <2>6, <3>1
    <3>3. CASE i \in 1..n
      <4>1. x[j] = rows[i][b]
        BY <2>4, <3>3 DEF j
      <4> QED
        BY <3>1, <3>2, <3>3, <4>1 DEF j
    <3>4. CASE i = k
      <4>1. ~(j <= 8 * n) /\ y[j - 8 * n] = rows[i][b]
        <5>1. j \in Int /\ 8 * n \in Int
          BY <2>1, <3>1
        <5> QED
          BY <3>1, <3>4, <5>1 DEF y
      <4> QED
        BY <3>2, <4>1 DEF j
    <3> QED
      BY <3>1, <3>3, <3>4
  <2>8. Fine(k)
    <3>1. Len(UpTo(rows, k)) = 8 * k
      BY <2>1, <2>5, <2>6
    <3> QED
      BY <2>5, <2>7, <3>1 DEF Fine
  <2> QED
    BY <2>1, <2>8 DEF k
<1>9. Fine(m)
  <2> HIDE DEF Good
  <2>1. \A n \in 0..m : n \in Good
    BY <1>1, <1>7, <1>8, UpToInduction
  <2>2. m \in Good
    BY <1>1, <2>1
  <2> HIDE DEF Fine
  <2> QED
    BY <2>2 DEF Good
<1>10. MaskBits(mask) \in Seq(S)
  BY <1>1, <1>5, <1>6
<1>11. \A k \in 1..m, b \in 1..8 : MaskBits(mask)[8 * (k - 1) + b] = Bit(mask, k, b)
  BY <1>2, <1>5, <1>9
<1> QED
  BY <1>5, <1>9, <1>10, <1>11 DEF m, S

\* The bits of the fields are the first ones of an accepted mask.
LEMMA SignedBits ==
  ASSUME NEW mask \in Str, NEW n \in Nat, Validate(mask, n)
  PROVE  /\ n <= 8 * Len(mask) /\ Len(mask) \in Nat
         /\ Len(SubSeq(MaskBits(mask), 1, n)) = n
         /\ DOMAIN SubSeq(MaskBits(mask), 1, n) = 1..n
         /\ SubSeq(MaskBits(mask), 1, n) \in Seq(Digits(mask))
         /\ \A i \in 1..n : SubSeq(MaskBits(mask), 1, n)[i] = MaskBits(mask)[i]
<1> DEFINE S == Digits(mask)
           all == MaskBits(mask)
<1>1. Len(mask) \in Nat /\ all \in Seq(S) /\ Len(all) = 8 * Len(mask)
  BY MaskBitsFacts, LenProperties DEF Str
<1>2. Len(mask) = (n + 7) \div 8
  BY DEF Validate
<1>3. n <= 8 * Len(mask)
  BY <1>1, <1>2, SMT
<1> HIDE DEF S, all
<1>4. \A i \in 1..n : all[i] \in S
  <2>1. \A i \in 1..n : i \in 1..Len(all)
    BY <1>1, <1>3
  <2> QED
    BY <1>1, <2>1, ElementOfSeq
<1>5. /\ SubSeq(all, 1, n) \in Seq(S)
      /\ Len(SubSeq(all, 1, n)) = IF 1 <= n THEN n - 1 + 1 ELSE 0
      /\ \A i \in 1..(n - 1 + 1) : SubSeq(all, 1, n)[i] = all[1 + i - 1]
  <2>1. 1 \in Int /\ n \in Int
    OBVIOUS
  <2> QED
    BY <1>4, <2>1, SubSeqProperties
<1>6. Len(SubSeq(all, 1, n)) = n /\ \A i \in 1..n : SubSeq(all, 1, n)[i] = all[i]
  <2>1. n - 1 + 1 = n /\ \A i \in 1..n : 1 + i - 1 = i
    OBVIOUS
  <2> QED
    BY <1>5, <2>1
<1>7. DOMAIN SubSeq(all, 1, n) = 1..n
  BY <1>5, <1>6, LenProperties
<1> QED
  BY <1>1, <1>3, <1>5, <1>6, <1>7 DEF all, S

\* A bit behind those of the fields is not set.
LEMMA PaddingBits ==
  ASSUME NEW mask \in Str, NEW n \in Nat, Validate(mask, n),
         NEW k \in 1..Len(mask), NEW b \in 1..8, 8 * (k - 1) + b > n
  PROVE  Bit(mask, k, b) = 0
<1> DEFINE r == n % 8
           m == Len(mask)
<1>1. m = (n + 7) \div 8 /\ (r # 0 => mask[m] < 2^r)
  BY DEF Validate
<1>2. m \in Nat /\ mask[k] \in Byte
  BY LenProperties, ElementOfSeq DEF Str
<1>3. r \in 0..7 /\ n = 8 * (n \div 8) + r /\ n \div 8 \in Nat
  BY SMT
<1> HIDE DEF m
<1>4. r # 0 /\ k = m /\ b > r
  <2> DEFINE q == n \div 8
  <2>1. n = 8 * q + r /\ q \in Nat /\ m = (8 * q + r + 7) \div 8
    BY <1>1, <1>3
  <2>2. k \in Nat /\ k <= m /\ 8 * (k - 1) + b > 8 * q + r
    BY <1>2, <2>1 DEF m
  <2> HIDE DEF q, r
  <2>3. m = IF r = 0 THEN q ELSE q + 1
    BY <1>3, <2>1, SMT
  <2> QED
    BY <1>3, <2>1, <2>2, <2>3
<1>5. r \in 1..7 /\ mask[k] < 2^r /\ b - 1 \in r..7
  BY <1>1, <1>3, <1>4
<1> HIDE DEF r
<1>6. (mask[k] \div 2^(b - 1)) % 2 = 0
  <2> DEFINE x == mask[k]
             j == b - 1
  <2>1. x \in Byte /\ x < 2^r /\ j \in r..7
    BY <1>2, <1>5
  <2> HIDE DEF x, j
  <2>2. (x \div 2^j) % 2 = 0
    BY <1>5, <2>1, NoBitsBeyond
  <2> QED
    BY <2>2 DEF x, j
<1> QED
  BY <1>6 DEF Bit

\* An accepted mask is the bits of its fields, packed: one set of fields, one mask.
LEMMA MaskIsPacked ==
  ASSUME NEW mask \in Str, NEW n \in Nat, Validate(mask, n)
  PROVE  mask = Packed(SubSeq(MaskBits(mask), 1, n))
<1> DEFINE bits == SubSeq(MaskBits(mask), 1, n)
           bit(i) == IF i \in DOMAIN bits THEN bits[i] ELSE 0
           m == Len(mask)
<1>1. /\ n <= 8 * m /\ m \in Nat /\ Len(bits) = n /\ DOMAIN bits = 1..n
      /\ \A i \in 1..n : bits[i] = MaskBits(mask)[i]
  BY SignedBits
<1>2. mask \in [1..m -> Byte] /\ m = (n + 7) \div 8
  BY LenProperties DEF Str, Validate
<1> HIDE DEF bits
<1>3. ASSUME NEW k \in 1..m, NEW b \in 1..8
      PROVE  bit(8 * (k - 1) + b) = Bit(mask, k, b)
  <2> DEFINE i == 8 * (k - 1) + b
  <2>1. i \in Nat /\ i > 0
    BY <1>1
  <2>2. MaskBits(mask)[i] = Bit(mask, k, b)
    <3>1. \A x \in 1..Len(mask), y \in 1..8 : MaskBits(mask)[8 * (x - 1) + y] = Bit(mask, x, y)
      BY MaskBitsFacts
    <3> QED
      BY <3>1
  <2>3. i > n => Bit(mask, k, b) = 0
    BY PaddingBits
  <2> HIDE DEF i
  <2>4. CASE i <= n
    <3>1. i \in 1..n
      BY <2>1, <2>4
    <3> QED
      BY <1>1, <2>2, <3>1 DEF i
  <2>5. CASE i > n
    <3>1. i \notin 1..n
      BY <2>1, <2>5
    <3> QED
      BY <1>1, <2>3, <2>5, <3>1 DEF i
  <2> QED
    BY <2>1, <2>4, <2>5
<1> DEFINE byte(k) == bit(8*k - 7) + 2 * bit(8*k - 6) + 4 * bit(8*k - 5) + 8 * bit(8*k - 4)
             + 16 * bit(8*k - 3) + 32 * bit(8*k - 2) + 64 * bit(8*k - 1) + 128 * bit(8*k)
<1>4. Packed(bits) = [k \in 1..m |-> byte(k)]
  BY <1>1, <1>2 DEF Packed
<1>5. ASSUME NEW k \in 1..m
      PROVE  byte(k) = mask[k]
  <2>1. /\ 8*k - 7 = 8 * (k - 1) + 1 /\ 8*k - 6 = 8 * (k - 1) + 2 /\ 8*k - 5 = 8 * (k - 1) + 3
        /\ 8*k - 4 = 8 * (k - 1) + 4 /\ 8*k - 3 = 8 * (k - 1) + 5 /\ 8*k - 2 = 8 * (k - 1) + 6
        /\ 8*k - 1 = 8 * (k - 1) + 7 /\ 8*k = 8 * (k - 1) + 8
    OBVIOUS
  <2> HIDE DEF bit
  <2>2. /\ bit(8*k - 7) = Bit(mask, k, 1) /\ bit(8*k - 6) = Bit(mask, k, 2)
        /\ bit(8*k - 5) = Bit(mask, k, 3) /\ bit(8*k - 4) = Bit(mask, k, 4)
        /\ bit(8*k - 3) = Bit(mask, k, 5) /\ bit(8*k - 2) = Bit(mask, k, 6)
        /\ bit(8*k - 1) = Bit(mask, k, 7) /\ bit(8*k) = Bit(mask, k, 8)
    <3>1. \A b \in {1, 2, 3, 4, 5, 6, 7, 8} : bit(8 * (k - 1) + b) = Bit(mask, k, b)
      BY <1>3
    <3>2. /\ bit(8 * (k - 1) + 1) = Bit(mask, k, 1) /\ bit(8 * (k - 1) + 2) = Bit(mask, k, 2)
          /\ bit(8 * (k - 1) + 3) = Bit(mask, k, 3) /\ bit(8 * (k - 1) + 4) = Bit(mask, k, 4)
          /\ bit(8 * (k - 1) + 5) = Bit(mask, k, 5) /\ bit(8 * (k - 1) + 6) = Bit(mask, k, 6)
          /\ bit(8 * (k - 1) + 7) = Bit(mask, k, 7) /\ bit(8 * (k - 1) + 8) = Bit(mask, k, 8)
      BY <3>1
    <3> QED
      BY <2>1, <3>2
  <2>3. mask[k] = Bit(mask, k, 1) + 2 * Bit(mask, k, 2) + 4 * Bit(mask, k, 3)
                   + 8 * Bit(mask, k, 4) + 16 * Bit(mask, k, 5) + 32 * Bit(mask, k, 6)
                   + 64 * Bit(mask, k, 7) + 128 * Bit(mask, k, 8)
    <3> DEFINE x == mask[k]
    <3>1. x \in Byte
      BY <1>2
    <3> HIDE DEF x
    <3>2. x = ((x \div 2^0) % 2) + 2 * ((x \div 2^1) % 2) + 4 * ((x \div 2^2) % 2)
               + 8 * ((x \div 2^3) % 2) + 16 * ((x \div 2^4) % 2) + 32 * ((x \div 2^5) % 2)
               + 64 * ((x \div 2^6) % 2) + 128 * ((x \div 2^7) % 2)
      BY <3>1, ByteIsBits
    <3>3. /\ Bit(mask, k, 1) = (x \div 2^0) % 2 /\ Bit(mask, k, 2) = (x \div 2^1) % 2
          /\ Bit(mask, k, 3) = (x \div 2^2) % 2 /\ Bit(mask, k, 4) = (x \div 2^3) % 2
          /\ Bit(mask, k, 5) = (x \div 2^4) % 2 /\ Bit(mask, k, 6) = (x \div 2^5) % 2
          /\ Bit(mask, k, 7) = (x \div 2^6) % 2 /\ Bit(mask, k, 8) = (x \div 2^7) % 2
      BY DEF Bit, x
    <3> QED
      BY <3>2, <3>3 DEF x
  <2> QED
    BY <2>2, <2>3
<1> HIDE DEF byte, m
<1>6. mask = [k \in 1..m |-> byte(k)]
  BY <1>2, <1>5
<1> QED
  BY <1>4, <1>6 DEF bits

\* Reading a bit of a mask is reading one of its bits in order.
LEMMA GetIsBit ==
  ASSUME NEW mask \in Str, NEW n \in Nat, Validate(mask, n), NEW i \in 0..(n - 1)
  PROVE  Get(mask, i) <=> MaskBits(mask)[i + 1] = 1
<1> DEFINE k == i \div 8 + 1
           b == (i % 8) + 1
<1>1. n <= 8 * Len(mask) /\ Len(mask) \in Nat
  BY SignedBits
<1>2. i \in Nat /\ i < 8 * Len(mask)
  BY <1>1
<1>3. k \in 1..Len(mask) /\ b \in 1..8 /\ 8 * (k - 1) + b = i + 1
  BY <1>1, <1>2, SMT
<1>4. MaskBits(mask)[8 * (k - 1) + b] = Bit(mask, k, b)
  <2>1. \A x \in 1..Len(mask), y \in 1..8 : MaskBits(mask)[8 * (x - 1) + y] = Bit(mask, x, y)
    BY MaskBitsFacts
  <2> HIDE DEF k, b
  <2> QED
    BY <1>3, <2>1
<1>5. Bit(mask, k, b) = (mask[i \div 8 + 1] \div 2^(i % 8)) % 2
  <2>1. b - 1 = i % 8
    BY <1>2, SMT
  <2> HIDE DEF b
  <2> QED
    BY <2>1 DEF Bit
<1> QED
  BY <1>3, <1>4, <1>5 DEF Get

(***************************************************************************)
(* The base scope.                                                         *)
(***************************************************************************)
Width(d) == BITS_PER_CELL[d]
Fields(o, d, i) == SignedFields(o.masks[d], Width(d), i)

\* What is hashed of an item of which these fields are signed, and what that is to say.
SlotBytes(d, F, x) ==
  CASE d = "inputs" -> (IF 1 \in F THEN x[1] ELSE Zeros(8))
                         \o (IF 2 \in F THEN x[2] ELSE Zeros(36)) \o Resolved(x)
    [] d = "outputs" -> (IF 1 \in F THEN x.cell[1] ELSE Zeros(8))
                          \o (IF 2 \in F THEN x.cell[2] ELSE default_script)
                          \o (IF 3 \in F THEN OptBytes(x.cell[3]) ELSE <<>>)
                          \o LenPrefixed(IF 4 \in F THEN x.data ELSE <<>>)
    [] d = "cell_deps" -> IF 1 \in F THEN x ELSE Zeros(37)
    [] d = "header_deps" -> IF 1 \in F THEN x ELSE Zeros(32)
SlotMeaning(d, F, x) ==
  [fields |-> [f \in F |-> FieldsOf(d, x)[f]], resolved |-> ResolvedOf(d, x)]

\* How many fields an item of each list has.
LEMMA WidthIs ==
  /\ Width("inputs") = 2 /\ Width("outputs") = 4
  /\ Width("cell_deps") = 1 /\ Width("header_deps") = 1
  /\ \A d \in Dim : Width(d) \in {1, 2, 4} /\ Width(d) \in Nat
<1>1. /\ Width("inputs") = 2 /\ Width("outputs") = 4
      /\ Width("cell_deps") = 1 /\ Width("header_deps") = 1
  BY DEF Width, BITS_PER_CELL
<1> QED
  BY <1>1, DimCases

\* The bits the code reads are those of the field.
LEMMA IncludesIs ==
  ASSUME NEW t, NEW o \in Otxs, Valid(t, o), NEW d \in Dim, NEW i \in 1..o.base[d],
         NEW f \in 1..Width(d)
  PROVE  Includes(o, d, i - 1, f - 1) <=> f \in Fields(o, d, i)
<1> DEFINE mask == o.masks[d]
           base == o.base[d]
           w == Width(d)
           n == base * w
           k == (i - 1) * w + (f - 1)
<1>1. mask \in Str /\ base \in Nat /\ w \in {1, 2, 4}
  BY ViewFacts, WidthIs
<1>2. Validate(mask, n)
  BY DEF Valid, Width
<1>3. n \in Nat /\ k \in 0..(n - 1) /\ k + 1 = (i - 1) * w + f
  <2>1. i \in 1..base /\ f \in 1..w
    OBVIOUS
  <2> HIDE DEF mask, base, w
  <2>2. CASE w = 1
    BY <1>1, <2>1, <2>2
  <2>3. CASE w = 2
    BY <1>1, <2>1, <2>3
  <2>4. CASE w = 4
    BY <1>1, <2>1, <2>4
  <2> QED
    BY <1>1, <2>2, <2>3, <2>4
<1>4. Includes(o, d, i - 1, f - 1) <=> Get(mask, k)
  BY DEF Includes, Width
<1>5. f \in Fields(o, d, i) <=> MaskBits(mask)[(i - 1) * w + f] = 1
  BY DEF Fields, SignedFields
<1> HIDE DEF mask, n, k, w
<1>6. Get(mask, k) <=> MaskBits(mask)[k + 1] = 1
  BY <1>1, <1>2, <1>3, GetIsBit
<1> QED
  BY <1>3, <1>4, <1>5, <1>6

\* What the code hashes of an item is what the fields its mask signs determine.
LEMMA BaseSlotIs ==
  ASSUME NEW t, NEW o \in Otxs, Valid(t, o), NEW d \in Dim, NEW i \in 1..o.base[d], NEW x
  PROVE  /\ BaseSlot(o, d, i - 1, x) = SlotBytes(d, Fields(o, d, i), x)
         /\ SlotContent(o.masks[d], d, i, x) = SlotMeaning(d, Fields(o, d, i), x)
         /\ Fields(o, d, i) \in SUBSET (1..Width(d))
<1>1. \A f \in 1..Width(d) : Includes(o, d, i - 1, f - 1) <=> f \in Fields(o, d, i)
  BY IncludesIs
<1>2. BaseSlot(o, d, i - 1, x) = SlotBytes(d, Fields(o, d, i), x)
  <2>1. CASE d = "inputs"
    <3>1. /\ Includes(o, d, i - 1, 0) <=> 1 \in Fields(o, d, i)
          /\ Includes(o, d, i - 1, 1) <=> 2 \in Fields(o, d, i)
      <4>1. 1 \in 1..Width(d) /\ 2 \in 1..Width(d) /\ 1 - 1 = 0 /\ 2 - 1 = 1
        BY <2>1, WidthIs
      <4> QED
        BY <1>1, <4>1
    <3> QED
      BY <2>1, <3>1, Zenon DEF BaseSlot, BaseInput, SlotBytes
  <2>2. CASE d = "outputs"
    <3>1. /\ Includes(o, d, i - 1, 0) <=> 1 \in Fields(o, d, i)
          /\ Includes(o, d, i - 1, 1) <=> 2 \in Fields(o, d, i)
          /\ Includes(o, d, i - 1, 2) <=> 3 \in Fields(o, d, i)
          /\ Includes(o, d, i - 1, 3) <=> 4 \in Fields(o, d, i)
      <4>1. /\ 1 \in 1..Width(d) /\ 2 \in 1..Width(d) /\ 3 \in 1..Width(d) /\ 4 \in 1..Width(d)
            /\ 1 - 1 = 0 /\ 2 - 1 = 1 /\ 3 - 1 = 2 /\ 4 - 1 = 3
        BY <2>2, WidthIs
      <4> QED
        BY <1>1, <4>1
    <3> QED
      BY <2>2, <3>1 DEF BaseSlot, BaseOutput, SlotBytes
  <2>3. CASE d = "cell_deps" \/ d = "header_deps"
    <3>1. Includes(o, d, i - 1, 0) <=> 1 \in Fields(o, d, i)
      <4>1. 1 \in 1..Width(d) /\ 1 - 1 = 0
        BY <2>3, WidthIs
      <4> QED
        BY <1>1, <4>1
    <3> QED
      BY <2>3, <3>1 DEF BaseSlot, BaseCellDep, BaseHeaderDep, SlotBytes
  <2> QED
    BY <2>1, <2>2, <2>3, DimCases
<1>3. SlotContent(o.masks[d], d, i, x) = SlotMeaning(d, Fields(o, d, i), x)
  BY DEF SlotContent, SlotMeaning, Fields, Width
<1>4. Fields(o, d, i) \in SUBSET (1..Width(d))
  BY DEF Fields, SignedFields
<1> QED
  BY <1>2, <1>3, <1>4

\* The script that stands for one that is not signed is itself a table.
LEMMA DefaultScriptTable == default_script \in Tables
<1> DEFINE h == <<53, 0, 0, 0, 16, 0, 0, 0, 48, 0, 0, 0, 49, 0, 0, 0>>
           z == Zeros(37)
<1>1. z \in Str /\ Len(z) = 37
  <2>1. 37 \in Nat
    OBVIOUS
  <2>2. z \in Fixed(37)
    BY <2>1, ZerosType
  <2> HIDE DEF z
  <2> QED
    BY <2>1, <2>2, FixedFramed
<1>2. h \in [1..16 -> Byte]
  BY DEF Byte
<1>3. h \in Str /\ Len(h) = 16
  BY <1>2, FunctionIsSeq DEF Str
<1>4. SubSeq(h, 1, 4) = <<53, 0, 0, 0>>
  <2>1. h[1] = 53 /\ h[2] = 0 /\ h[3] = 0 /\ h[4] = 0
    OBVIOUS
  <2> HIDE DEF h
  <2>2. /\ SubSeq(h, 1, 4) \in Seq(Byte)
        /\ Len(SubSeq(h, 1, 4)) = IF 1 <= 4 THEN 4 - 1 + 1 ELSE 0
        /\ \A i \in 1..(4 - 1 + 1) : SubSeq(h, 1, 4)[i] = h[1 + i - 1]
    <3>1. 1 \in Int /\ 4 \in Int /\ \A i \in 1..4 : h[i] \in Byte
      BY <1>2
    <3> QED
      BY <1>3, <3>1, SubSeqProperties DEF Str
  <2> DEFINE f == SubSeq(h, 1, 4)
             g == <<53, 0, 0, 0>>
  <2>3. f \in Seq(Byte) /\ Len(f) = 4 /\ \A i \in 1..4 : f[i] = h[i]
    BY <2>2
  <2>4. g \in Seq(Byte) /\ Len(g) = 4 /\ \A i \in 1..4 : g[i] = h[i]
    BY <2>1 DEF Byte
  <2> HIDE DEF f, g
  <2>5. f = g
    BY <2>3, <2>4, SeqEqual
  <2> QED
    BY <2>5 DEF f, g
<1>5. default_script = h \o z
  BY DEF default_script
<1> HIDE DEF h, z
<1>6. h \o z \in Str /\ Len(h \o z) = 53
  <2>1. h \o z \in Str /\ Len(h \o z) = Len(h) + Len(z)
    BY <1>1, <1>3, StrConcat
  <2> QED
    BY <1>1, <1>3, <2>1
<1>7. SubSeq(h \o z, 1, 4) = <<53, 0, 0, 0>>
  <2>1. Len(h) >= 4
    BY <1>3
  <2>2. SubSeq(h \o z, 1, 4) = SubSeq(h, 1, 4)
    BY <1>1, <1>3, <2>1, PrefixOf
  <2> QED
    BY <1>4, <2>2
<1>8. checked_len_prefix(53) = <<53, 0, 0, 0>>
  BY SMT DEF checked_len_prefix
<1>9. 53 < SizeLimit
  BY SMT DEF SizeLimit
<1> DEFINE x == default_script
<1>10. x \in Seq(Byte) /\ Len(x) = 53 /\ SubSeq(x, 1, 4) = checked_len_prefix(53)
  BY <1>5, <1>6, <1>7, <1>8 DEF Str
<1> HIDE DEF x
<1>11. x \in Tables
  <2>1. Len(x) < SizeLimit /\ Len(x) >= 4
    BY <1>9, <1>10
  <2>2. checked_len_prefix(53) = checked_len_prefix(Len(x))
    BY <1>10
  <2>3. SubSeq(x, 1, 4) = checked_len_prefix(Len(x))
    BY <1>10, <2>2, Zenon
  <2> QED
    BY <1>10, <2>1, <2>3, Zenon DEF Tables, Bytes
<1> QED
  BY <1>11 DEF x

\* What of an input, of an output, of a dependency is hashed, piece by piece.
InputPieces(F, x) ==
  <<IF 1 \in F THEN x[1] ELSE Zeros(8), IF 2 \in F THEN x[2] ELSE Zeros(36), Resolved(x)>>
OutputPieces(F, x) ==
  <<IF 1 \in F THEN x.cell[1] ELSE Zeros(8),
    IF 2 \in F THEN x.cell[2] ELSE default_script,
    IF 3 \in F THEN OptBytes(x.cell[3]) ELSE <<>>,
    LenPrefixed(IF 4 \in F THEN x.data ELSE <<>>)>>

\* The pieces of an input are framed and tell the fields that are signed and the cell.
LEMMA InputPiecesFramed ==
  ASSUME NEW F, NEW x \in ListItems["inputs"], NEW y \in ListItems["inputs"]
  PROVE  LET a == InputPieces(F, x)
             b == InputPieces(F, y)
         IN  /\ Joined3(a) \in Str /\ Joined3(b) \in Str
             /\ Framed(Joined3(a), Joined3(b))
             /\ Joined3(a) = Joined3(b)
                  => /\ 1 \in F => x[1] = y[1]
                     /\ 2 \in F => x[2] = y[2]
                     /\ Resolve(x[2]) = Resolve(y[2])
<1> DEFINE a == InputPieces(F, x)
           b == InputPieces(F, y)
<1>1. /\ x[1] \in Fixed(8) /\ x[2] \in Fixed(36) /\ y[1] \in Fixed(8) /\ y[2] \in Fixed(36)
      /\ Zeros(8) \in Fixed(8) /\ Zeros(36) \in Fixed(36)
  <2>1. 8 \in Nat /\ 36 \in Nat
    OBVIOUS
  <2> QED
    BY <2>1, InputFacts, ZerosType
<1>2. a[1] \in Fixed(8) /\ b[1] \in Fixed(8) /\ (1 \in F => a[1] = x[1] /\ b[1] = y[1])
  BY <1>1 DEF InputPieces
<1>3. a[2] \in Fixed(36) /\ b[2] \in Fixed(36) /\ (2 \in F => a[2] = x[2] /\ b[2] = y[2])
  BY <1>1 DEF InputPieces
<1>4. a[3] = Resolved(x) /\ b[3] = Resolved(y)
  BY DEF InputPieces
<1>5. /\ Resolved(x) \in Str /\ Resolved(y) \in Str /\ Framed(Resolved(x), Resolved(y))
      /\ Resolved(x) = Resolved(y) => Resolve(x[2]) = Resolve(y[2])
  BY ResolvedFramed
<1> HIDE DEF a, b
<1>6. a[1] \in Str /\ b[1] \in Str /\ Framed(a[1], b[1])
  BY <1>2, FixedFramed
<1>7. a[2] \in Str /\ b[2] \in Str /\ Framed(a[2], b[2])
  BY <1>3, FixedFramed
<1>8. InTurn(a, b, 3)
  BY <1>4, <1>5, <1>6, <1>7 DEF InTurn
<1>9. /\ Joined3(a) \in Str /\ Joined3(b) \in Str
      /\ Framed(Joined3(a), Joined3(b))
      /\ Joined3(a) = Joined3(b) => a[1] = b[1] /\ a[2] = b[2] /\ a[3] = b[3]
  BY <1>8, Join3
<1> QED
  BY <1>2, <1>3, <1>4, <1>5, <1>9 DEF a, b

\* The pieces of an output are framed and tell the fields that are signed, as long as a
\* signed type is there in both or in none: a type has no length in front.
LEMMA OutputPiecesFramed ==
  ASSUME NEW F, NEW x \in ListItems["outputs"], NEW y \in ListItems["outputs"],
         3 \in F => (x.cell[3] = <<>> <=> y.cell[3] = <<>>)
  PROVE  LET a == OutputPieces(F, x)
             b == OutputPieces(F, y)
         IN  /\ Joined4(a) \in Str /\ Joined4(b) \in Str
             /\ Framed(Joined4(a), Joined4(b))
             /\ Joined4(a) = Joined4(b)
                  => /\ 1 \in F => x.cell[1] = y.cell[1]
                     /\ 2 \in F => x.cell[2] = y.cell[2]
                     /\ 3 \in F => x.cell[3] = y.cell[3]
                     /\ 4 \in F => x.data = y.data
<1> DEFINE a == OutputPieces(F, x)
           b == OutputPieces(F, y)
           c == x.cell
           e == y.cell
           m == IF 4 \in F THEN x.data ELSE <<>>
           n == IF 4 \in F THEN y.data ELSE <<>>
<1>1. c \in Cells /\ e \in Cells /\ x.data \in Bytes /\ y.data \in Bytes
  BY OutputFacts
<1>2. m \in Bytes /\ n \in Bytes
  <2>1. <<>> \in Bytes
    <3>1. 0 < SizeLimit
      BY SMT DEF SizeLimit
    <3> QED
      BY <3>1 DEF Bytes
  <2> QED
    BY <1>1, <2>1
<1>3. /\ a[1] = (IF 1 \in F THEN c[1] ELSE Zeros(8))
      /\ b[1] = (IF 1 \in F THEN e[1] ELSE Zeros(8))
      /\ a[2] = (IF 2 \in F THEN c[2] ELSE default_script)
      /\ b[2] = (IF 2 \in F THEN e[2] ELSE default_script)
      /\ a[3] = (IF 3 \in F THEN OptBytes(c[3]) ELSE <<>>)
      /\ b[3] = (IF 3 \in F THEN OptBytes(e[3]) ELSE <<>>)
      /\ a[4] = LenPrefixed(m) /\ b[4] = LenPrefixed(n)
  BY DEF OutputPieces
<1>4. 3 \in F => (c[3] = <<>> <=> e[3] = <<>>)
  OBVIOUS
<1>5. 4 \in F /\ m = n => x.data = y.data
  OBVIOUS
<1> HIDE DEF a, b, c, e, m, n
<1>6. /\ c[1] \in Fixed(8) /\ c[2] \in Tables /\ c[3] \in {s \in Seq(Tables) : Len(s) <= 1}
      /\ e[1] \in Fixed(8) /\ e[2] \in Tables /\ e[3] \in {s \in Seq(Tables) : Len(s) <= 1}
  BY <1>1, CellFields
<1>7. a[1] \in Str /\ b[1] \in Str /\ Framed(a[1], b[1])
  <2>1. 8 \in Nat /\ Zeros(8) \in Fixed(8)
    BY ZerosType
  <2>2. a[1] \in Fixed(8) /\ b[1] \in Fixed(8)
    BY <1>3, <1>6, <2>1
  <2> QED
    BY <2>1, <2>2, FixedFramed
<1>8. a[2] \in Str /\ b[2] \in Str /\ Framed(a[2], b[2])
  <2>1. a[2] \in Tables /\ b[2] \in Tables
    BY <1>3, <1>6, DefaultScriptTable
  <2> QED
    BY <2>1, TablesFramed
<1>9. /\ a[3] \in Str /\ b[3] \in Str /\ Framed(a[3], b[3])
      /\ 3 \in F /\ a[3] = b[3] => c[3] = e[3]
  <2> DEFINE v == c[3]
             w == e[3]
  <2>1. /\ OptBytes(v) \in Str
        /\ v = <<>> => OptBytes(v) = <<>>
        /\ v # <<>> => v = <<OptBytes(v)>> /\ OptBytes(v) \in Tables
    <3> HIDE DEF v
    <3>1. v \in {s \in Seq(Tables) : Len(s) <= 1}
      BY <1>6 DEF v
    <3> QED
      BY <3>1, OptBytesFacts
  <2>2. /\ OptBytes(w) \in Str
        /\ w = <<>> => OptBytes(w) = <<>>
        /\ w # <<>> => w = <<OptBytes(w)>> /\ OptBytes(w) \in Tables
    <3> HIDE DEF w
    <3>1. w \in {s \in Seq(Tables) : Len(s) <= 1}
      BY <1>6 DEF w
    <3> QED
      BY <3>1, OptBytesFacts
  <2>3. /\ a[3] = (IF 3 \in F THEN OptBytes(v) ELSE <<>>)
        /\ b[3] = (IF 3 \in F THEN OptBytes(w) ELSE <<>>)
        /\ 3 \in F => (v = <<>> <=> w = <<>>)
    BY <1>3, <1>4
  <2> DEFINE f == a[3]
             g == b[3]
  <2>4. f = a[3] /\ g = b[3] /\ v = c[3] /\ w = e[3]
    OBVIOUS
  <2> HIDE DEF f, g, v, w
  <2>5. <<>> \in Str /\ Framed(<<>>, <<>>)
    BY StrEmpty, SameLengthFramed
  <2>6. CASE 3 \notin F \/ v = <<>>
    <3>1. f = <<>> /\ g = <<>> /\ (3 \in F => v = w)
      BY <2>1, <2>2, <2>3, <2>4, <2>6
    <3> QED
      BY <2>4, <2>5, <3>1
  <2>7. CASE 3 \in F /\ v # <<>>
    <3>1. /\ f = OptBytes(v) /\ g = OptBytes(w) /\ f \in Tables /\ g \in Tables
          /\ v = <<f>> /\ w = <<g>>
      BY <2>1, <2>2, <2>3, <2>4, <2>7
    <3>2. f \in Str /\ g \in Str /\ Framed(f, g)
      BY <3>1, TablesFramed
    <3> QED
      BY <2>4, <3>1, <3>2
  <2> QED
    BY <2>6, <2>7
<1>10. a[4] \in Str /\ b[4] \in Str /\ Framed(a[4], b[4]) /\ (a[4] = b[4] => m = n)
  BY <1>2, <1>3, LenPrefixedFramed
<1>11. InTurn(a, b, 4)
  BY <1>7, <1>8, <1>9, <1>10 DEF InTurn
<1>12. /\ Joined4(a) \in Str /\ Joined4(b) \in Str
       /\ Framed(Joined4(a), Joined4(b))
       /\ Joined4(a) = Joined4(b) => a[1] = b[1] /\ a[2] = b[2] /\ a[3] = b[3] /\ a[4] = b[4]
  BY <1>11, Join4
<1>13. Joined4(a) = Joined4(b)
         => /\ 1 \in F => c[1] = e[1]
            /\ 2 \in F => c[2] = e[2]
            /\ 3 \in F => c[3] = e[3]
            /\ 4 \in F => x.data = y.data
  BY <1>3, <1>5, <1>9, <1>10, <1>12
<1> QED
  BY <1>12, <1>13 DEF a, b, c, e

\* The types of two outputs whose type is signed are there or missing together.
TypesAgree(d, F, x, y) ==
  d = "outputs" /\ 3 \in F => (x.cell[3] = <<>> <=> y.cell[3] = <<>>)

\* So an item of the base is framed and what is signed of it told.
LEMMA SlotBytesFramed ==
  ASSUME NEW d \in Dim, NEW F \in SUBSET (1..Width(d)),
         NEW x \in ListItems[d], NEW y \in ListItems[d], TypesAgree(d, F, x, y)
  PROVE  /\ SlotBytes(d, F, x) \in Str /\ SlotBytes(d, F, y) \in Str
         /\ Framed(SlotBytes(d, F, x), SlotBytes(d, F, y))
         /\ SlotBytes(d, F, x) = SlotBytes(d, F, y) => SlotMeaning(d, F, x) = SlotMeaning(d, F, y)
<1>1. CASE d = "inputs"
  <2> DEFINE a == InputPieces(F, x)
             b == InputPieces(F, y)
  <2>1. x \in ListItems["inputs"] /\ y \in ListItems["inputs"] /\ F \in SUBSET (1..2)
    BY <1>1, WidthIs
  <2>2. SlotBytes(d, F, x) = Joined3(a) /\ SlotBytes(d, F, y) = Joined3(b)
    BY <1>1 DEF SlotBytes, InputPieces, Joined3, Joined2
  <2>3. /\ Joined3(a) \in Str /\ Joined3(b) \in Str
        /\ Framed(Joined3(a), Joined3(b))
        /\ Joined3(a) = Joined3(b)
             => /\ 1 \in F => x[1] = y[1]
                /\ 2 \in F => x[2] = y[2]
                /\ Resolve(x[2]) = Resolve(y[2])
    BY <2>1, InputPiecesFramed
  <2> HIDE DEF a, b
  <2>4. ASSUME 1 \in F => x[1] = y[1], 2 \in F => x[2] = y[2], Resolve(x[2]) = Resolve(y[2])
        PROVE  SlotMeaning(d, F, x) = SlotMeaning(d, F, y)
    <3>1. \A f \in F : FieldsOf(d, x)[f] = FieldsOf(d, y)[f]
      <4>1. \A f \in F : f = 1 \/ f = 2
        BY <2>1
      <4> QED
        BY <1>1, <2>4, <4>1 DEF FieldsOf
    <3>2. ResolvedOf(d, x) = ResolvedOf(d, y)
      BY <1>1, <2>4 DEF ResolvedOf
    <3> QED
      BY <3>1, <3>2 DEF SlotMeaning
  <2> QED
    BY <2>2, <2>3, <2>4
<1>2. CASE d = "outputs"
  <2> DEFINE a == OutputPieces(F, x)
             b == OutputPieces(F, y)
  <2>1. /\ x \in ListItems["outputs"] /\ y \in ListItems["outputs"] /\ F \in SUBSET (1..4)
        /\ 3 \in F => (x.cell[3] = <<>> <=> y.cell[3] = <<>>)
    BY <1>2, WidthIs DEF TypesAgree
  <2>2. SlotBytes(d, F, x) = Joined4(a) /\ SlotBytes(d, F, y) = Joined4(b)
    BY <1>2 DEF SlotBytes, OutputPieces, Joined4, Joined3, Joined2
  <2>3. /\ Joined4(a) \in Str /\ Joined4(b) \in Str
        /\ Framed(Joined4(a), Joined4(b))
        /\ Joined4(a) = Joined4(b)
             => /\ 1 \in F => x.cell[1] = y.cell[1]
                /\ 2 \in F => x.cell[2] = y.cell[2]
                /\ 3 \in F => x.cell[3] = y.cell[3]
                /\ 4 \in F => x.data = y.data
    BY <2>1, OutputPiecesFramed
  <2> HIDE DEF a, b
  <2>4. ASSUME 1 \in F => x.cell[1] = y.cell[1], 2 \in F => x.cell[2] = y.cell[2],
               3 \in F => x.cell[3] = y.cell[3], 4 \in F => x.data = y.data
        PROVE  SlotMeaning(d, F, x) = SlotMeaning(d, F, y)
    <3>1. \A f \in F : FieldsOf(d, x)[f] = FieldsOf(d, y)[f]
      <4>1. \A f \in F : f = 1 \/ f = 2 \/ f = 3 \/ f = 4
        BY <2>1
      <4>2. /\ FieldsOf(d, x) = <<x.cell[1], x.cell[2], x.cell[3], x.data>>
            /\ FieldsOf(d, y) = <<y.cell[1], y.cell[2], y.cell[3], y.data>>
        BY <1>2 DEF FieldsOf
      <4> QED
        BY <2>4, <4>1, <4>2
    <3>2. ResolvedOf(d, x) = ResolvedOf(d, y)
      BY <1>2 DEF ResolvedOf
    <3> QED
      BY <3>1, <3>2 DEF SlotMeaning
  <2> QED
    BY <2>2, <2>3, <2>4
<1>3. ASSUME d = "cell_deps" \/ d = "header_deps", NEW n \in Nat,
             x \in Fixed(n), y \in Fixed(n),
             SlotBytes(d, F, x) = IF 1 \in F THEN x ELSE Zeros(n),
             SlotBytes(d, F, y) = IF 1 \in F THEN y ELSE Zeros(n)
      PROVE  /\ SlotBytes(d, F, x) \in Str /\ SlotBytes(d, F, y) \in Str
             /\ Framed(SlotBytes(d, F, x), SlotBytes(d, F, y))
             /\ SlotBytes(d, F, x) = SlotBytes(d, F, y)
                  => SlotMeaning(d, F, x) = SlotMeaning(d, F, y)
  <2> DEFINE a == SlotBytes(d, F, x)
             b == SlotBytes(d, F, y)
  <2>1. a \in Fixed(n) /\ b \in Fixed(n) /\ (1 \in F => a = x /\ b = y)
    BY <1>3, ZerosType
  <2>2. F \in SUBSET {1}
    <3>1. Width(d) = 1
      BY <1>3, WidthIs
    <3> QED
      BY <3>1
  <2> HIDE DEF a, b
  <2>3. a \in Str /\ b \in Str /\ Framed(a, b)
    BY <2>1, FixedFramed
  <2>4. ASSUME a = b
        PROVE  SlotMeaning(d, F, x) = SlotMeaning(d, F, y)
    <3>1. \A f \in F : FieldsOf(d, x)[f] = FieldsOf(d, y)[f]
      BY <1>3, <2>1, <2>2, <2>4 DEF FieldsOf
    <3>2. ResolvedOf(d, x) = ResolvedOf(d, y)
      BY <1>3 DEF ResolvedOf
    <3> QED
      BY <3>1, <3>2 DEF SlotMeaning
  <2> QED
    BY <2>3, <2>4 DEF a, b
<1>4. CASE d = "cell_deps"
  <2>1. x \in Fixed(37) /\ y \in Fixed(37) /\ 37 \in Nat
    BY <1>4, DepFacts
  <2>2. /\ SlotBytes(d, F, x) = IF 1 \in F THEN x ELSE Zeros(37)
        /\ SlotBytes(d, F, y) = IF 1 \in F THEN y ELSE Zeros(37)
    BY <1>4 DEF SlotBytes
  <2> QED
    BY <1>3, <1>4, <2>1, <2>2
<1>5. CASE d = "header_deps"
  <2>1. x \in Fixed(32) /\ y \in Fixed(32) /\ 32 \in Nat
    BY <1>5, DepFacts
  <2>2. /\ SlotBytes(d, F, x) = IF 1 \in F THEN x ELSE Zeros(32)
        /\ SlotBytes(d, F, y) = IF 1 \in F THEN y ELSE Zeros(32)
    BY <1>5 DEF SlotBytes
  <2> QED
    BY <1>3, <1>5, <2>1, <2>2
<1> QED
  BY <1>1, <1>2, <1>4, <1>5, DimCases

\* And what is hashed depends on nothing else.
LEMMA SlotBytesOf ==
  ASSUME NEW d \in Dim, NEW F \in SUBSET (1..Width(d)),
         NEW x \in ListItems[d], NEW y \in ListItems[d],
         SlotMeaning(d, F, x) = SlotMeaning(d, F, y)
  PROVE  SlotBytes(d, F, x) = SlotBytes(d, F, y)
<1>1. /\ \A f \in F : FieldsOf(d, x)[f] = FieldsOf(d, y)[f]
      /\ ResolvedOf(d, x) = ResolvedOf(d, y)
  <2>1. /\ [f \in F |-> FieldsOf(d, x)[f]] = [f \in F |-> FieldsOf(d, y)[f]]
        /\ ResolvedOf(d, x) = ResolvedOf(d, y)
    BY DEF SlotMeaning
  <2> DEFINE v == [f \in F |-> FieldsOf(d, x)[f]]
             w == [f \in F |-> FieldsOf(d, y)[f]]
  <2>2. \A f \in F : v[f] = FieldsOf(d, x)[f] /\ w[f] = FieldsOf(d, y)[f]
    OBVIOUS
  <2>3. v = w
    BY <2>1
  <2> HIDE DEF v, w
  <2> QED
    BY <2>1, <2>2, <2>3
<1>2. CASE d = "inputs"
  <2>1. /\ 1 \in F => x[1] = y[1]
        /\ 2 \in F => x[2] = y[2]
        /\ Resolve(x[2]) = Resolve(y[2])
    BY <1>1, <1>2 DEF FieldsOf, ResolvedOf
  <2>2. Resolved(x) = Resolved(y)
    BY <2>1 DEF Resolved
  <2> QED
    BY <1>2, <2>1, <2>2 DEF SlotBytes
<1>3. CASE d = "outputs"
  <2>1. /\ FieldsOf(d, x) = <<x.cell[1], x.cell[2], x.cell[3], x.data>>
        /\ FieldsOf(d, y) = <<y.cell[1], y.cell[2], y.cell[3], y.data>>
    BY <1>3 DEF FieldsOf
  <2>2. /\ 1 \in F => x.cell[1] = y.cell[1]
        /\ 2 \in F => x.cell[2] = y.cell[2]
        /\ 3 \in F => x.cell[3] = y.cell[3]
        /\ 4 \in F => x.data = y.data
    BY <1>1, <2>1
  <2> QED
    BY <1>3, <2>2 DEF SlotBytes
<1>4. CASE d = "cell_deps" \/ d = "header_deps"
  <2>1. 1 \in F => x = y
    BY <1>1, <1>4 DEF FieldsOf
  <2> QED
    BY <1>4, <2>1 DEF SlotBytes
<1> QED
  BY <1>2, <1>3, <1>4, DimCases

BaseMeaning(t, o, d) ==
  [i \in 1..o.base[d] |-> SlotContent(o.masks[d], d, i, BaseItems(t, o, d)[i])]

\* The outputs of a base scope that have a type, as far as it is signed.
TypesOf(t, o) ==
  {i \in 1..o.base["outputs"] :
     3 \in Fields(o, "outputs", i) /\ BaseItems(t, o, "outputs")[i].cell[3] # <<>>}

\* Masks are not longer than the lists they are of.
LEMMA MaskBytesShort ==
  ASSUME NEW t \in Transactions, NEW o \in Otxs, Valid(t, o), NEW d \in Dim
  PROVE  o.masks[d] \in Bytes
<1> DEFINE mask == o.masks[d]
           base == o.base[d]
           w == Width(d)
<1>1. mask \in Str /\ base \in Small /\ base \in Nat /\ w \in {1, 2, 4} /\ Len(mask) \in Nat
  BY ViewFacts, ItemsThere, WidthIs, LenProperties DEF Str
<1>2. Len(mask) = (base * w + 7) \div 8
  BY DEF Valid, Validate, Width
<1> HIDE DEF mask, base, w
<1>3. Len(mask) <= base
  <2>1. CASE w = 1
    BY <1>1, <1>2, <2>1, SMT
  <2>2. CASE w = 2
    BY <1>1, <1>2, <2>2, SMT
  <2>3. CASE w = 4
    BY <1>1, <1>2, <2>3, SMT
  <2> QED
    BY <1>1, <2>1, <2>2, <2>3
<1>4. SizeLimit \in Nat
  BY SMT DEF SizeLimit
<1>5. base < SizeLimit
  BY <1>1, <1>4 DEF Small
<1>6. Len(mask) < SizeLimit
  BY <1>1, <1>3, <1>4, <1>5
<1>7. mask \in Bytes
  BY <1>1, <1>6 DEF Bytes, Str
<1> QED
  BY <1>7 DEF mask

\* The slots of the base: bytes, one for each item.
LEMMA BaseSlotsTyped ==
  ASSUME NEW t \in Transactions, NEW o \in Otxs, Valid(t, o), NEW d \in Dim
  PROVE  /\ BaseSlots(t, o, d) \in Seq(Str) /\ Len(BaseSlots(t, o, d)) = o.base[d]
         /\ \A i \in 1..o.base[d] :
              /\ BaseItems(t, o, d)[i] \in ListItems[d]
              /\ Fields(o, d, i) \in SUBSET (1..Width(d))
              /\ BaseSlots(t, o, d)[i] = SlotBytes(d, Fields(o, d, i), BaseItems(t, o, d)[i])
              /\ BaseMeaning(t, o, d)[i] = SlotMeaning(d, Fields(o, d, i), BaseItems(t, o, d)[i])
<1> DEFINE items == BaseItems(t, o, d)
           n == o.base[d]
           slots == BaseSlots(t, o, d)
<1>1. items \in Seq(ListItems[d]) /\ Len(items) = n /\ n \in Nat
  BY ItemsThere
<1>2. slots = [i \in DOMAIN items |-> BaseSlot(o, d, i - 1, items[i])]
  BY DEF BaseSlots
<1>3. \A i \in 1..n : BaseMeaning(t, o, d)[i] = SlotContent(o.masks[d], d, i, items[i])
  BY DEF BaseMeaning
<1>4. \A x : \A i \in 1..n :
        /\ BaseSlot(o, d, i - 1, x) = SlotBytes(d, Fields(o, d, i), x)
        /\ SlotContent(o.masks[d], d, i, x) = SlotMeaning(d, Fields(o, d, i), x)
        /\ Fields(o, d, i) \in SUBSET (1..Width(d))
  BY BaseSlotIs
<1> HIDE DEF items, n, slots
<1>5. DOMAIN items = 1..n /\ \A i \in 1..n : items[i] \in ListItems[d]
  BY <1>1, LenProperties, ElementOfSeq
<1>6. \A i \in 1..n : slots[i] = SlotBytes(d, Fields(o, d, i), items[i])
  BY <1>2, <1>4, <1>5
<1>7. \A i \in 1..n : slots[i] \in Str
  <2>1. ASSUME NEW i \in 1..n
        PROVE  slots[i] \in Str
    <3> DEFINE F == Fields(o, d, i)
               x == items[i]
    <3>1. F \in SUBSET (1..Width(d)) /\ x \in ListItems[d] /\ TypesAgree(d, F, x, x)
      BY <1>4, <1>5 DEF TypesAgree
    <3> HIDE DEF F, x
    <3>2. SlotBytes(d, F, x) \in Str
      BY <3>1, SlotBytesFramed
    <3> QED
      BY <1>6, <3>2 DEF F, x
  <2> QED
    BY <2>1
<1>8. slots \in [1..n -> Str]
  BY <1>2, <1>5, <1>7
<1>9. slots \in Seq(Str) /\ Len(slots) = n
  BY <1>1, <1>8, FunctionIsSeq
<1> QED
  BY <1>3, <1>4, <1>5, <1>6, <1>9 DEF items, n, slots

\* Slots of one list in two transactions, with the same fields signed.
LEMMA BaseSlotsFramed ==
  ASSUME NEW t \in Transactions, NEW o \in Otxs, Valid(t, o),
         NEW u \in Transactions, NEW p \in Otxs, Valid(u, p), NEW d \in Dim,
         o.base[d] = p.base[d], o.masks[d] = p.masks[d], TypesOf(t, o) = TypesOf(u, p)
  PROVE  /\ \A i \in 1..o.base[d] : Framed(BaseSlots(t, o, d)[i], BaseSlots(u, p, d)[i])
         /\ BaseSlots(t, o, d) = BaseSlots(u, p, d) => BaseMeaning(t, o, d) = BaseMeaning(u, p, d)
<1> DEFINE n == o.base[d]
           v == BaseItems(t, o, d)
           w == BaseItems(u, p, d)
<1>1. /\ \A i \in 1..n :
           /\ v[i] \in ListItems[d]
           /\ Fields(o, d, i) \in SUBSET (1..Width(d))
           /\ BaseSlots(t, o, d)[i] = SlotBytes(d, Fields(o, d, i), v[i])
           /\ BaseMeaning(t, o, d)[i] = SlotMeaning(d, Fields(o, d, i), v[i])
  BY BaseSlotsTyped
<1>2. /\ \A i \in 1..n :
           /\ w[i] \in ListItems[d]
           /\ BaseSlots(u, p, d)[i] = SlotBytes(d, Fields(o, d, i), w[i])
           /\ BaseMeaning(u, p, d)[i] = SlotMeaning(d, Fields(o, d, i), w[i])
  <2>1. \A i \in 1..p.base[d] :
           /\ w[i] \in ListItems[d]
           /\ BaseSlots(u, p, d)[i] = SlotBytes(d, Fields(p, d, i), w[i])
           /\ BaseMeaning(u, p, d)[i] = SlotMeaning(d, Fields(p, d, i), w[i])
    BY BaseSlotsTyped
  <2>2. \A i : Fields(p, d, i) = Fields(o, d, i)
    BY DEF Fields
  <2> QED
    BY <2>1, <2>2
<1>3. \A i \in 1..n : TypesAgree(d, Fields(o, d, i), v[i], w[i])
  <2>1. SUFFICES ASSUME NEW i \in 1..n, d = "outputs", 3 \in Fields(o, d, i)
                 PROVE  v[i].cell[3] = <<>> <=> w[i].cell[3] = <<>>
    BY DEF TypesAgree
  <2>2. 3 \in Fields(p, d, i) /\ i \in 1..p.base[d]
    BY <2>1 DEF Fields
  <2>3. i \in TypesOf(t, o) <=> v[i].cell[3] # <<>>
    BY <2>1 DEF TypesOf
  <2>4. i \in TypesOf(u, p) <=> w[i].cell[3] # <<>>
    BY <2>1, <2>2 DEF TypesOf
  <2> QED
    BY <2>3, <2>4
<1>4. /\ BaseMeaning(t, o, d) = [i \in 1..n |-> BaseMeaning(t, o, d)[i]]
      /\ BaseMeaning(u, p, d) = [i \in 1..n |-> BaseMeaning(u, p, d)[i]]
  BY DEF BaseMeaning
<1> HIDE DEF n, v, w
<1>5. ASSUME NEW i \in 1..n
      PROVE  /\ Framed(BaseSlots(t, o, d)[i], BaseSlots(u, p, d)[i])
             /\ BaseSlots(t, o, d)[i] = BaseSlots(u, p, d)[i]
                  => BaseMeaning(t, o, d)[i] = BaseMeaning(u, p, d)[i]
  <2> DEFINE F == Fields(o, d, i)
             x == v[i]
             y == w[i]
  <2>1. /\ F \in SUBSET (1..Width(d)) /\ x \in ListItems[d] /\ y \in ListItems[d]
        /\ TypesAgree(d, F, x, y)
    BY <1>1, <1>2, <1>3
  <2>2. /\ BaseSlots(t, o, d)[i] = SlotBytes(d, F, x)
        /\ BaseMeaning(t, o, d)[i] = SlotMeaning(d, F, x)
        /\ BaseSlots(u, p, d)[i] = SlotBytes(d, F, y)
        /\ BaseMeaning(u, p, d)[i] = SlotMeaning(d, F, y)
    BY <1>1, <1>2
  <2> HIDE DEF F, x, y
  <2>3. /\ Framed(SlotBytes(d, F, x), SlotBytes(d, F, y))
        /\ SlotBytes(d, F, x) = SlotBytes(d, F, y)
             => SlotMeaning(d, F, x) = SlotMeaning(d, F, y)
    BY <2>1, SlotBytesFramed
  <2> QED
    BY <2>2, <2>3
<1>6. BaseSlots(t, o, d) = BaseSlots(u, p, d) => BaseMeaning(t, o, d) = BaseMeaning(u, p, d)
  BY <1>4, <1>5
<1> QED
  BY <1>5, <1>6 DEF n

\* A bit is zero or one.
LEMMA BitIsBinary ==
  ASSUME NEW mask \in Str, NEW k \in 1..Len(mask), NEW b \in 1..8
  PROVE  Bit(mask, k, b) \in {0, 1}
<1> DEFINE x == mask[k]
           j == b - 1
           q == 2^j
<1>1. x \in Nat
  <2>1. mask[k] \in Byte
    BY ElementOfSeq DEF Str
  <2>2. \A y \in Byte : y \in Nat
    BY DEF Byte
  <2> QED
    BY <2>1, <2>2
<1>2. q \in Nat /\ q > 0
  <2>1. j = 0 \/ j \in 1..7
    OBVIOUS
  <2> HIDE DEF j
  <2>2. CASE j = 0
    BY <2>2, Powers
  <2>3. CASE j \in 1..7
    <3>1. \/ j = 1 /\ 2^j = 2
          \/ j = 2 /\ 2^j = 4
          \/ j = 3 /\ 2^j = 8
          \/ j = 4 /\ 2^j = 16
          \/ j = 5 /\ 2^j = 32
          \/ j = 6 /\ 2^j = 64
          \/ j = 7 /\ 2^j = 128
      BY <2>3, PowerCases
    <3>2. q = 2 \/ q = 4 \/ q = 8 \/ q = 16 \/ q = 32 \/ q = 64 \/ q = 128
      BY <3>1, Zenon
    <3> HIDE DEF q
    <3> QED
      BY <3>2
  <2> QED
    BY <2>1, <2>2, <2>3
<1>3. Bit(mask, k, b) = (x \div q) % 2
  BY DEF Bit
<1> HIDE DEF x, j, q
<1>4. (x \div q) \in Int
  BY <1>1, <1>2
<1> DEFINE y == x \div q
<1>5. y \in Int
  BY <1>4
<1> HIDE DEF y
<1>6. y % 2 \in {0, 1}
  BY <1>5, SMT
<1> QED
  BY <1>3, <1>6 DEF y

\* The bits of the fields of an accepted mask.
LEMMA SignedBitsBinary ==
  ASSUME NEW mask \in Str, NEW n \in Nat, Validate(mask, n)
  PROVE  /\ SubSeq(MaskBits(mask), 1, n) \in [1..n -> {0, 1}]
         /\ \A i \in 1..n : SubSeq(MaskBits(mask), 1, n)[i] = MaskBits(mask)[i]
<1> DEFINE f == SubSeq(MaskBits(mask), 1, n)
<1>1. /\ n <= 8 * Len(mask) /\ Len(mask) \in Nat
      /\ DOMAIN f = 1..n
      /\ \A i \in 1..n : f[i] = MaskBits(mask)[i]
      /\ f \in Seq(Digits(mask)) /\ Len(f) = n
  BY SignedBits
<1>2. f = [i \in 1..n |-> f[i]]
  <2> HIDE DEF f
  <2> QED
    BY <1>1
<1>3. \A i \in 1..n : MaskBits(mask)[i] \in {0, 1}
  <2>1. ASSUME NEW i \in 1..n
        PROVE  MaskBits(mask)[i] \in {0, 1}
    <3> DEFINE k == (i - 1) \div 8 + 1
               b == ((i - 1) % 8) + 1
    <3>1. i \in Nat /\ i >= 1 /\ i <= 8 * Len(mask)
      BY <1>1
    <3>2. k \in 1..Len(mask) /\ b \in 1..8 /\ 8 * (k - 1) + b = i
      <4> DEFINE l == Len(mask)
      <4>1. l \in Nat /\ i <= 8 * l
        BY <1>1, <3>1
      <4> HIDE DEF l
      <4>2. k \in 1..l /\ b \in 1..8 /\ 8 * (k - 1) + b = i
        BY <3>1, <4>1, SMT
      <4> QED
        BY <4>2 DEF l
    <3> HIDE DEF k, b
    <3>3. MaskBits(mask)[8 * (k - 1) + b] = Bit(mask, k, b)
      <4>1. \A x \in 1..Len(mask), y \in 1..8 :
              MaskBits(mask)[8 * (x - 1) + y] = Bit(mask, x, y)
        BY MaskBitsFacts
      <4> QED
        BY <3>2, <4>1
    <3> QED
      BY <3>2, <3>3, BitIsBinary
  <2> QED
    BY <2>1
<1> HIDE DEF f
<1>4. f \in [1..n -> {0, 1}]
  BY <1>1, <1>2, <1>3
<1> QED
  BY <1>1, <1>4 DEF f

\* One set of signed fields, one mask.
LEMMA MasksOfFields ==
  ASSUME NEW t, NEW o \in Otxs, Valid(t, o), NEW u, NEW p \in Otxs, Valid(u, p), NEW d \in Dim,
         o.base[d] = p.base[d], \A i \in 1..o.base[d] : Fields(o, d, i) = Fields(p, d, i)
  PROVE  o.masks[d] = p.masks[d]
<1> DEFINE a == o.masks[d]
           b == p.masks[d]
           base == o.base[d]
           w == Width(d)
           n == base * w
<1>1. a \in Str /\ b \in Str /\ base \in Nat /\ w \in {1, 2, 4} /\ n \in Nat
  <2>1. a \in Str /\ b \in Str /\ base \in Nat /\ w \in {1, 2, 4} /\ w \in Nat
    BY ViewFacts, WidthIs
  <2> QED
    BY <2>1
<1>2. Validate(a, n) /\ Validate(b, n)
  BY DEF Valid, Width
<1>3. \A i \in 1..base, f \in 1..w :
        MaskBits(a)[(i - 1) * w + f] = 1 <=> MaskBits(b)[(i - 1) * w + f] = 1
  <2>1. ASSUME NEW i \in 1..base, NEW f \in 1..w
        PROVE  MaskBits(a)[(i - 1) * w + f] = 1 <=> MaskBits(b)[(i - 1) * w + f] = 1
    <3>1. Fields(o, d, i) = Fields(p, d, i)
      OBVIOUS
    <3>2. /\ f \in Fields(o, d, i) <=> MaskBits(a)[(i - 1) * w + f] = 1
          /\ f \in Fields(p, d, i) <=> MaskBits(b)[(i - 1) * w + f] = 1
      BY DEF Fields, SignedFields
    <3> QED
      BY <3>1, <3>2
  <2> QED
    BY <2>1
<1> DEFINE x == SubSeq(MaskBits(a), 1, n)
           y == SubSeq(MaskBits(b), 1, n)
<1>4. /\ x \in [1..n -> {0, 1}] /\ \A i \in 1..n : x[i] = MaskBits(a)[i]
      /\ y \in [1..n -> {0, 1}] /\ \A i \in 1..n : y[i] = MaskBits(b)[i]
  <2> HIDE DEF a, b, n
  <2> QED
    BY <1>1, <1>2, SignedBitsBinary
<1>5. ASSUME NEW m \in 1..n
      PROVE  MaskBits(a)[m] = 1 <=> MaskBits(b)[m] = 1
  <2> DEFINE i == (m - 1) \div w + 1
             f == ((m - 1) % w) + 1
  <2>1. m \in Nat /\ m >= 1 /\ m <= base * w
    BY <1>1
  <2> HIDE DEF a, b, base, w, n
  <2>2. i \in 1..base /\ f \in 1..w /\ (i - 1) * w + f = m
    <3>1. CASE w = 1
      BY <1>1, <2>1, <3>1, SMT
    <3>2. CASE w = 2
      BY <1>1, <2>1, <3>2, SMT
    <3>3. CASE w = 4
      BY <1>1, <2>1, <3>3, SMT
    <3> QED
      BY <1>1, <3>1, <3>2, <3>3
  <2> HIDE DEF i, f
  <2> QED
    BY <1>3, <2>2
<1> HIDE DEF a, b, n, x, y
<1>6. x = y
  <2>1. \A i \in 1..n : x[i] \in {0, 1} /\ y[i] \in {0, 1}
    BY <1>4
  <2>2. \A i \in 1..n : x[i] = y[i]
    BY <1>4, <1>5, <2>1
  <2>3. x = [i \in 1..n |-> x[i]] /\ y = [i \in 1..n |-> y[i]]
    BY <1>4
  <2> QED
    BY <2>2, <2>3
<1>7. a = Packed(x) /\ b = Packed(y)
  BY <1>1, <1>2, MaskIsPacked DEF x, y
<1> QED
  BY <1>6, <1>7 DEF a, b

\* Bytes are framed by themselves, and so are the slots they make up.
LEMMA SlotsType ==
  ASSUME NEW s \in Seq(Str), NEW m
  PROVE  Slots(m, s) \in Str
<1>1. \A k : \A z \in Seq(Str) : (\A l \in 1..Len(z) : Framed(z[l], z[l])) => Slots(k, z) \in Str
  BY SlotsFramed
<1>2. \A z \in Seq(Str) : \A l \in 1..Len(z) : Framed(z[l], z[l])
  BY ElementOfSeq, SameLengthFramed
<1> QED
  BY <1>1, <1>2

\* A list of the base is framed and tells what its slots mean.
LEMMA BaseListFramed ==
  ASSUME NEW t \in Transactions, NEW o \in Otxs, Valid(t, o),
         NEW u \in Transactions, NEW p \in Otxs, Valid(u, p), NEW d \in Dim,
         TypesOf(t, o) = TypesOf(u, p)
  PROVE  /\ BaseList(t, o, d) \in Str /\ BaseList(u, p, d) \in Str
         /\ Framed(BaseList(t, o, d), BaseList(u, p, d))
         /\ BaseList(t, o, d) = BaseList(u, p, d)
              => BaseMeaning(t, o, d) = BaseMeaning(u, p, d)
<1> DEFINE m == o.base[d]
           n == p.base[d]
           v == BaseSlots(t, o, d)
           w == BaseSlots(u, p, d)
           i == o.start[d]
           j == p.start[d]
           e == o.masks[d]
           f == p.masks[d]
           a == <<checked_len_prefix(m), LenPrefixed(e), Slots(i, v)>>
           b == <<checked_len_prefix(n), LenPrefixed(f), Slots(j, w)>>
<1>1. m \in Small /\ m \in Nat /\ n \in Small /\ n \in Nat
  BY ItemsThere
<1>2. e \in Bytes /\ f \in Bytes
  BY MaskBytesShort
<1>3. v \in Seq(Str) /\ Len(v) = m /\ w \in Seq(Str) /\ Len(w) = n
  BY BaseSlotsTyped
<1>4. m = n /\ e = f
        => /\ \A k \in 1..m : Framed(v[k], w[k])
           /\ v = w => BaseMeaning(t, o, d) = BaseMeaning(u, p, d)
  BY BaseSlotsFramed
<1>5. BaseList(t, o, d) = Joined3(a) /\ BaseList(u, p, d) = Joined3(b)
  BY DEF BaseList, Joined3, Joined2
<1>6. /\ a[1] = checked_len_prefix(m) /\ a[2] = LenPrefixed(e) /\ a[3] = Slots(i, v)
      /\ b[1] = checked_len_prefix(n) /\ b[2] = LenPrefixed(f) /\ b[3] = Slots(j, w)
  OBVIOUS
<1> HIDE DEF m, n, v, w, i, j, e, f, a, b
<1>7. a[1] \in Str /\ b[1] \in Str /\ Framed(a[1], b[1]) /\ (a[1] = b[1] => m = n)
  BY <1>1, <1>6, PrefixType, PrefixFramed, PrefixInjective
<1>8. a[2] \in Str /\ b[2] \in Str /\ Framed(a[2], b[2]) /\ (a[2] = b[2] => e = f)
  BY <1>2, <1>6, LenPrefixedFramed
<1>9. /\ a[3] \in Str /\ b[3] \in Str
      /\ m = n /\ e = f => Framed(a[3], b[3]) /\ (a[3] = b[3] => v = w)
  <2>1. a[3] \in Str /\ b[3] \in Str
    BY <1>3, <1>6, SlotsType
  <2>2. ASSUME m = n, e = f
        PROVE  Framed(a[3], b[3]) /\ (a[3] = b[3] => v = w)
    <3>1. Len(v) = Len(w) /\ \A k \in 1..Len(v) : Framed(v[k], w[k])
      BY <1>3, <1>4, <2>2
    <3>2. Framed(Slots(i, v), Slots(j, w)) /\ (Slots(i, v) = Slots(j, w) => v = w)
      BY <1>3, <3>1, SlotsFramed
    <3> QED
      BY <1>6, <3>2
  <2> QED
    BY <2>1, <2>2
<1>10. InTurn(a, b, 3)
  <2>1. ASSUME NEW k \in 1..3
        PROVE  /\ a[k] \in Str /\ b[k] \in Str
               /\ (\A l \in 1..3 : l < k => a[l] = b[l]) => Framed(a[k], b[k])
    <3>1. CASE k = 1
      BY <1>7, <3>1
    <3>2. CASE k = 2
      BY <1>8, <3>2
    <3>3. CASE k = 3
      <4>1. (\A l \in 1..3 : l < k => a[l] = b[l]) => a[1] = b[1] /\ a[2] = b[2]
        BY <3>3
      <4> QED
        BY <1>7, <1>8, <1>9, <3>3, <4>1
    <3> QED
      BY <3>1, <3>2, <3>3
  <2> QED
    BY <2>1 DEF InTurn
<1>11. /\ Joined3(a) \in Str /\ Joined3(b) \in Str
       /\ Framed(Joined3(a), Joined3(b))
       /\ Joined3(a) = Joined3(b) => a[1] = b[1] /\ a[2] = b[2] /\ a[3] = b[3]
  BY <1>10, Join3
<1> QED
  BY <1>4, <1>5, <1>7, <1>8, <1>9, <1>11

\* The bytes of a base list are those of what its slots mean, wherever they are.
LEMMA BaseListOf ==
  ASSUME NEW t \in Transactions, NEW o \in Otxs, Valid(t, o),
         NEW u \in Transactions, NEW p \in Otxs, Valid(u, p), NEW d \in Dim,
         BaseMeaning(t, o, d) = BaseMeaning(u, p, d)
  PROVE  BaseList(t, o, d) = BaseList(u, p, d)
<1> DEFINE m == o.base[d]
           n == p.base[d]
           a == BaseMeaning(t, o, d)
           b == BaseMeaning(u, p, d)
           v == BaseItems(t, o, d)
           w == BaseItems(u, p, d)
           x == BaseSlots(t, o, d)
           y == BaseSlots(u, p, d)
<1>1. m \in Nat /\ n \in Nat /\ m = n
  <2>1. m \in Nat /\ n \in Nat
    BY ItemsThere
  <2>2. DOMAIN a = 1..m /\ DOMAIN b = 1..n
    BY DEF BaseMeaning
  <2> HIDE DEF m, n
  <2>3. 1..m = 1..n
    BY <2>2
  <2> QED
    BY <2>1, <2>3
<1>2. /\ x \in Seq(Str) /\ Len(x) = m
      /\ \A i \in 1..m : /\ v[i] \in ListItems[d] /\ Fields(o, d, i) \in SUBSET (1..Width(d))
                         /\ x[i] = SlotBytes(d, Fields(o, d, i), v[i])
                         /\ a[i] = SlotMeaning(d, Fields(o, d, i), v[i])
  BY BaseSlotsTyped
<1>3. /\ y \in Seq(Str) /\ Len(y) = n
      /\ \A i \in 1..n : /\ w[i] \in ListItems[d] /\ Fields(p, d, i) \in SUBSET (1..Width(d))
                         /\ y[i] = SlotBytes(d, Fields(p, d, i), w[i])
                         /\ b[i] = SlotMeaning(d, Fields(p, d, i), w[i])
  BY BaseSlotsTyped
<1>4. \A F, z : DOMAIN SlotMeaning(d, F, z).fields = F
  BY DEF SlotMeaning
<1>5. a = b
  OBVIOUS
<1>6. o.masks[d] = p.masks[d]
  <2>1. \A i \in 1..m : Fields(o, d, i) = Fields(p, d, i)
    <3> HIDE DEF a, b, m, n, v, w, x, y
    <3> QED
      BY <1>1, <1>2, <1>3, <1>4, <1>5
  <2> QED
    BY <1>1, <2>1, MasksOfFields
<1>7. x = y
  <2> HIDE DEF a, b, m, n, v, w, x, y
  <2>1. ASSUME NEW i \in 1..m
        PROVE  x[i] = y[i]
    <3> DEFINE F == Fields(o, d, i)
               r == v[i]
               s == w[i]
    <3>1. Fields(p, d, i) = F
      BY <1>6 DEF Fields
    <3>2. /\ F \in SUBSET (1..Width(d)) /\ r \in ListItems[d] /\ s \in ListItems[d]
          /\ SlotMeaning(d, F, r) = SlotMeaning(d, F, s)
          /\ x[i] = SlotBytes(d, F, r) /\ y[i] = SlotBytes(d, F, s)
      BY <1>1, <1>2, <1>3, <1>5, <3>1
    <3> HIDE DEF F, r, s
    <3> QED
      BY <3>2, SlotBytesOf
  <2> QED
    BY <1>1, <1>2, <1>3, <2>1, SeqEqual
<1>8. \A k, l, z : Slots(k, z) = Slots(l, z)
  BY DEF Slots
<1> QED
  BY <1>1, <1>6, <1>7, <1>8 DEF BaseList

\* The content of a base scope, list by list.
LEMMA BaseContentIs ==
  ASSUME NEW t, NEW o
  PROVE  /\ BaseContent(t, o)
              = [message |-> o.message, append_permissions |-> o.append_permissions,
                 slots |-> [d \in Dim |-> BaseMeaning(t, o, d)]]
         /\ \A d \in Dim : BaseContent(t, o).slots[d] = BaseMeaning(t, o, d)
<1>1. BaseContent(t, o)
        = [message |-> o.message, append_permissions |-> o.append_permissions,
           slots |-> [d \in Dim |-> BaseMeaning(t, o, d)]]
  BY DEF BaseContent, BaseMeaning
<1> QED
  BY <1>1

\* Equal base hashes, of as many signed types: the same is signed.
LEMMA BaseHashBinds ==
  ASSUME NEW t \in Transactions, NEW o \in Otxs, Valid(t, o),
         NEW u \in Transactions, NEW p \in Otxs, Valid(u, p),
         TypesOf(t, o) = TypesOf(u, p), OtxBaseHash(t, o) = OtxBaseHash(u, p)
  PROVE  BaseContent(t, o) = BaseContent(u, p)
<1> DEFINE a == <<o.message, <<o.append_permissions>>, BaseList(t, o, "inputs"),
                  BaseList(t, o, "outputs"), BaseList(t, o, "cell_deps"),
                  BaseList(t, o, "header_deps")>>
           b == <<p.message, <<p.append_permissions>>, BaseList(u, p, "inputs"),
                  BaseList(u, p, "outputs"), BaseList(u, p, "cell_deps"),
                  BaseList(u, p, "header_deps")>>
           x == <<o.append_permissions>>
           y == <<p.append_permissions>>
<1>1. \A d \in Dim :
        /\ BaseList(t, o, d) \in Str /\ BaseList(u, p, d) \in Str
        /\ Framed(BaseList(t, o, d), BaseList(u, p, d))
        /\ BaseList(t, o, d) = BaseList(u, p, d) => BaseMeaning(t, o, d) = BaseMeaning(u, p, d)
  BY BaseListFramed
<1>2. "inputs" \in Dim /\ "outputs" \in Dim /\ "cell_deps" \in Dim /\ "header_deps" \in Dim
  BY DEF Dim
<1>3. o.message \in Tables /\ p.message \in Tables
  BY ViewFacts, SigningAssumption
<1>4. o.message \in Str /\ p.message \in Str /\ Framed(o.message, p.message)
  BY <1>3, TablesFramed
<1>5. /\ x \in Str /\ y \in Str /\ Framed(x, y)
      /\ x = y => o.append_permissions = p.append_permissions
  <2>1. o.append_permissions \in Byte /\ p.append_permissions \in Byte
    BY ViewFacts
  <2> QED
    BY <2>1, ByteFramed
<1>6. /\ a[1] = o.message /\ b[1] = p.message /\ a[2] = x /\ b[2] = y
      /\ a[3] = BaseList(t, o, "inputs") /\ b[3] = BaseList(u, p, "inputs")
      /\ a[4] = BaseList(t, o, "outputs") /\ b[4] = BaseList(u, p, "outputs")
      /\ a[5] = BaseList(t, o, "cell_deps") /\ b[5] = BaseList(u, p, "cell_deps")
      /\ a[6] = BaseList(t, o, "header_deps") /\ b[6] = BaseList(u, p, "header_deps")
  OBVIOUS
<1>7. OtxBaseHash(t, o).preimage = Joined6(a) /\ OtxBaseHash(u, p).preimage = Joined6(b)
  BY DEF OtxBaseHash, Joined6, Joined5, Joined4, Joined3, Joined2
<1>8. Joined6(a) = Joined6(b)
  BY <1>7
<1> HIDE DEF a, b, x, y
<1>9. \A i \in 1..6 : a[i] \in Str /\ b[i] \in Str /\ Framed(a[i], b[i])
  <2>1. ASSUME NEW i \in 1..6
        PROVE  a[i] \in Str /\ b[i] \in Str /\ Framed(a[i], b[i])
    <3>1. i = 1 \/ i = 2 \/ i = 3 \/ i = 4 \/ i = 5 \/ i = 6
      OBVIOUS
    <3> QED
      BY <1>1, <1>2, <1>4, <1>5, <1>6, <3>1
  <2> QED
    BY <2>1
<1>10. InTurn(a, b, 6)
  BY <1>9 DEF InTurn
<1>11. a[1] = b[1] /\ a[2] = b[2] /\ a[3] = b[3] /\ a[4] = b[4] /\ a[5] = b[5] /\ a[6] = b[6]
  BY <1>8, <1>10, Join6
<1>12. \A d \in Dim : BaseMeaning(t, o, d) = BaseMeaning(u, p, d)
  <2>1. ASSUME NEW d \in Dim
        PROVE  BaseMeaning(t, o, d) = BaseMeaning(u, p, d)
    <3>1. BaseList(t, o, d) = BaseList(u, p, d)
      BY <1>6, <1>11, DimCases
    <3> QED
      BY <1>1, <3>1
  <2> QED
    BY <2>1
<1>13. o.message = p.message /\ o.append_permissions = p.append_permissions
  BY <1>5, <1>6, <1>11
<1>14. [d \in Dim |-> BaseMeaning(t, o, d)] = [d \in Dim |-> BaseMeaning(u, p, d)]
  BY <1>12
<1> QED
  BY <1>13, <1>14, BaseContentIs

\* The base hash depends on nothing but what is signed.
LEMMA BaseHashOf ==
  ASSUME NEW t \in Transactions, NEW o \in Otxs, Valid(t, o),
         NEW u \in Transactions, NEW p \in Otxs, Valid(u, p),
         BaseContent(t, o) = BaseContent(u, p)
  PROVE  OtxBaseHash(t, o) = OtxBaseHash(u, p)
<1>1. /\ o.message = p.message /\ o.append_permissions = p.append_permissions
      /\ \A d \in Dim : BaseMeaning(t, o, d) = BaseMeaning(u, p, d)
  <2>1. /\ BaseContent(t, o).message = o.message /\ BaseContent(u, p).message = p.message
        /\ BaseContent(t, o).append_permissions = o.append_permissions
        /\ BaseContent(u, p).append_permissions = p.append_permissions
    BY DEF BaseContent
  <2>2. \A d \in Dim : /\ BaseContent(t, o).slots[d] = BaseMeaning(t, o, d)
                       /\ BaseContent(u, p).slots[d] = BaseMeaning(u, p, d)
    BY BaseContentIs
  <2> QED
    BY <2>1, <2>2
<1>2. \A d \in Dim : BaseList(t, o, d) = BaseList(u, p, d)
  BY <1>1, BaseListOf
<1>3. "inputs" \in Dim /\ "outputs" \in Dim /\ "cell_deps" \in Dim /\ "header_deps" \in Dim
  BY DEF Dim
<1> QED
  BY <1>1, <1>2, <1>3 DEF OtxBaseHash

\* What the property asks for is that the signed types are there together.
LEMMA TypesSignedIs ==
  ASSUME NEW t, NEW o, NEW s
  PROVE  /\ TypesSigned([base |-> BaseContent(t, o)]) = TypesOf(t, o)
         /\ TypesSigned([segment |-> SegmentContent(t, o, s)]) = TypesOf(t, o)
         /\ TypesSigned([tx |-> TxContent(t)]) = {}
<1> DEFINE slots == BaseContent(t, o).slots["outputs"]
<1>1. slots = BaseMeaning(t, o, "outputs")
  BY BaseContentIs DEF Dim
<1>2. DOMAIN slots = 1..o.base["outputs"]
  BY <1>1 DEF BaseMeaning
<1>3. ASSUME NEW i \in 1..o.base["outputs"]
      PROVE  /\ 3 \in DOMAIN slots[i].fields <=> 3 \in Fields(o, "outputs", i)
             /\ 3 \in Fields(o, "outputs", i)
                  => slots[i].fields[3] = BaseItems(t, o, "outputs")[i].cell[3]
  <2> DEFINE x == BaseItems(t, o, "outputs")[i]
             F == Fields(o, "outputs", i)
  <2>1. slots[i] = SlotContent(o.masks["outputs"], "outputs", i, x)
    BY <1>1 DEF BaseMeaning
  <2>2. slots[i].fields = [f \in F |-> FieldsOf("outputs", x)[f]]
    BY <2>1 DEF SlotContent, Fields, Width
  <2>3. FieldsOf("outputs", x)[3] = x.cell[3]
    BY DEF FieldsOf
  <2> HIDE DEF F, x, slots
  <2>4. /\ 3 \in DOMAIN slots[i].fields <=> 3 \in F
        /\ 3 \in F => slots[i].fields[3] = x.cell[3]
    BY <2>2, <2>3
  <2> QED
    BY <2>4 DEF F, x
<1>4. {i \in DOMAIN slots : 3 \in DOMAIN slots[i].fields /\ slots[i].fields[3] # <<>>}
        = TypesOf(t, o)
  <2> HIDE DEF slots
  <2> QED
    BY <1>2, <1>3 DEF TypesOf
<1> HIDE DEF slots
<1>5. TypesSigned([base |-> BaseContent(t, o)]) = TypesOf(t, o)
  <2> DEFINE c == [base |-> BaseContent(t, o)]
  <2>1. "base" \in DOMAIN c /\ c.base.slots["outputs"] = slots
    BY DEF slots
  <2> HIDE DEF c
  <2>2. TypesSigned(c)
          = {i \in DOMAIN slots : 3 \in DOMAIN slots[i].fields /\ slots[i].fields[3] # <<>>}
    BY <2>1 DEF TypesSigned
  <2> QED
    BY <1>4, <2>2 DEF c
<1>6. TypesSigned([segment |-> SegmentContent(t, o, s)]) = TypesOf(t, o)
  <2> DEFINE c == [segment |-> SegmentContent(t, o, s)]
  <2>1. /\ "base" \notin DOMAIN c /\ "segment" \in DOMAIN c
        /\ c.segment.base.slots["outputs"] = slots
    BY DEF slots, SegmentContent
  <2> HIDE DEF c
  <2>2. TypesSigned(c)
          = {i \in DOMAIN slots : 3 \in DOMAIN slots[i].fields /\ slots[i].fields[3] # <<>>}
    BY <2>1 DEF TypesSigned
  <2> QED
    BY <1>4, <2>2 DEF c
<1>7. TypesSigned([tx |-> TxContent(t)]) = {}
  BY DEF TypesSigned
<1> QED
  BY <1>5, <1>6, <1>7

(***************************************************************************)
(* Segments and the transaction.                                           *)
(***************************************************************************)
\* The content of a segment is its flags and items.
LEMMA EntitiesContentOf ==
  ASSUME NEW t, NEW o, NEW s, NEW u, NEW p, NEW r
  PROVE  EntitiesContent(t, o, s) = EntitiesContent(u, p, r)
           <=> /\ o.segments[s].flags = p.segments[r].flags
               /\ \A d \in Dim : SegmentItems(t, o, s, d) = SegmentItems(u, p, r, d)
<1> DEFINE a == [d \in Dim |-> SegmentItems(t, o, s, d)]
           b == [d \in Dim |-> SegmentItems(u, p, r, d)]
           v(l) == [i \in DOMAIN l |-> ResolvedOf("inputs", l[i])]
           f == o.segments[s].flags
           g == p.segments[r].flags
<1>1. /\ EntitiesContent(t, o, s) = [flags |-> f, items |-> a, resolved |-> v(a["inputs"])]
      /\ EntitiesContent(u, p, r) = [flags |-> g, items |-> b, resolved |-> v(b["inputs"])]
  BY DEF EntitiesContent, Dim
<1>2. a = b <=> \A d \in Dim : SegmentItems(t, o, s, d) = SegmentItems(u, p, r, d)
  <2>1. \A d \in Dim : a[d] = SegmentItems(t, o, s, d) /\ b[d] = SegmentItems(u, p, r, d)
    OBVIOUS
  <2>2. a = [d \in Dim |-> a[d]] /\ b = [d \in Dim |-> b[d]]
    OBVIOUS
  <2> HIDE DEF a, b
  <2> QED
    BY <2>1, <2>2
<1> HIDE DEF a, b, v, f, g
<1>3. EntitiesContent(t, o, s) = EntitiesContent(u, p, r) <=> f = g /\ a = b
  <2>1. CASE f = g /\ a = b
    BY <1>1, <2>1
  <2>2. CASE EntitiesContent(t, o, s) = EntitiesContent(u, p, r)
    <3>1. /\ EntitiesContent(t, o, s).flags = f /\ EntitiesContent(t, o, s).items = a
          /\ EntitiesContent(u, p, r).flags = g /\ EntitiesContent(u, p, r).items = b
      BY <1>1
    <3> QED
      BY <2>2, <3>1
  <2> QED
    BY <2>1, <2>2
<1> QED
  BY <1>2, <1>3 DEF f, g

\* Equal segment hashes, of as many signed types: the same is signed.
LEMMA SegmentHashBinds ==
  ASSUME NEW t \in Transactions, NEW o \in Otxs, Valid(t, o), NEW s \in 1..Len(o.segments),
         NEW u \in Transactions, NEW p \in Otxs, Valid(u, p), NEW r \in 1..Len(p.segments),
         TypesOf(t, o) = TypesOf(u, p),
         OtxAppendSegmentHash(t, o, s) = OtxAppendSegmentHash(u, p, r)
  PROVE  SegmentContent(t, o, s) = SegmentContent(u, p, r)
<1>1. /\ OtxBaseHash(t, o) = OtxBaseHash(u, p)
      /\ SegmentPreimage(t, o, s) = SegmentPreimage(u, p, r)
  BY DEF OtxAppendSegmentHash, SegmentPreimage
<1>2. BaseContent(t, o) = BaseContent(u, p)
  BY <1>1, BaseHashBinds
<1>3. /\ SegmentBytes(t, o, s) = SegmentBytes(u, p, r)
      /\ o.segments[s].flags = p.segments[r].flags
      /\ CoversPrevious(o.segments[s].flags) =>
           /\ s = r
           /\ \A i \in 1..(s - 1) : SegmentBytes(t, o, i) = SegmentBytes(u, p, i)
  BY <1>1, SegmentPreimageBinds
<1>4. \A i \in 1..Len(o.segments), j \in 1..Len(p.segments) :
        SegmentBytes(t, o, i) = SegmentBytes(u, p, j)
          => EntitiesContent(t, o, i) = EntitiesContent(u, p, j)
  BY SegmentFramed, EntitiesContentOf
<1>5. EntitiesContent(t, o, s) = EntitiesContent(u, p, r)
  BY <1>3, <1>4
<1>6. ASSUME CoversPrevious(o.segments[s].flags)
      PROVE  [i \in 1..(s - 1) |-> EntitiesContent(t, o, i)]
               = [i \in 1..(r - 1) |-> EntitiesContent(u, p, i)]
  <2>1. s = r /\ \A i \in 1..(s - 1) : SegmentBytes(t, o, i) = SegmentBytes(u, p, i)
    BY <1>3, <1>6
  <2>2. \A i \in 1..(s - 1) : i \in 1..Len(o.segments) /\ i \in 1..Len(p.segments)
    <3>1. Len(o.segments) \in Nat /\ Len(p.segments) \in Nat
      BY ViewFacts
    <3> QED
      BY <2>1, <3>1
  <2>3. \A i \in 1..(s - 1) : EntitiesContent(t, o, i) = EntitiesContent(u, p, i)
    BY <1>4, <2>1, <2>2
  <2> QED
    BY <2>1, <2>3
<1>7. (IF CoversPrevious(o.segments[s].flags)
       THEN [i \in 1..(s - 1) |-> EntitiesContent(t, o, i)] ELSE <<>>)
        = IF CoversPrevious(p.segments[r].flags)
          THEN [i \in 1..(r - 1) |-> EntitiesContent(u, p, i)] ELSE <<>>
  BY <1>3, <1>6
<1> QED
  BY <1>2, <1>5, <1>7 DEF SegmentContent

\* The segment hash depends on nothing but what is signed.
LEMMA SegmentHashOf ==
  ASSUME NEW t \in Transactions, NEW o \in Otxs, Valid(t, o), NEW s \in 1..Len(o.segments),
         NEW u \in Transactions, NEW p \in Otxs, Valid(u, p), NEW r \in 1..Len(p.segments),
         SegmentContent(t, o, s) = SegmentContent(u, p, r)
  PROVE  OtxAppendSegmentHash(t, o, s) = OtxAppendSegmentHash(u, p, r)
<1> DEFINE f == o.segments[s].flags
           a == [i \in 1..(s - 1) |-> EntitiesContent(t, o, i)]
           b == [i \in 1..(r - 1) |-> EntitiesContent(u, p, i)]
<1>1. /\ BaseContent(t, o) = BaseContent(u, p)
      /\ EntitiesContent(t, o, s) = EntitiesContent(u, p, r)
      /\ (IF CoversPrevious(o.segments[s].flags) THEN a ELSE <<>>)
           = IF CoversPrevious(p.segments[r].flags) THEN b ELSE <<>>
  <2>1. /\ SegmentContent(t, o, s).base = BaseContent(t, o)
        /\ SegmentContent(u, p, r).base = BaseContent(u, p)
        /\ SegmentContent(t, o, s).own = EntitiesContent(t, o, s)
        /\ SegmentContent(u, p, r).own = EntitiesContent(u, p, r)
        /\ SegmentContent(t, o, s).previous
             = IF CoversPrevious(o.segments[s].flags) THEN a ELSE <<>>
        /\ SegmentContent(u, p, r).previous
             = IF CoversPrevious(p.segments[r].flags) THEN b ELSE <<>>
    BY DEF SegmentContent
  <2> HIDE DEF a, b
  <2> QED
    BY <2>1
<1>2. OtxBaseHash(t, o) = OtxBaseHash(u, p)
  BY <1>1, BaseHashOf
<1>3. \A i \in 1..Len(o.segments), j \in 1..Len(p.segments) :
        EntitiesContent(t, o, i) = EntitiesContent(u, p, j)
          => SegmentBytes(t, o, i) = SegmentBytes(u, p, j)
  <2>1. ASSUME NEW i \in 1..Len(o.segments), NEW j \in 1..Len(p.segments),
               EntitiesContent(t, o, i) = EntitiesContent(u, p, j)
        PROVE  SegmentBytes(t, o, i) = SegmentBytes(u, p, j)
    <3>1. /\ o.segments[i].flags = p.segments[j].flags
          /\ \A d \in Dim : SegmentItems(t, o, i, d) = SegmentItems(u, p, j, d)
      BY <2>1, EntitiesContentOf
    <3> QED
      BY <3>1, SegmentBytesOf
  <2> QED
    BY <2>1
<1>4. SegmentBytes(t, o, s) = SegmentBytes(u, p, r) /\ f = p.segments[r].flags
  BY <1>1, <1>3, EntitiesContentOf
<1>5. PreviousSegments(t, o, s) = PreviousSegments(u, p, r)
  <2>1. CASE ~CoversPrevious(f)
    BY <1>4, <2>1 DEF PreviousSegments
  <2>2. CASE CoversPrevious(f)
    <3>1. a = b
      BY <1>1, <1>4, <2>2
    <3>2. DOMAIN a = 1..(s - 1) /\ DOMAIN b = 1..(r - 1)
      OBVIOUS
    <3>3. /\ \A i \in 1..(s - 1) : a[i] = EntitiesContent(t, o, i)
          /\ \A i \in 1..(r - 1) : b[i] = EntitiesContent(u, p, i)
      OBVIOUS
    <3> HIDE DEF a, b
    <3>4. s \in Nat /\ r \in Nat /\ s >= 1 /\ r >= 1
      BY ViewFacts
    <3>5. s = r
      <4>1. 1..(s - 1) = 1..(r - 1)
        BY <3>1, <3>2
      <4> QED
        BY <3>4, <4>1
    <3>6. \A i \in 1..(s - 1) : i \in 1..Len(o.segments) /\ i \in 1..Len(p.segments)
      <4>1. Len(o.segments) \in Nat /\ Len(p.segments) \in Nat
        BY ViewFacts
      <4> QED
        BY <3>5, <4>1
    <3>7. \A i \in 1..(s - 1) : SegmentBytes(t, o, i) = SegmentBytes(u, p, i)
      BY <1>3, <3>1, <3>3, <3>5, <3>6
    <3>8. [i \in 1..(s - 1) |-> SegmentBytes(t, o, i)]
            = [i \in 1..(r - 1) |-> SegmentBytes(u, p, i)]
      BY <3>5, <3>7
    <3> QED
      BY <1>4, <2>2, <3>5, <3>8 DEF PreviousSegments
  <2> QED
    BY <2>1, <2>2
<1> QED
  BY <1>2, <1>4, <1>5 DEF OtxAppendSegmentHash

\* The witnesses behind those of the inputs, and how they are hashed.
LEMMA ExtraWitnessesTyped ==
  ASSUME NEW t \in Transactions
  PROVE  /\ ExtraWitnesses(t) \in Seq(Bytes)
         /\ FlattenSeq([i \in DOMAIN t.lists["inputs"] |-> Resolved(t.lists["inputs"][i])]) \in Str
<1> DEFINE l == t.lists["inputs"]
           w == t.witnesses
           m == Len(l)
           n == Len(w)
           z == [i \in DOMAIN l |-> Resolved(l[i])]
<1>1. /\ l \in Seq(ListItems["inputs"]) /\ m \in Nat /\ w \in Seq(Witnesses) /\ n \in Nat
  BY TransactionFacts, LenProperties DEF Dim
<1>2. ExtraWitnesses(t) = SubSeq(w, m + 1, n)
  BY DEF ExtraWitnesses
<1> HIDE DEF l, w, m, n
<1>3. \A i \in (m + 1)..n : w[i] \in Bytes
  <2>1. \A i \in 1..n : w[i] \in Witnesses
    BY <1>1, ElementOfSeq DEF n
  <2> QED
    BY <1>1, <2>1, SigningAssumption
<1>4. SubSeq(w, m + 1, n) \in Seq(Bytes)
  <2>1. m + 1 \in Int /\ n \in Int
    BY <1>1
  <2> QED
    BY <1>3, <2>1, SubSeqProperties
<1>5. z \in Seq(Str)
  <2>1. DOMAIN l = 1..m /\ \A i \in 1..m : l[i] \in ListItems["inputs"]
    BY <1>1, LenProperties, ElementOfSeq DEF m
  <2>2. \A x \in ListItems["inputs"] : Resolved(x) \in Str
    BY ResolvedFramed
  <2>3. z \in [1..m -> Str]
    BY <2>1, <2>2
  <2> HIDE DEF z
  <2> QED
    BY <1>1, <2>3, FunctionIsSeq
<1>6. FlattenSeq(z) \in Str
  <2> HIDE DEF z
  <2> QED
    BY <1>5, FlattenType DEF Str
<1> QED
  BY <1>2, <1>4, <1>6 DEF l

\* Equal hashes of transactions: the message, the lists and the witnesses are equal.
LEMMA TxHashBinds ==
  ASSUME NEW t \in Transactions, NEW u \in Transactions, TxSigningHash(t) = TxSigningHash(u)
  PROVE  TxContent(t) = TxContent(u)
<1> DEFINE m == t.message
           n == u.message
           c == FlattenSeq([i \in DOMAIN t.lists["inputs"] |-> Resolved(t.lists["inputs"][i])])
           v == ExtraWitnesses(t)
           w == ExtraWitnesses(u)
           x == [i \in DOMAIN v |-> LenPrefixed(v[i])]
           y == [i \in DOMAIN w |-> LenPrefixed(w[i])]
<1>1. t.lists = u.lists
  BY DEF TxSigningHash
<1>2. c \in Str /\ v \in Seq(Bytes) /\ w \in Seq(Bytes)
  BY ExtraWitnessesTyped
<1>3. c \o FlattenSeq(x) = c \o FlattenSeq(y)
  <2>1. TxSigningHash(t).preimage = c \o FlattenSeq(x)
    BY DEF TxSigningHash
  <2>2. TxSigningHash(u).preimage = c \o FlattenSeq(y)
    BY <1>1 DEF TxSigningHash
  <2> QED
    BY <2>1, <2>2
<1>4. m = n
  <2>1. /\ (m = <<>> <=> n = <<>>)
        /\ OptBytes(m) = OptBytes(n)
    <3>1. /\ TxSigningHash(t).personal = IF m = <<>> THEN "ckbcb_tnm_core1" ELSE "ckbcb_twm_core1"
          /\ TxSigningHash(u).personal = IF n = <<>> THEN "ckbcb_tnm_core1" ELSE "ckbcb_twm_core1"
          /\ TxSigningHash(t).message = OptBytes(m) /\ TxSigningHash(u).message = OptBytes(n)
      BY DEF TxSigningHash
    <3>2. "ckbcb_tnm_core1" # "ckbcb_twm_core1"
      OBVIOUS
    <3> QED
      BY <3>1, <3>2
  <2>2. m \in {s \in Seq(Tables) : Len(s) <= 1} /\ n \in {s \in Seq(Tables) : Len(s) <= 1}
    <3>1. m \in Seq(Messages) /\ Len(m) <= 1 /\ n \in Seq(Messages) /\ Len(n) <= 1
      BY TransactionFacts
    <3>2. \A s \in Seq(Messages) : s \in Seq(Tables)
      <4>1. \A e \in Messages : e \in Tables
        BY SigningAssumption
      <4> QED
        BY <4>1
    <3> HIDE DEF m, n
    <3> QED
      BY <3>1, <3>2
  <2> HIDE DEF m, n
  <2>3. /\ m # <<>> => m = <<OptBytes(m)>>
        /\ n # <<>> => n = <<OptBytes(n)>>
    BY <2>2, OptBytesFacts
  <2> QED
    BY <2>1, <2>3
<1> HIDE DEF c, v, w
<1>5. ASSUME NEW s \in Seq(Bytes)
      PROVE  LET z == [i \in DOMAIN s |-> LenPrefixed(s[i])]
             IN  /\ z \in Seq(Str) /\ Len(z) = Len(s)
                 /\ \A i \in 1..Len(s) : s[i] \in Bytes /\ z[i] = LenPrefixed(s[i]) /\ z[i] # <<>>
  <2> DEFINE z == [i \in DOMAIN s |-> LenPrefixed(s[i])]
             l == Len(s)
  <2>1. l \in Nat /\ DOMAIN s = 1..l /\ \A i \in 1..l : s[i] \in Bytes
    BY LenProperties, ElementOfSeq
  <2>2. \A a \in Bytes : LenPrefixed(a) \in Str /\ LenPrefixed(a) # <<>>
    BY LenPrefixedFramed
  <2> HIDE DEF l
  <2>3. z \in [1..l -> Str] /\ \A i \in 1..l : z[i] = LenPrefixed(s[i]) /\ z[i] # <<>>
    BY <2>1, <2>2
  <2> HIDE DEF z
  <2>4. z \in Seq(Str) /\ Len(z) = l
    BY <2>1, <2>3, FunctionIsSeq
  <2> QED
    BY <2>1, <2>3, <2>4 DEF z, l
<1>6. /\ x \in Seq(Str) /\ Len(x) = Len(v)
      /\ \A i \in 1..Len(v) : v[i] \in Bytes /\ x[i] = LenPrefixed(v[i]) /\ x[i] # <<>>
  BY <1>2, <1>5
<1>7. /\ y \in Seq(Str) /\ Len(y) = Len(w)
      /\ \A i \in 1..Len(w) : w[i] \in Bytes /\ y[i] = LenPrefixed(w[i]) /\ y[i] # <<>>
  BY <1>2, <1>5
<1> HIDE DEF x, y
<1>8. FlattenSeq(x) = FlattenSeq(y)
  <2> DEFINE a == FlattenSeq(x)
             b == FlattenSeq(y)
  <2>1. a \in Str /\ b \in Str /\ c \o a = c \o b
    BY <1>3, <1>6, <1>7, FlattenType DEF Str
  <2> HIDE DEF a, b
  <2>2. a = b
    BY <1>2, <2>1, StrCancel
  <2> QED
    BY <2>2 DEF a, b
<1>9. x = y
  <2>1. \A i \in 1..Len(x), j \in 1..Len(y) : Framed(x[i], y[j]) /\ Framed(y[j], x[i])
    BY <1>6, <1>7, LenPrefixedFramed
  <2>2. /\ \A i \in 1..Len(x) : x[i] # <<>>
        /\ \A i \in 1..Len(y) : y[i] # <<>>
    BY <1>6, <1>7
  <2> QED
    BY <1>6, <1>7, <1>8, <2>1, <2>2, FlattenSame
<1>10. v = w
  <2>1. Len(v) = Len(w)
    BY <1>6, <1>7, <1>9
  <2>2. \A i \in 1..Len(v) : v[i] = w[i]
    BY <1>6, <1>7, <1>9, <2>1, LenPrefixedFramed
  <2> QED
    BY <1>2, <2>1, <2>2, SeqEqual
<1> QED
  BY <1>1, <1>4, <1>10 DEF TxContent, v, w

\* The hash of a transaction depends on nothing but what is signed.
LEMMA TxHashOf ==
  ASSUME NEW t, NEW u, TxContent(t) = TxContent(u)
  PROVE  TxSigningHash(t) = TxSigningHash(u)
<1>1. /\ TxContent(t).message = t.message /\ TxContent(u).message = u.message
      /\ TxContent(t).lists = t.lists /\ TxContent(u).lists = u.lists
      /\ TxContent(t).witnesses = ExtraWitnesses(t) /\ TxContent(u).witnesses = ExtraWitnesses(u)
  BY DEF TxContent
<1>2. t.message = u.message /\ t.lists = u.lists /\ ExtraWitnesses(t) = ExtraWitnesses(u)
  BY <1>1
<1> QED
  BY <1>2 DEF TxSigningHash

(***************************************************************************)
(* The specification.                                                      *)
(***************************************************************************)
\* A signature is over a scope that was the newest of its OTX, or over the transaction,
\* and relies on scopes that were there as well.
Sound(g) ==
  \E t \in Transactions, o \in Otxs : \E s \in ScopesOf(t, o) :
    /\ g.hash = HashAt(t, o, s) /\ g.content = ContentAt(t, o, s)
    /\ s # TxScope => s = Len(o.segments)
    /\ g.relied \subseteq {HashAt(t, o, q) : q \in ScopesOf(t, o)}
SigningInv ==
  /\ tx \in Transactions /\ otx \in Otxs
  /\ \A g \in signed : Sound(g)

\* A signature that is made now is sound.
LEMMA NewSignatureSound ==
  ASSUME tx \in Transactions, otx \in Otxs, NEW scope \in {NewestScope, TxScope} \cap Scopes
  PROVE  Sound(Signature(scope))
<1> DEFINE g == Signature(scope)
<1>1. /\ g.hash = HashAt(tx, otx, scope) /\ g.content = ContentAt(tx, otx, scope)
      /\ g.relied = {h.hash : h \in {h \in signed : Accepted(h)}}
  BY DEF Signature, HashOf, ContentOf
<1>2. scope \in ScopesOf(tx, otx) /\ (scope # TxScope => scope = Len(otx.segments))
  BY DEF Scopes, NewestScope
<1>3. \A h \in signed : Accepted(h) => \E q \in ScopesOf(tx, otx) : h.hash = HashAt(tx, otx, q)
  BY DEF Accepted, Scopes, HashOf
<1> HIDE DEF g
<1>4. g.relied \subseteq {HashAt(tx, otx, q) : q \in ScopesOf(tx, otx)}
  BY <1>1, <1>3
<1>5. Sound(g)
  BY <1>1, <1>2, <1>4 DEF Sound
<1> QED
  BY <1>5 DEF g

\* SigningInv holds in every state.
LEMMA SigningInvariant == SigningSpec => []SigningInv
<1>1. Init => SigningInv
  BY DEF Init, SigningInv
<1>2. ASSUME SigningInv, [Next]_signingVars
      PROVE  SigningInv'
  <2>1. ASSUME \E t, o : Put(t, o), signed' = signed
        PROVE  SigningInv'
    <3>1. tx' \in Transactions /\ otx' \in Otxs
      BY <2>1 DEF Put
    <3> QED
      BY <1>2, <2>1, <3>1 DEF SigningInv
  <2>2. CASE SignScope
    <3>1. PICK scope \in {NewestScope, TxScope} \cap Scopes : Sign(scope)
      BY <2>2 DEF SignScope
    <3>2. signed' = signed \cup {Signature(scope)}
      BY <3>1 DEF Sign
    <3>3. tx' = tx /\ otx' = otx
      BY <2>2 DEF SignScope
    <3>4. Sound(Signature(scope))
      BY <1>2, NewSignatureSound DEF SigningInv
    <3> QED
      BY <1>2, <3>2, <3>3, <3>4 DEF SigningInv
  <2>3. CASE AppendSegment
    BY <2>1, <2>3 DEF AppendSegment
  <2>4. CASE ChangeItem
    BY <2>1, <2>4 DEF ChangeItem, Edit
  <2>5. CASE ChangeTxMessage
    BY <2>1, <2>5 DEF ChangeTxMessage, Edit
  <2>6. CASE ChangeWitness
    BY <2>1, <2>6 DEF ChangeWitness, Edit
  <2>7. CASE ChangeView
    BY <2>1, <2>7 DEF ChangeView, Edit
  <2>8. CASE MoveBoundary
    BY <2>1, <2>8 DEF MoveBoundary, Edit
  <2>9. CASE SwapSegments
    BY <2>1, <2>9 DEF SwapSegments, Edit
  <2>10. CASE DropSegment
    BY <2>1, <2>10 DEF DropSegment, Edit
  <2>11. CASE PrependForeign
    BY <2>1, <2>11 DEF PrependForeign, Edit
  <2>12. CASE UNCHANGED signingVars
    BY <1>2, <2>12 DEF SigningInv, signingVars
  <2> QED
    BY <1>2, <2>2, <2>3, <2>4, <2>5, <2>6, <2>7, <2>8, <2>9, <2>10, <2>11, <2>12 DEF Next
<1> QED
  BY <1>1, <1>2, PTL DEF SigningSpec

\* The three kinds of scope.
IsBase(t, o, s) ==
  /\ Valid(t, o) /\ s = BaseScope /\ s # TxScope
  /\ HashAt(t, o, s) = OtxBaseHash(t, o)
  /\ ContentAt(t, o, s) = [base |-> BaseContent(t, o)]
IsSegment(t, o, s) ==
  /\ Valid(t, o) /\ s \in 1..Len(o.segments) /\ s # TxScope
  /\ HashAt(t, o, s) = OtxAppendSegmentHash(t, o, s)
  /\ ContentAt(t, o, s) = [segment |-> SegmentContent(t, o, s)]
IsTx(t, o, s) ==
  /\ s = TxScope
  /\ HashAt(t, o, s) = TxSigningHash(t)
  /\ ContentAt(t, o, s) = [tx |-> TxContent(t)]

\* A scope is of one of the three kinds.
LEMMA ScopeKinds ==
  ASSUME NEW t, NEW o \in Otxs, NEW s \in ScopesOf(t, o)
  PROVE  IsBase(t, o, s) \/ IsSegment(t, o, s) \/ IsTx(t, o, s)
<1>1. /\ Len(o.segments) \in Nat /\ Len(o.segments) <= MaxSegments /\ MaxSegments \in Nat
  <2>1. SizeLimit \in Nat
    BY SMT DEF SizeLimit
  <2> QED
    BY <2>1, ViewFacts, SigningAssumption
<1>2. BaseScope # TxScope /\ \A q \in 0..Len(o.segments) : q # TxScope
  BY <1>1 DEF BaseScope, TxScope
<1>3. CASE s = TxScope
  <2>1. s # BaseScope
    BY <1>2, <1>3
  <2>2. HashAt(t, o, s) = TxSigningHash(t) /\ ContentAt(t, o, s) = [tx |-> TxContent(t)]
    BY <1>3, <2>1 DEF HashAt, ContentAt
  <2> QED
    BY <1>3, <2>2 DEF IsTx
<1>4. CASE s # TxScope
  <2>1. Valid(t, o) /\ s \in 0..Len(o.segments)
    BY <1>4 DEF ScopesOf, BaseScope
  <2>2. CASE s = BaseScope
    <3>1. /\ HashAt(t, o, s) = OtxBaseHash(t, o)
          /\ ContentAt(t, o, s) = [base |-> BaseContent(t, o)]
      BY <1>2, <2>2 DEF HashAt, ContentAt
    <3> QED
      BY <1>4, <2>1, <2>2, <3>1 DEF IsBase
  <2>3. CASE s # BaseScope
    <3>1. s \in 1..Len(o.segments)
      BY <1>1, <2>1, <2>3 DEF BaseScope
    <3>2. /\ HashAt(t, o, s) = OtxAppendSegmentHash(t, o, s)
          /\ ContentAt(t, o, s) = [segment |-> SegmentContent(t, o, s)]
      BY <1>4, <2>3 DEF HashAt, ContentAt
    <3> QED
      BY <1>4, <2>1, <3>1, <3>2 DEF IsSegment
  <2> QED
    BY <2>2, <2>3
<1> QED
  BY <1>3, <1>4

\* Hashes of two kinds differ by their personalization, and so do the contents.
LEMMA KindsApart ==
  ASSUME NEW t, NEW o, NEW s, NEW u, NEW p, NEW r
  PROVE  /\ OtxBaseHash(t, o) # OtxAppendSegmentHash(u, p, r)
         /\ OtxBaseHash(t, o) # TxSigningHash(u)
         /\ OtxAppendSegmentHash(t, o, s) # TxSigningHash(u)
         /\ [base |-> BaseContent(t, o)] # [segment |-> SegmentContent(u, p, r)]
         /\ [base |-> BaseContent(t, o)] # [tx |-> TxContent(u)]
         /\ [segment |-> SegmentContent(t, o, s)] # [tx |-> TxContent(u)]
<1>1. OtxBaseHash(t, o).personal = "ckbcb_otb_core1"
  BY DEF OtxBaseHash
<1>2. /\ OtxAppendSegmentHash(u, p, r).personal = "ckbcb_ots_core1"
      /\ OtxAppendSegmentHash(t, o, s).personal = "ckbcb_ots_core1"
  BY DEF OtxAppendSegmentHash
<1>3. TxSigningHash(u).personal \in {"ckbcb_tnm_core1", "ckbcb_twm_core1"}
  BY DEF TxSigningHash
<1>4. /\ "ckbcb_otb_core1" # "ckbcb_ots_core1"
      /\ "ckbcb_otb_core1" \notin {"ckbcb_tnm_core1", "ckbcb_twm_core1"}
      /\ "ckbcb_ots_core1" \notin {"ckbcb_tnm_core1", "ckbcb_twm_core1"}
  OBVIOUS
<1>5. \A x, y : /\ [base |-> x] # [segment |-> y]
                /\ [base |-> x] # [tx |-> y]
                /\ [segment |-> x] # [tx |-> y]
  <2>1. \A x : /\ DOMAIN [base |-> x] = {"base"}
               /\ DOMAIN [segment |-> x] = {"segment"}
               /\ DOMAIN [tx |-> x] = {"tx"}
    OBVIOUS
  <2>2. {"base"} # {"segment"} /\ {"base"} # {"tx"} /\ {"segment"} # {"tx"}
    OBVIOUS
  <2> QED
    BY <2>1, <2>2
<1> QED
  BY <1>1, <1>2, <1>3, <1>4, <1>5

\* Two scopes of one hash, or of one content, are of one kind.
LEMMA SameKind ==
  ASSUME NEW t, NEW o \in Otxs, NEW s \in ScopesOf(t, o),
         NEW u, NEW p \in Otxs, NEW r \in ScopesOf(u, p),
         HashAt(t, o, s) = HashAt(u, p, r) \/ ContentAt(t, o, s) = ContentAt(u, p, r)
  PROVE  \/ IsBase(t, o, s) /\ IsBase(u, p, r)
         \/ IsSegment(t, o, s) /\ IsSegment(u, p, r)
         \/ IsTx(t, o, s) /\ IsTx(u, p, r)
<1>1. /\ IsBase(t, o, s) \/ IsSegment(t, o, s) \/ IsTx(t, o, s)
      /\ IsBase(u, p, r) \/ IsSegment(u, p, r) \/ IsTx(u, p, r)
  BY ScopeKinds
<1>2. /\ OtxBaseHash(t, o) # OtxAppendSegmentHash(u, p, r)
      /\ OtxBaseHash(t, o) # TxSigningHash(u)
      /\ OtxAppendSegmentHash(t, o, s) # TxSigningHash(u)
      /\ [base |-> BaseContent(t, o)] # [segment |-> SegmentContent(u, p, r)]
      /\ [base |-> BaseContent(t, o)] # [tx |-> TxContent(u)]
      /\ [segment |-> SegmentContent(t, o, s)] # [tx |-> TxContent(u)]
  BY KindsApart
<1>3. /\ OtxBaseHash(u, p) # OtxAppendSegmentHash(t, o, s)
      /\ OtxBaseHash(u, p) # TxSigningHash(t)
      /\ OtxAppendSegmentHash(u, p, r) # TxSigningHash(t)
      /\ [base |-> BaseContent(u, p)] # [segment |-> SegmentContent(t, o, s)]
      /\ [base |-> BaseContent(u, p)] # [tx |-> TxContent(t)]
      /\ [segment |-> SegmentContent(u, p, r)] # [tx |-> TxContent(t)]
  BY KindsApart
<1> QED
  BY <1>1, <1>2, <1>3 DEF IsBase, IsSegment, IsTx

\* Scopes of one hash and with the same signed types have one content.
LEMMA HashBinds ==
  ASSUME NEW t \in Transactions, NEW o \in Otxs, NEW s \in ScopesOf(t, o),
         NEW u \in Transactions, NEW p \in Otxs, NEW r \in ScopesOf(u, p),
         HashAt(t, o, s) = HashAt(u, p, r),
         TypesSigned(ContentAt(t, o, s)) = TypesSigned(ContentAt(u, p, r))
  PROVE  ContentAt(t, o, s) = ContentAt(u, p, r)
<1>1. CASE IsBase(t, o, s) /\ IsBase(u, p, r)
  <2>1. TypesOf(t, o) = TypesOf(u, p) /\ OtxBaseHash(t, o) = OtxBaseHash(u, p)
    BY <1>1, TypesSignedIs DEF IsBase
  <2>2. BaseContent(t, o) = BaseContent(u, p)
    BY <1>1, <2>1, BaseHashBinds DEF IsBase
  <2> QED
    BY <1>1, <2>2 DEF IsBase
<1>2. CASE IsSegment(t, o, s) /\ IsSegment(u, p, r)
  <2>1. /\ TypesOf(t, o) = TypesOf(u, p)
        /\ OtxAppendSegmentHash(t, o, s) = OtxAppendSegmentHash(u, p, r)
    BY <1>2, TypesSignedIs DEF IsSegment
  <2>2. SegmentContent(t, o, s) = SegmentContent(u, p, r)
    BY <1>2, <2>1, SegmentHashBinds DEF IsSegment
  <2> QED
    BY <1>2, <2>2 DEF IsSegment
<1>3. CASE IsTx(t, o, s) /\ IsTx(u, p, r)
  <2>1. TxContent(t) = TxContent(u)
    BY <1>3, TxHashBinds DEF IsTx
  <2> QED
    BY <1>3, <2>1 DEF IsTx
<1> QED
  BY <1>1, <1>2, <1>3, SameKind

\* Scopes of one content have one hash.
LEMMA HashOfContent ==
  ASSUME NEW t \in Transactions, NEW o \in Otxs, NEW s \in ScopesOf(t, o),
         NEW u \in Transactions, NEW p \in Otxs, NEW r \in ScopesOf(u, p),
         ContentAt(t, o, s) = ContentAt(u, p, r)
  PROVE  HashAt(t, o, s) = HashAt(u, p, r)
<1>1. \A x, y : /\ [base |-> x] = [base |-> y] => x = y
                /\ [segment |-> x] = [segment |-> y] => x = y
                /\ [tx |-> x] = [tx |-> y] => x = y
  <2>1. \A x : [base |-> x].base = x /\ [segment |-> x].segment = x /\ [tx |-> x].tx = x
    OBVIOUS
  <2> QED
    BY <2>1
<1>2. CASE IsBase(t, o, s) /\ IsBase(u, p, r)
  <2>1. [base |-> BaseContent(t, o)] = [base |-> BaseContent(u, p)]
    BY <1>2 DEF IsBase
  <2>2. BaseContent(t, o) = BaseContent(u, p)
    BY <1>1, <2>1
  <2> QED
    BY <1>2, <2>2, BaseHashOf DEF IsBase
<1>3. CASE IsSegment(t, o, s) /\ IsSegment(u, p, r)
  <2>1. [segment |-> SegmentContent(t, o, s)] = [segment |-> SegmentContent(u, p, r)]
    BY <1>3 DEF IsSegment
  <2>2. SegmentContent(t, o, s) = SegmentContent(u, p, r)
    BY <1>1, <2>1
  <2> QED
    BY <1>3, <2>2, SegmentHashOf DEF IsSegment
<1>4. CASE IsTx(t, o, s) /\ IsTx(u, p, r)
  <2>1. [tx |-> TxContent(t)] = [tx |-> TxContent(u)]
    BY <1>4 DEF IsTx
  <2>2. TxContent(t) = TxContent(u)
    BY <1>1, <2>1
  <2> QED
    BY <1>4, <2>2, TxHashOf DEF IsTx
<1> QED
  BY <1>2, <1>3, <1>4, SameKind

\* Where the hash of a signature comes up again, what it was made over is there
\* again, for all transactions and OTXs whose same outputs have a signed type:
\* equal preimages are cut into the same pieces (hash/mod.rs).
THEOREM SignaturesBind == SigningSpec => []SignatureBinds
<1>1. SigningInv => SignatureBinds
  <2>1. SUFFICES ASSUME SigningInv, NEW g \in signed, NEW scope \in Scopes, HashOf(scope) = g.hash,
                        TypesSigned(ContentOf(scope)) = TypesSigned(g.content)
                 PROVE  ContentOf(scope) = g.content
    BY DEF SignatureBinds
  <2>2. tx \in Transactions /\ otx \in Otxs /\ scope \in ScopesOf(tx, otx)
    BY <2>1 DEF SigningInv, Scopes
  <2>3. PICK t \in Transactions, o \in Otxs : \E s \in ScopesOf(t, o) :
          g.hash = HashAt(t, o, s) /\ g.content = ContentAt(t, o, s)
    BY <2>1 DEF SigningInv, Sound
  <2>4. PICK s \in ScopesOf(t, o) : g.hash = HashAt(t, o, s) /\ g.content = ContentAt(t, o, s)
    BY <2>3
  <2>5. HashAt(tx, otx, scope) = HashAt(t, o, s)
    BY <2>1, <2>4 DEF HashOf
  <2>6. TypesSigned(ContentAt(tx, otx, scope)) = TypesSigned(ContentAt(t, o, s))
    BY <2>1, <2>4 DEF ContentOf
  <2>7. ContentAt(tx, otx, scope) = ContentAt(t, o, s)
    BY <2>2, <2>5, <2>6, HashBinds
  <2> QED
    BY <2>4, <2>7 DEF ContentOf
<1> QED
  BY <1>1, SigningInvariant, PTL

\* A signature is accepted wherever what it was made over is found again,
\* whatever else has changed: an OTX may be moved, and fields no mask names may
\* be filled in (hash/mod.rs).
THEOREM OnlyContentCounts == SigningSpec => []OnlyContentBinds
<1>1. SigningInv => OnlyContentBinds
  <2>1. SUFFICES ASSUME SigningInv, NEW g \in signed, NEW scope \in Scopes,
                        ContentOf(scope) = g.content
                 PROVE  HashOf(scope) = g.hash
    BY DEF OnlyContentBinds
  <2>2. tx \in Transactions /\ otx \in Otxs /\ scope \in ScopesOf(tx, otx)
    BY <2>1 DEF SigningInv, Scopes
  <2>3. PICK t \in Transactions, o \in Otxs : \E s \in ScopesOf(t, o) :
          g.hash = HashAt(t, o, s) /\ g.content = ContentAt(t, o, s)
    BY <2>1 DEF SigningInv, Sound
  <2>4. PICK s \in ScopesOf(t, o) : g.hash = HashAt(t, o, s) /\ g.content = ContentAt(t, o, s)
    BY <2>3
  <2>5. ContentAt(tx, otx, scope) = ContentAt(t, o, s)
    BY <2>1, <2>4 DEF ContentOf
  <2>6. HashAt(tx, otx, scope) = HashAt(t, o, s)
    BY <2>2, <2>5, HashOfContent
  <2> QED
    BY <2>4, <2>6 DEF HashOf
<1> QED
  BY <1>1, SigningInvariant, PTL

\* A covered segment has, in every OTX in which the covering one has its hash, its own.
LEMMA CoveredSegmentHash ==
  ASSUME NEW t \in Transactions, NEW o \in Otxs, Valid(t, o),
         NEW u \in Transactions, NEW p \in Otxs, Valid(u, p), NEW q \in 1..Len(p.segments),
         Len(o.segments) >= 1, CoversPrevious(o.segments[Len(o.segments)].flags),
         OtxAppendSegmentHash(t, o, Len(o.segments)) = OtxAppendSegmentHash(u, p, q),
         NEW r \in 1..Len(o.segments)
  PROVE  /\ r \in 1..Len(p.segments)
         /\ OtxAppendSegmentHash(t, o, r) = OtxAppendSegmentHash(u, p, r)
<1> DEFINE s == Len(o.segments)
<1>1. s \in Nat /\ s \in 1..Len(o.segments) /\ Len(p.segments) \in Nat
  BY ViewFacts
<1>2. /\ OtxBaseHash(t, o) = OtxBaseHash(u, p)
      /\ SegmentPreimage(t, o, s) = SegmentPreimage(u, p, q)
  BY DEF OtxAppendSegmentHash, SegmentPreimage
<1>3. /\ SegmentBytes(t, o, s) = SegmentBytes(u, p, q) /\ s = q
      /\ \A i \in 1..(s - 1) : SegmentBytes(t, o, i) = SegmentBytes(u, p, i)
  <2>1. CoversPrevious(o.segments[s].flags)
    OBVIOUS
  <2> HIDE DEF s
  <2> QED
    BY <1>1, <1>2, <2>1, SegmentPreimageBinds
<1> HIDE DEF s
<1>4. /\ r \in Nat /\ r >= 1 /\ r <= s /\ r \in 1..Len(p.segments)
      /\ \A i \in 1..r : i = s \/ i \in 1..(s - 1)
  BY <1>1, <1>3 DEF s
<1>5. \A i \in 1..r : SegmentBytes(t, o, i) = SegmentBytes(u, p, i)
  BY <1>3, <1>4
<1>6. o.segments[r].flags = p.segments[r].flags
  <2>1. SegmentBytes(t, o, r) = SegmentBytes(u, p, r)
    BY <1>4, <1>5
  <2> QED
    BY <1>4, <2>1, SegmentFramed
<1>7. PreviousSegments(t, o, r) = PreviousSegments(u, p, r)
  <2>1. \A i \in 1..(r - 1) : i \in 1..r
    BY <1>4
  <2>2. [i \in 1..(r - 1) |-> SegmentBytes(t, o, i)] = [i \in 1..(r - 1) |-> SegmentBytes(u, p, i)]
    BY <1>5, <2>1
  <2> QED
    BY <1>6, <2>2 DEF PreviousSegments
<1>8. SegmentBytes(t, o, r) = SegmentBytes(u, p, r)
  BY <1>4, <1>5
<1> QED
  BY <1>2, <1>4, <1>7, <1>8 DEF OtxAppendSegmentHash

\* While the signature of a segment is accepted, so are those it was made on top
\* of: that of the base, and with the coverage flag those of the segments in
\* front (hash/mod.rs, otx_append_segment_hash).
THEOREM SegmentsAcceptedTogether == SigningSpec => []AcceptedTogether
<1>1. SigningInv => AcceptedTogether
  <2>1. SUFFICES ASSUME SigningInv, NEW g \in signed, Accepted(g), "segment" \in DOMAIN g.content,
                        NEW h \in signed, h.hash \in g.relied,
                        \/ "base" \in DOMAIN h.content
                        \/ /\ "segment" \in DOMAIN h.content
                           /\ CoversPrevious(g.content.segment.own.flags)
                 PROVE  Accepted(h)
    BY DEF AcceptedTogether
  <2>2. tx \in Transactions /\ otx \in Otxs
    BY <2>1 DEF SigningInv
  <2>3. PICK t \in Transactions, o \in Otxs : \E s \in ScopesOf(t, o) :
          /\ g.hash = HashAt(t, o, s) /\ g.content = ContentAt(t, o, s)
          /\ s # TxScope => s = Len(o.segments)
          /\ g.relied \subseteq {HashAt(t, o, q) : q \in ScopesOf(t, o)}
    BY <2>1 DEF SigningInv, Sound
  <2>4. PICK s \in ScopesOf(t, o) :
          /\ g.hash = HashAt(t, o, s) /\ g.content = ContentAt(t, o, s)
          /\ s # TxScope => s = Len(o.segments)
          /\ g.relied \subseteq {HashAt(t, o, q) : q \in ScopesOf(t, o)}
    BY <2>3
  <2>5. PICK q \in ScopesOf(tx, otx) : HashAt(tx, otx, q) = g.hash
    BY <2>1 DEF Accepted, Scopes, HashOf
  <2>6. PICK r \in ScopesOf(t, o) : h.hash = HashAt(t, o, r)
    BY <2>1, <2>4
  <2>7. IsSegment(t, o, s) /\ s = Len(o.segments)
    <3>1. "segment" \notin DOMAIN [base |-> BaseContent(t, o)]
      OBVIOUS
    <3>2. "segment" \notin DOMAIN [tx |-> TxContent(t)]
      OBVIOUS
    <3>3. IsBase(t, o, s) \/ IsSegment(t, o, s) \/ IsTx(t, o, s)
      BY ScopeKinds
    <3> QED
      BY <2>1, <2>4, <3>1, <3>2, <3>3 DEF IsBase, IsSegment, IsTx
  <2>8. IsSegment(tx, otx, q)
    <3>1. HashAt(tx, otx, q) = HashAt(t, o, s)
      BY <2>4, <2>5
    <3>2. \/ IsBase(tx, otx, q) /\ IsBase(t, o, s)
          \/ IsSegment(tx, otx, q) /\ IsSegment(t, o, s)
          \/ IsTx(tx, otx, q) /\ IsTx(t, o, s)
      BY <2>2, <2>5, <3>1, SameKind
    <3>3. ~IsBase(t, o, s) /\ ~IsTx(t, o, s)
      <4>1. HashAt(t, o, s) = OtxAppendSegmentHash(t, o, s)
        BY <2>7 DEF IsSegment
      <4>2. IsBase(t, o, s) => HashAt(t, o, s) = OtxBaseHash(t, o)
        BY DEF IsBase
      <4>3. IsTx(t, o, s) => HashAt(t, o, s) = TxSigningHash(t)
        BY DEF IsTx
      <4>4. /\ OtxBaseHash(t, o) # OtxAppendSegmentHash(t, o, s)
            /\ OtxAppendSegmentHash(t, o, s) # TxSigningHash(t)
        BY KindsApart
      <4> QED
        BY <4>1, <4>2, <4>3, <4>4
    <3> QED
      BY <3>2, <3>3
  <2>9. OtxAppendSegmentHash(t, o, s) = OtxAppendSegmentHash(tx, otx, q)
    BY <2>4, <2>5, <2>7, <2>8 DEF IsSegment
  <2>10. PICK u \in Transactions, p \in Otxs : \E k \in ScopesOf(u, p) :
           h.hash = HashAt(u, p, k) /\ h.content = ContentAt(u, p, k)
    BY <2>1 DEF SigningInv, Sound
  <2>11. PICK k \in ScopesOf(u, p) : h.hash = HashAt(u, p, k) /\ h.content = ContentAt(u, p, k)
    BY <2>10
  <2>12. \/ IsBase(u, p, k) /\ IsBase(t, o, r)
         \/ IsSegment(u, p, k) /\ IsSegment(t, o, r)
         \/ IsTx(u, p, k) /\ IsTx(t, o, r)
    <3>1. HashAt(u, p, k) = HashAt(t, o, r)
      BY <2>6, <2>11
    <3> QED
      BY <3>1, SameKind
  <2>13. CASE IsBase(t, o, r)
    <3>1. OtxBaseHash(t, o) = OtxBaseHash(tx, otx)
      BY <2>9 DEF OtxAppendSegmentHash
    <3>2. h.hash = HashAt(tx, otx, BaseScope)
      <4>1. HashAt(tx, otx, BaseScope) = OtxBaseHash(tx, otx)
        BY <2>13 DEF IsBase, HashAt
      <4> QED
        BY <2>6, <2>13, <3>1, <4>1 DEF IsBase
    <3>3. BaseScope \in Scopes
      <4>1. Len(otx.segments) \in Nat
        BY <2>2, ViewFacts
      <4> QED
        BY <2>8, <4>1 DEF IsSegment, Scopes, ScopesOf, BaseScope
    <3> QED
      BY <3>2, <3>3 DEF Accepted, HashOf
  <2>14. CASE IsSegment(u, p, k) /\ IsSegment(t, o, r)
    <3>1. CoversPrevious(o.segments[s].flags)
      <4>1. "base" \notin DOMAIN [segment |-> SegmentContent(u, p, k)]
        OBVIOUS
      <4>2. CoversPrevious(g.content.segment.own.flags)
        BY <2>1, <2>11, <2>14, <4>1 DEF IsSegment
      <4>3. g.content.segment.own.flags = o.segments[s].flags
        <5>1. g.content = [segment |-> SegmentContent(t, o, s)]
          BY <2>4, <2>7 DEF IsSegment
        <5>2. SegmentContent(t, o, s).own.flags = o.segments[s].flags
          BY DEF SegmentContent, EntitiesContent
        <5> QED
          BY <5>1, <5>2
      <4> QED
        BY <4>2, <4>3
    <3>2. /\ r \in 1..Len(otx.segments)
          /\ OtxAppendSegmentHash(t, o, r) = OtxAppendSegmentHash(tx, otx, r)
      <4>1. /\ Valid(t, o) /\ Valid(tx, otx) /\ q \in 1..Len(otx.segments)
            /\ r \in 1..Len(o.segments)
        BY <2>7, <2>8, <2>14 DEF IsSegment
      <4>2. Len(o.segments) >= 1
        <5>1. Len(o.segments) \in Nat
          BY ViewFacts
        <5> QED
          BY <2>7, <5>1 DEF IsSegment
      <4>3. /\ CoversPrevious(o.segments[Len(o.segments)].flags)
            /\ OtxAppendSegmentHash(t, o, Len(o.segments)) = OtxAppendSegmentHash(tx, otx, q)
        BY <2>7, <2>9, <3>1
      <4> QED
        BY <2>2, <4>1, <4>2, <4>3, CoveredSegmentHash
    <3>3. r \in ScopesOf(tx, otx)
      <4>1. Len(otx.segments) \in Nat
        BY <2>2, ViewFacts
      <4> QED
        BY <2>8, <3>2, <4>1 DEF IsSegment, ScopesOf, BaseScope
    <3>4. HashAt(tx, otx, r) = OtxAppendSegmentHash(tx, otx, r)
      <4>1. r # TxScope /\ r # BaseScope
        BY <2>14, <3>2 DEF IsSegment, BaseScope
      <4> QED
        BY <4>1 DEF HashAt
    <3>5. h.hash = HashAt(tx, otx, r)
      BY <2>6, <2>14, <3>2, <3>4 DEF IsSegment
    <3> QED
      BY <3>3, <3>5 DEF Accepted, Scopes, HashOf
  <2>15. ~(IsTx(u, p, k))
    <3>1. /\ "base" \notin DOMAIN [tx |-> TxContent(u)]
          /\ "segment" \notin DOMAIN [tx |-> TxContent(u)]
      OBVIOUS
    <3> QED
      BY <2>1, <2>11, <3>1 DEF IsTx
  <2> QED
    BY <2>12, <2>13, <2>14, <2>15
<1> QED
  BY <1>1, SigningInvariant, PTL

\* A set of signed fields has one mask: an accepted mask is its bits packed in
\* order, with no bit of no field set (view.rs, MaskView::validate).
THEOREM MasksAreCanonical == SigningSpec => []MasksCanonical
<1>1. SigningInv => MasksCanonical
  <2>1. SUFFICES ASSUME SigningInv, Valid(tx, otx), NEW d \in Dim
                 PROVE  otx.masks[d] =
                   Packed(SubSeq(MaskBits(otx.masks[d]), 1, otx.base[d] * BITS_PER_CELL[d]))
    BY DEF MasksCanonical
  <2> DEFINE mask == otx.masks[d]
             n == otx.base[d] * BITS_PER_CELL[d]
  <2>2. otx \in Otxs
    BY <2>1 DEF SigningInv
  <2>3. mask \in Str /\ n \in Nat
    <3>1. mask \in Str /\ otx.base[d] \in Nat /\ Width(d) \in Nat
      BY <2>2, ViewFacts, WidthIs
    <3> QED
      BY <3>1 DEF Width
  <2>4. Validate(mask, n)
    BY <2>1 DEF Valid
  <2> HIDE DEF mask, n
  <2>5. mask = Packed(SubSeq(MaskBits(mask), 1, n))
    BY <2>3, <2>4, MaskIsPacked
  <2> QED
    BY <2>5 DEF mask, n
<1> QED
  BY <1>1, SigningInvariant, PTL
=============================================================================
