-------------------------------- MODULE Sums --------------------------------
(***************************************************************************)
(* Sums over finite sets: what the proofs about the ranges of OTX and the  *)
(* amounts of cells need of MapThenSumSet, for summands given by a         *)
(* function.                                                               *)
(***************************************************************************)
EXTENDS Integers, FiniteSetsExt, FiniteSetTheorems, WellFoundedInduction, TLAPS

SumOf(f, S) == MapThenSumSet(LAMBDA x : f[x], S)

\* The recursive function behind a sum: on every subset, the value of one element and
\* the sum of the others.
One(s) == CHOOSE x \in s : TRUE
Summing(g, f, S) == g = [s \in SUBSET S |-> IF s = {} THEN 0 ELSE f[One(s)] + g[s \ {One(s)}]]
Summer(f, S) == CHOOSE g : Summing(g, f, S)

LEMMA SumOfIs ==
  ASSUME NEW f, NEW S
  PROVE  SumOf(f, S) = Summer(f, S)[S]
BY DEF SumOf, MapThenSumSet, MapThenFoldSet, Summer, Summing, One
-----------------------------------------------------------------------------
\* A set of naturals with a member has a least one.
LEMMA LeastNatural ==
  ASSUME NEW T, T \subseteq Nat, T # {}
  PROVE  \E x \in T : \A y \in T : x <= y
<1> DEFINE R == {ss \in Nat \X Nat : ss[1] < ss[2]}
<1>1. IsWellFoundedOn(R, Nat)
  BY NatLessThanWellFounded DEF OpToRel
<1>2. PICK x \in T : \A y \in T : ~(<<y, x>> \in R)
  BY ONLY <1>1, T \subseteq Nat, T # {}, WFMin
<1>3. SUFFICES ASSUME NEW y \in T PROVE x <= y
  OBVIOUS
<1>4. x \in Nat /\ y \in Nat
  OBVIOUS
<1>5. ~(<<y, x>> \in R)
  BY <1>2
<1>6. ~(y < x)
  BY <1>4, <1>5
<1>7. QED
  BY <1>4, <1>6

\* Induction over the subsets of a finite set: what holds of a set when it holds of all
\* its proper subsets holds of the whole.
LEMMA SubsetInduction ==
  ASSUME NEW S, IsFiniteSet(S), NEW Good,
         \A T \in SUBSET S : (\A U \in SUBSET T : U # T => U \in Good) => T \in Good
  PROVE  \A T \in SUBSET S : T \in Good
<1> DEFINE Bad == {T \in SUBSET S : T \notin Good}
           Sizes == {Cardinality(T) : T \in Bad}
<1>1. \A T \in SUBSET S : IsFiniteSet(T) /\ Cardinality(T) \in Nat
  BY FS_Subset, FS_CardinalityType
<1>2. SUFFICES ASSUME Bad # {} PROVE FALSE
  OBVIOUS
<1>3. Sizes \subseteq Nat /\ Sizes # {}
  BY <1>1, <1>2
<1>4. PICK n \in Sizes : \A m \in Sizes : n <= m
  <2> HIDE DEF Sizes
  <2> QED
    BY <1>3, LeastNatural
<1>5. PICK T \in Bad : Cardinality(T) = n
  BY <1>4
<1>6. ASSUME NEW U \in SUBSET T, U # T
      PROVE  U \in Good
  <2>1. IsFiniteSet(T) /\ U \in SUBSET S
    BY <1>1
  <2>2. Cardinality(U) <= Cardinality(T) /\ Cardinality(U) # Cardinality(T)
    BY <1>6, <2>1, FS_Subset
  <2>3. U \in Bad => Cardinality(T) <= Cardinality(U)
    BY <1>4, <1>5
  <2>4. T \in SUBSET S
    BY <1>5
  <2> HIDE DEF Bad
  <2>5. U \notin Bad
    BY <1>1, <2>1, <2>2, <2>3, <2>4
  <2> QED
    BY <2>1, <2>5 DEF Bad
<1> QED
  BY <1>5, <1>6

\* The same, an element at a time.
LEMMA ElementInduction ==
  ASSUME NEW S, IsFiniteSet(S), NEW Good, {} \in Good,
         \A T \in SUBSET S : \A x \in T : T \ {x} \in Good => T \in Good
  PROVE  S \in Good
<1>1. ASSUME NEW T \in SUBSET S, \A U \in SUBSET T : U # T => U \in Good
      PROVE  T \in Good
  <2>1. CASE T = {}
    BY <2>1
  <2>2. CASE T # {}
    <3>1. PICK x \in T : TRUE
      BY <2>2
    <3>2. T \ {x} \in Good
      BY <1>1, <3>1
    <3> QED
      BY <3>1, <3>2
  <2> QED
    BY <2>1, <2>2
<1>2. \A T \in SUBSET S : T \in Good
  BY <1>1, SubsetInduction
<1> QED
  BY <1>2
-----------------------------------------------------------------------------
(***************************************************************************)
(* A sum over a finite set exists.                                         *)
(***************************************************************************)
LEMMA SummingValue ==
  ASSUME NEW f, NEW S, NEW g, Summing(g, f, S), NEW s \in SUBSET S
  PROVE  g[s] = IF s = {} THEN 0 ELSE f[One(s)] + g[s \ {One(s)}]
BY Zenon DEF Summing

LEMMA OneIsElement ==
  ASSUME NEW s, s # {}
  PROVE  One(s) \in s
BY DEF One

\* The sums of a set and of one that contains it agree on the subsets of both.
LEMMA SumsAgree ==
  ASSUME NEW f, NEW S, IsFiniteSet(S), NEW T, S \subseteq T,
         NEW g, Summing(g, f, S), NEW h, Summing(h, f, T)
  PROVE  \A s \in SUBSET S : g[s] = h[s]
<1> DEFINE Good == {s \in SUBSET S : g[s] = h[s]}
<1>1. ASSUME NEW s \in SUBSET S, \A u \in SUBSET s : u # s => u \in Good
      PROVE  s \in Good
  <2>1. s \in SUBSET T
    OBVIOUS
  <2>2. /\ g[s] = IF s = {} THEN 0 ELSE f[One(s)] + g[s \ {One(s)}]
        /\ h[s] = IF s = {} THEN 0 ELSE f[One(s)] + h[s \ {One(s)}]
    BY <2>1, SummingValue
  <2>3. s # {} => g[s \ {One(s)}] = h[s \ {One(s)}]
    BY <1>1, OneIsElement
  <2> QED
    BY <2>2, <2>3
<1>2. \A s \in SUBSET S : s \in Good
  <2> HIDE DEF Good
  <2> QED
    BY <1>1, SubsetInduction
<1> QED
  BY <1>2

LEMMA SummerExists ==
  ASSUME NEW f, NEW S, IsFiniteSet(S)
  PROVE  Summing(Summer(f, S), f, S)
<1> DEFINE Good == {T \in SUBSET S : \E g : Summing(g, f, T)}
<1>1. ASSUME NEW T \in SUBSET S, \A U \in SUBSET T : U # T => U \in Good
      PROVE  T \in Good
  <2> DEFINE value(s) == IF s = {} THEN 0
                         ELSE f[One(s)] + Summer(f, s \ {One(s)})[s \ {One(s)}]
             g == [s \in SUBSET T |-> value(s)]
  <2>1. ASSUME NEW U \in SUBSET T, U # T
        PROVE  IsFiniteSet(U) /\ Summing(Summer(f, U), f, U)
    BY <1>1, <2>1, FS_Subset DEF Summer
  <2>2. ASSUME NEW U \in SUBSET T, U # T
        PROVE  g[U] = Summer(f, U)[U]
    <3>1. Summing(Summer(f, U), f, U)
      BY <2>1, <2>2
    <3>2. Summer(f, U)[U] = IF U = {} THEN 0 ELSE f[One(U)] + Summer(f, U)[U \ {One(U)}]
      BY <3>1, SummingValue
    <3>3. CASE U = {}
      BY <3>2, <3>3
    <3>4. CASE U # {}
      <4> DEFINE V == U \ {One(U)}
      <4>1. V \in SUBSET U /\ V # T /\ V \in SUBSET T
        BY <2>2, <3>4, OneIsElement
      <4>2. IsFiniteSet(V) /\ Summing(Summer(f, V), f, V)
        BY <2>1, <4>1
      <4>3. V \subseteq U
        BY <4>1
      <4>4. Summer(f, V)[V] = Summer(f, U)[V]
        <5> DEFINE gu == Summer(f, U)
                   gv == Summer(f, V)
        <5>1. Summing(gu, f, U) /\ Summing(gv, f, V)
          BY <3>1, <4>2
        <5> HIDE DEF V, gu, gv
        <5>2. \A s \in SUBSET V : gv[s] = gu[s]
          BY <4>2, <4>3, <5>1, SumsAgree
        <5>3. gv[V] = gu[V]
          BY <5>2
        <5> QED
          BY <5>3 DEF gu, gv
      <4> QED
        BY <3>2, <3>4, <4>4
    <3> QED
      BY <3>3, <3>4
  <2>3. ASSUME NEW s \in SUBSET T
        PROVE  value(s) = IF s = {} THEN 0 ELSE f[One(s)] + g[s \ {One(s)}]
    <3>1. CASE s = {}
      BY <3>1
    <3>2. CASE s # {}
      <4>1. s \ {One(s)} \in SUBSET T /\ s \ {One(s)} # T
        BY <3>2, OneIsElement
      <4>2. g[s \ {One(s)}] = Summer(f, s \ {One(s)})[s \ {One(s)}]
        BY <2>2, <4>1
      <4> QED
        BY <3>2, <4>2
    <3> QED
      BY <3>1, <3>2
  <2>4. Summing(g, f, T)
    <3> DEFINE h == g
               equal(s) == IF s = {} THEN 0 ELSE f[One(s)] + h[s \ {One(s)}]
    <3>1. \A s \in SUBSET T : value(s) = equal(s)
      BY <2>3
    <3>2. h = [s \in SUBSET T |-> value(s)]
      OBVIOUS
    <3> HIDE DEF value, h, equal
    <3>3. h = [s \in SUBSET T |-> equal(s)]
      BY <3>1, <3>2
    <3>4. Summing(h, f, T)
      BY <3>3 DEF equal, Summing
    <3> QED
      BY <3>4 DEF h
  <2> QED
    BY <2>4
<1>2. S \in Good
  <2> HIDE DEF Good
  <2> QED
    BY <1>1, SubsetInduction
<1> QED
  BY <1>2 DEF Summer

\* A sum is the value of any element chosen first and the sum of the others.
LEMMA SumChosen ==
  ASSUME NEW f, NEW S, IsFiniteSet(S)
  PROVE  SumOf(f, S) = IF S = {} THEN 0 ELSE f[One(S)] + SumOf(f, S \ {One(S)})
<1>1. Summing(Summer(f, S), f, S)
  BY SummerExists
<1>2. Summer(f, S)[S] = IF S = {} THEN 0 ELSE f[One(S)] + Summer(f, S)[S \ {One(S)}]
  BY <1>1, SummingValue
<1>3. CASE S = {}
  BY <1>2, <1>3, SumOfIs
<1>4. CASE S # {}
  <2> DEFINE T == S \ {One(S)}
  <2>1. IsFiniteSet(T) /\ T \subseteq S
    BY FS_Subset
  <2>2. Summing(Summer(f, T), f, T)
    BY <2>1, SummerExists
  <2>3. Summer(f, T)[T] = Summer(f, S)[T]
    BY <1>1, <2>1, <2>2, SumsAgree
  <2>4. SumOf(f, S) = Summer(f, S)[S] /\ SumOf(f, T) = Summer(f, T)[T]
    BY SumOfIs
  <2> QED
    BY <1>2, <1>4, <2>3, <2>4
<1> QED
  BY <1>3, <1>4
-----------------------------------------------------------------------------
(***************************************************************************)
(* Sums of naturals.                                                       *)
(***************************************************************************)
\* The empty sum.
LEMMA SumEmpty ==
  ASSUME NEW f
  PROVE  SumOf(f, {}) = 0
BY SumChosen, FS_EmptySet

\* The sum of naturals is a natural, and any element can be taken out first.
LEMMA SumFacts ==
  ASSUME NEW S, IsFiniteSet(S), NEW f, \A x \in S : f[x] \in Nat
  PROVE  /\ SumOf(f, S) \in Nat
         /\ \A x \in S : SumOf(f, S) = f[x] + SumOf(f, S \ {x})
<1> DEFINE Good == {T \in SUBSET S : /\ SumOf(f, T) \in Nat
                                     /\ \A x \in T : SumOf(f, T) = f[x] + SumOf(f, T \ {x})}
<1>1. ASSUME NEW T \in SUBSET S, \A U \in SUBSET T : U # T => U \in Good
      PROVE  T \in Good
  <2>1. \A U \in SUBSET T : IsFiniteSet(U)
    BY FS_Subset
  <2>2. CASE T = {}
    BY <2>2, SumEmpty
  <2>3. CASE T # {}
    <3> DEFINE c == One(T)
    <3>1. c \in T /\ T \ {c} \in SUBSET T /\ T \ {c} # T
      BY <2>3, OneIsElement
    <3>2. SumOf(f, T) = f[c] + SumOf(f, T \ {c})
      BY <2>1, <2>3, SumChosen
    <3>3. /\ SumOf(f, T \ {c}) \in Nat
          /\ \A x \in T \ {c} : SumOf(f, T \ {c}) = f[x] + SumOf(f, (T \ {c}) \ {x})
      BY <1>1, <3>1
    <3>4. SumOf(f, T) \in Nat
      BY <3>1, <3>2, <3>3
    <3>5. ASSUME NEW x \in T, x # c
          PROVE  SumOf(f, T) = f[x] + SumOf(f, T \ {x})
      <4> DEFINE U == T \ {x}
                 V == (T \ {c}) \ {x}
      <4>1. U \in SUBSET T /\ U # T /\ c \in U /\ U \ {c} = V
        BY <3>1, <3>5
      <4>2. SumOf(f, U) = f[c] + SumOf(f, U \ {c})
        <5> HIDE DEF c, V
        <5> QED
          BY <1>1, <4>1
      <4>3. V \in SUBSET T /\ V # T
        BY <3>1
      <4>4. SumOf(f, V) \in Nat
        <5> HIDE DEF c, V
        <5> QED
          BY <1>1, <4>3
      <4>5. SumOf(f, T \ {c}) = f[x] + SumOf(f, V)
        BY <3>3, <3>5
      <4>6. SumOf(f, U) = f[c] + SumOf(f, V)
        BY <4>1, <4>2
      <4>7. f[x] \in Nat /\ f[c] \in Nat
        BY <3>1, <3>5
      <4> HIDE DEF V, U, c
      <4>8. SumOf(f, T) = f[x] + SumOf(f, U)
        BY <3>2, <4>4, <4>5, <4>6, <4>7
      <4> QED
        BY <4>8 DEF U
    <3> QED
      BY <3>2, <3>4, <3>5
  <2> QED
    BY <2>2, <2>3
<1>2. S \in Good
  <2> HIDE DEF Good
  <2> QED
    BY <1>1, SubsetInduction
<1> QED
  BY <1>2

\* A sum with one element more.
LEMMA SumAdd ==
  ASSUME NEW S, IsFiniteSet(S), NEW x, x \notin S, NEW f, \A y \in S \cup {x} : f[y] \in Nat
  PROVE  SumOf(f, S \cup {x}) = SumOf(f, S) + f[x]
<1> DEFINE T == S \cup {x}
<1>1. IsFiniteSet(T) /\ x \in T /\ T \ {x} = S
  BY FS_AddElement
<1>2. SumOf(f, T) = f[x] + SumOf(f, T \ {x})
  <2> HIDE DEF T
  <2>1. \A y \in T : f[y] \in Nat
    BY DEF T
  <2> QED
    BY <1>1, <2>1, SumFacts
<1>3. SumOf(f, S) \in Nat /\ f[x] \in Nat
  BY SumFacts
<1> HIDE DEF T
<1>4. SumOf(f, T) = SumOf(f, S) + f[x]
  BY <1>1, <1>2, <1>3
<1> QED
  BY <1>4 DEF T

\* A sum depends on the values at its elements alone.
LEMMA SumSame ==
  ASSUME NEW S, IsFiniteSet(S), NEW f, NEW g, \A x \in S : f[x] \in Nat /\ f[x] = g[x]
  PROVE  SumOf(f, S) = SumOf(g, S)
<1> DEFINE Good == {T \in SUBSET S : SumOf(f, T) = SumOf(g, T)}
<1>1. {} \in Good
  BY SumEmpty
<1>2. ASSUME NEW T \in SUBSET S, NEW x \in T, T \ {x} \in Good
      PROVE  T \in Good
  <2>1. IsFiniteSet(T)
    BY FS_Subset
  <2>2. SumOf(f, T) = f[x] + SumOf(f, T \ {x}) /\ SumOf(g, T) = g[x] + SumOf(g, T \ {x})
    BY <2>1, SumFacts
  <2> QED
    BY <1>2, <2>2
<1>3. S \in Good
  <2> HIDE DEF Good
  <2> QED
    BY <1>1, <1>2, ElementInduction
<1> QED
  BY <1>3

\* The sum over two sets without a common element is the sum of their sums.
LEMMA SumUnion ==
  ASSUME NEW S, IsFiniteSet(S), NEW T, IsFiniteSet(T), S \cap T = {},
         NEW f, \A x \in S \cup T : f[x] \in Nat
  PROVE  /\ IsFiniteSet(S \cup T)
         /\ SumOf(f, S \cup T) = SumOf(f, S) + SumOf(f, T)
<1> DEFINE Good == {U \in SUBSET T : SumOf(f, S \cup U) = SumOf(f, S) + SumOf(f, U)}
<1>1. SumOf(f, S) \in Nat
  BY SumFacts
<1>2. {} \in Good
  <2>1. S \cup {} = S
    OBVIOUS
  <2> QED
    BY <1>1, <2>1, SumEmpty
<1>3. ASSUME NEW U \in SUBSET T, NEW x \in U, U \ {x} \in Good
      PROVE  U \in Good
  <2> DEFINE V == U \ {x}
             W == S \cup V
  <2>1. IsFiniteSet(U) /\ IsFiniteSet(V)
    BY FS_Subset
  <2>2. IsFiniteSet(W)
    BY <2>1, FS_Union
  <2>3. x \notin W /\ S \cup U = W \cup {x} /\ x \notin V /\ U = V \cup {x}
    BY <1>3
  <2>4. \A y \in W \cup {x} : f[y] \in Nat
    BY <1>3
  <2>5. SumOf(f, W) = SumOf(f, S) + SumOf(f, V)
    BY <1>3
  <2>6. \A y \in V \cup {x} : f[y] \in Nat
    BY <2>4
  <2> HIDE DEF V, W
  <2>7. SumOf(f, W \cup {x}) = SumOf(f, W) + f[x]
    BY <2>2, <2>3, <2>4, SumAdd
  <2>8. SumOf(f, V \cup {x}) = SumOf(f, V) + f[x] /\ SumOf(f, V) \in Nat /\ f[x] \in Nat
    BY <2>1, <2>3, <2>6, SumAdd, SumFacts
  <2>9. SumOf(f, S \cup U) = SumOf(f, W \cup {x}) /\ SumOf(f, U) = SumOf(f, V \cup {x})
    BY <2>3
  <2>10. SumOf(f, S \cup U) = SumOf(f, S) + SumOf(f, U)
    BY <1>1, <2>5, <2>7, <2>8, <2>9
  <2> QED
    BY <2>10
<1>4. T \in Good
  <2> HIDE DEF Good
  <2> QED
    BY <1>2, <1>3, ElementInduction
<1> QED
  BY <1>4, FS_Union

\* A sum over fewer elements is at most as large.
LEMMA SumPart ==
  ASSUME NEW S, IsFiniteSet(S), NEW T, T \subseteq S, NEW f, \A x \in S : f[x] \in Nat
  PROVE  SumOf(f, T) <= SumOf(f, S)
<1> DEFINE R == S \ T
<1>1. IsFiniteSet(T) /\ IsFiniteSet(R) /\ T \cap R = {} /\ T \cup R = S
  BY FS_Subset
<1> HIDE DEF R
<1>2. SumOf(f, S) = SumOf(f, T) + SumOf(f, R)
  BY <1>1, SumUnion
<1>3. SumOf(f, T) \in Nat /\ SumOf(f, R) \in Nat
  BY <1>1, SumFacts
<1> QED
  BY <1>2, <1>3

\* A sum of smaller values is at most as large.
LEMMA SumMonotone ==
  ASSUME NEW S, IsFiniteSet(S), NEW f, NEW g,
         \A x \in S : f[x] \in Nat /\ g[x] \in Nat /\ f[x] <= g[x]
  PROVE  SumOf(f, S) <= SumOf(g, S)
<1> DEFINE Good == {T \in SUBSET S : SumOf(f, T) <= SumOf(g, T)}
<1>1. {} \in Good
  BY SumEmpty
<1>2. ASSUME NEW T \in SUBSET S, NEW x \in T, T \ {x} \in Good
      PROVE  T \in Good
  <2>1. IsFiniteSet(T) /\ IsFiniteSet(T \ {x})
    BY FS_Subset
  <2>2. /\ SumOf(f, T) = f[x] + SumOf(f, T \ {x}) /\ SumOf(g, T) = g[x] + SumOf(g, T \ {x})
    BY <2>1, SumFacts
  <2>3. SumOf(f, T \ {x}) \in Nat /\ SumOf(g, T \ {x}) \in Nat
    BY <2>1, SumFacts
  <2>4. SumOf(f, T \ {x}) <= SumOf(g, T \ {x})
    BY <1>2
  <2>5. SumOf(f, T) <= SumOf(g, T)
    BY <2>2, <2>3, <2>4
  <2> QED
    BY <2>5
<1>3. S \in Good
  <2> HIDE DEF Good
  <2> QED
    BY <1>1, <1>2, ElementInduction
<1> QED
  BY <1>3

\* A sum over the names of elements is the sum over the elements.
LEMMA SumRenamed ==
  ASSUME NEW S, IsFiniteSet(S), NEW T, NEW h \in Bijection(S, T), NEW f, NEW g,
         \A x \in S : f[x] \in Nat /\ f[x] = g[h[x]]
  PROVE  SumOf(f, S) = SumOf(g, T)
<1> DEFINE Image(U) == {h[x] : x \in U}
           Good == {U \in SUBSET S : SumOf(f, U) = SumOf(g, Image(U))}
<1>1. /\ h \in [S -> T]
      /\ \A x, y \in S : h[x] = h[y] => x = y
      /\ \A z \in T : \E x \in S : h[x] = z
  BY DEF Bijection, Injection, Surjection, IsInjective
<1>2. {} \in Good
  <2>1. Image({}) = {}
    OBVIOUS
  <2> QED
    BY <2>1, SumEmpty
<1>3. ASSUME NEW U \in SUBSET S, NEW x \in U, U \ {x} \in Good
      PROVE  U \in Good
  <2> DEFINE V == U \ {x}
             W == Image(V)
  <2>1. IsFiniteSet(U) /\ IsFiniteSet(V)
    BY FS_Subset
  <2>2. [y \in V |-> h[y]] \in Surjection(V, W)
    BY DEF Surjection
  <2>3. IsFiniteSet(W)
    <3> HIDE DEF V, W
    <3> QED
      BY <2>1, <2>2, FS_Surjection
  <2>4. h[x] \notin W
    BY <1>1
  <2>5. Image(U) = W \cup {h[x]}
    OBVIOUS
  <2>6. \A z \in W \cup {h[x]} : g[z] \in Nat
    OBVIOUS
  <2>7. SumOf(f, V) = SumOf(g, W)
    BY <1>3
  <2>8. SumOf(f, U) = f[x] + SumOf(f, V) /\ f[x] = g[h[x]] /\ f[x] \in Nat
    BY <2>1, SumFacts
  <2>9. SumOf(f, V) \in Nat
    BY <2>1, SumFacts
  <2> HIDE DEF V, W
  <2>10. SumOf(g, W \cup {h[x]}) = SumOf(g, W) + g[h[x]]
    <3> DEFINE z == h[x]
    <3>1. z \notin W /\ \A y \in W \cup {z} : g[y] \in Nat
      BY <2>4, <2>6
    <3> HIDE DEF z
    <3>2. SumOf(g, W \cup {z}) = SumOf(g, W) + g[z]
      BY <2>3, <3>1, SumAdd
    <3> QED
      BY <3>2 DEF z
  <2>11. SumOf(f, U) = SumOf(g, W \cup {h[x]})
    BY <2>7, <2>8, <2>9, <2>10
  <2> QED
    BY <2>5, <2>11
<1>4. S \in Good
  <2> HIDE DEF Good
  <2> QED
    BY <1>2, <1>3, ElementInduction
<1>5. Image(S) = T
  BY <1>1
<1> QED
  BY <1>4, <1>5

\* A sum over numbers from zero on is that of zero and the sum over those from one on.
LEMMA SumFromZero ==
  ASSUME NEW n \in Nat, NEW f, \A s \in 0..n : f[s] \in Nat
  PROVE  /\ SumOf(f, 0..n) = f[0] + SumOf(f, 1..n)
         /\ SumOf(f, 1..n) \in Nat
<1> DEFINE S == 0..n
           T == 1..n
<1>1. IsFiniteSet(S) /\ IsFiniteSet(T)
  BY FS_Interval
<1>2. 0 \in S /\ S \ {0} = T /\ T \subseteq S
  OBVIOUS
<1>3. \A s \in S : f[s] \in Nat
  OBVIOUS
<1> HIDE DEF S, T
<1>4. SumOf(f, S) = f[0] + SumOf(f, S \ {0})
  BY <1>1, <1>2, <1>3, SumFacts
<1>5. SumOf(f, T) \in Nat
  BY <1>1, <1>2, <1>3, SumFacts
<1> QED
  BY <1>2, <1>4, <1>5 DEF S, T

\* A sum over rows of pairs is the sum of the rows' sums.
Row(k, n) == {<<k, s>> : s \in 0..n[k]}
RowSum(f, k, n) == SumOf([s \in 0..n[k] |-> f[<<k, s>>]], 0..n[k])
LEMMA SumRow ==
  ASSUME NEW n, NEW k, n[k] \in Nat, NEW f, \A c \in Row(k, n) : f[c] \in Nat
  PROVE  /\ IsFiniteSet(Row(k, n))
         /\ SumOf(f, Row(k, n)) = RowSum(f, k, n)
         /\ RowSum(f, k, n) \in Nat
<1> DEFINE S == 0..n[k]
           T == Row(k, n)
           h == [s \in S |-> <<k, s>>]
           g == [s \in S |-> f[<<k, s>>]]
<1>1. IsFiniteSet(S)
  BY FS_Interval
<1>2. h \in Bijection(S, T)
  BY DEF Bijection, Injection, Surjection, IsInjective, Row
<1>3. \A s \in S : g[s] \in Nat /\ g[s] = f[h[s]]
  BY DEF Row
<1>4. RowSum(f, k, n) = SumOf(g, S)
  BY DEF RowSum
<1> HIDE DEF S, T, h, g
<1>5. SumOf(g, S) = SumOf(f, T) /\ SumOf(g, S) \in Nat
  BY <1>1, <1>2, <1>3, SumRenamed, SumFacts
<1>6. IsFiniteSet(T)
  BY <1>1, <1>2, FS_Surjection DEF Bijection
<1> QED
  BY <1>4, <1>5, <1>6 DEF T

LEMMA SumNested ==
  ASSUME NEW K, IsFiniteSet(K), NEW n, \A k \in K : n[k] \in Nat,
         NEW f, \A k \in K : \A c \in Row(k, n) : f[c] \in Nat
  PROVE  /\ IsFiniteSet(UNION {Row(k, n) : k \in K})
         /\ SumOf(f, UNION {Row(k, n) : k \in K}) = SumOf([k \in K |-> RowSum(f, k, n)], K)
<1> DEFINE Rows(L) == UNION {Row(k, n) : k \in L}
           sums == [k \in K |-> RowSum(f, k, n)]
           Good == {L \in SUBSET K : IsFiniteSet(Rows(L)) /\ SumOf(f, Rows(L)) = SumOf(sums, L)}
<1>1. \A k \in K : /\ IsFiniteSet(Row(k, n)) /\ SumOf(f, Row(k, n)) = sums[k]
                    /\ sums[k] \in Nat
  BY SumRow
<1>2. {} \in Good
  <2>1. Rows({}) = {}
    OBVIOUS
  <2> QED
    BY <2>1, SumEmpty, FS_EmptySet
<1>3. ASSUME NEW L \in SUBSET K, NEW k \in L, L \ {k} \in Good
      PROVE  L \in Good
  <2> DEFINE M == L \ {k}
             A == Rows(M)
             B == Row(k, n)
  <2>1. Rows(L) = A \cup B
    OBVIOUS
  <2>2. A \cap B = {}
    BY DEF Row
  <2>3. IsFiniteSet(A) /\ IsFiniteSet(B) /\ IsFiniteSet(L) /\ IsFiniteSet(M)
    BY <1>1, <1>3, FS_Subset
  <2>4. \A c \in A \cup B : f[c] \in Nat
    OBVIOUS
  <2>5. SumOf(f, A) = SumOf(sums, M) /\ SumOf(f, B) = sums[k]
    BY <1>1, <1>3
  <2> HIDE DEF A, B, sums
  <2>6. IsFiniteSet(A \cup B) /\ SumOf(f, A \cup B) = SumOf(f, A) + SumOf(f, B)
    BY <2>2, <2>3, <2>4, SumUnion
  <2>7. SumOf(sums, L) = sums[k] + SumOf(sums, M)
    BY <1>1, <2>3, SumFacts
  <2>8. SumOf(sums, M) \in Nat /\ sums[k] \in Nat
    BY <1>1, <2>3, SumFacts
  <2>9. SumOf(f, A \cup B) = SumOf(sums, L)
    BY <2>5, <2>6, <2>7, <2>8
  <2> QED
    BY <2>1, <2>6, <2>9
<1>4. K \in Good
  <2> HIDE DEF Good
  <2> QED
    BY <1>2, <1>3, ElementInduction
<1> QED
  BY <1>4
=============================================================================
