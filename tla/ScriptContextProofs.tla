------------------------ MODULE ScriptContextProofs ------------------------
(***************************************************************************)
(* What the planners' proofs take from a finished scan: the tx-level       *)
(* message is one, and its summary is the witness it was read from; the    *)
(* pieces are the scopes of the rules, with the same items; and the        *)
(* messages are those the rules read.                                      *)
(***************************************************************************)
EXTENDS ScriptContext, OtxScanProofs

\* An OTX layout was collected, so the transaction carries Cobuild witnesses.
LEMMA CompleteFacts ==
  ASSUME IInv, OrderInv
  PROVE  /\ phase = "complete" => has_cobuild_witness_layout
         /\ pieces # <<>> => has_cobuild_witness_layout
         /\ phase = "none" => pieces = <<>>
BY DEF IInv, CollectorInv, CursorInv, OrderInv, OtxIsCobuild

\* witness.rs: what the summaries hold.
LEMMA SummaryFacts ==
  ASSUME TypeOK, NEW i \in Nat
  PROVE  /\ SummaryKind(i) \in {"sighash_all", "sighash_all_only"} =>
              summaries[i + 1].seal \in Seal
         /\ SummaryKind(i) = "sighash_all" => summaries[i + 1].message \in Message
<1>1. SUFFICES ASSUME SummaryKind(i) \in {"sighash_all", "sighash_all_only"}
               PROVE  /\ summaries[i + 1].seal \in Seal
                      /\ SummaryKind(i) = "sighash_all" => summaries[i + 1].message \in Message
  OBVIOUS
<1>2. summaries \in Seq(Witness \cup {OtherCobuildLayout}) /\ Len(summaries) \in Nat
  BY DEF TypeOK
<1>3. i < Len(summaries) /\ summaries[i + 1].kind = SummaryKind(i)
  BY <1>1 DEF SummaryKind
<1>4. summaries[i + 1] \in Witness \cup {OtherCobuildLayout}
  BY <1>2, <1>3
<1>5. QED
  BY <1>1, <1>3, <1>4 DEF Witness, OtherCobuildLayout

\* witness.rs unique_sighash_all_message_with_index: the message is one.
LEMMA MessageFacts ==
  ASSUME TypeOK, SighashAlls # {}
  PROVE  MessageIndex \in Nat /\ MessageIndex \in SighashAlls /\ TxMessage \in Message
<1>1. MessageIndex \in SighashAlls
  BY DEF MessageIndex
<1>2. MessageIndex \in Nat /\ SummaryKind(MessageIndex) = "sighash_all"
  BY <1>1 DEF SighashAlls, TypeOK
<1>3. QED
  BY <1>1, <1>2, SummaryFacts DEF TxMessage

\* witness.rs push_witness: the summary of a tx-level message is its witness.
LEMMA SighashAllFacts ==
  ASSUME IInv, NEW w \in SighashAlls
  PROVE  w \in Nat /\ WitnessAt(w).kind = "sighash_all" /\ summaries[w + 1] = WitnessAt(w)
<1>1. Len(summaries) \in Nat
  BY DEF IInv, TypeOK
<1>2. w \in 0..(Len(summaries) - 1) /\ w < Len(summaries) /\ summaries[w + 1].kind = "sighash_all"
  BY <1>1 DEF SighashAlls, SummaryKind
<1>3. summaries[w + 1] = Summary(WitnessAt(w))
  BY <1>2 DEF IInv, CollectorInv, witness_count
<1>4. QED
  BY <1>1, <1>2, <1>3 DEF Summary, OtherCobuildLayout

\* layout.rs otx_entries: where an OTX witness stands.
LEMMA EntryFacts ==
  ASSUME IInv, NEW k \in 0..(Len(otx_entries) - 1)
  PROVE  /\ start \in Nat /\ k \in Nat
         /\ otx_entries[k + 1] = start + (k + 1)
         /\ WitnessAt(otx_entries[k + 1]).kind = "otx"
<1>1. Len(otx_entries) \in Nat /\ k + 1 \in 1..Len(otx_entries)
  BY DEF IInv, TypeOK
<1>2. start # None
  BY <1>1 DEF IInv, CollectorInv
<1>3. QED
  BY <1>1, <1>2 DEF IInv, TypeOK, CollectorInv
-----------------------------------------------------------------------------
(***************************************************************************)
(* The rules of the planners name a scope by numbers and add up what is    *)
(* before it; the planners have the pieces that the scan cut.              *)
(***************************************************************************)
Rules == INSTANCE OtxRules WITH verdict <- {}

\* What the rules say of a scope is what OtxScan's promise says, where both speak of it.
LEMMA SamePositions ==
  ASSUME NEW t, NEW kind
  PROVE  Rules!At(t, kind) = ScanPromise!At(t, kind)
BY DEF Rules!At, Rules!Positions, ScanPromise!At, ScanPromise!Positions

\* layout.rs otx_entries: the OTX of the rules are those collected.
LEMMA RulesCollected ==
  ASSUME IInv, phase = "complete"
  PROVE  /\ start \in Nat /\ Len(otx_entries) \in Nat
         /\ Rules!FirstOtx(tx) = start + 1
         /\ Rules!At(tx, "otx") = (start + 1)..(start + Len(otx_entries))
         /\ Rules!OtxNumbers(tx) = 0..(Len(otx_entries) - 1)
         /\ \A k \in 0..(Len(otx_entries) - 1) :
              /\ Rules!ViewOf(tx, k) = OtxViewAt(k)
              /\ Rules!FirstOtx(tx) + k = otx_entries[k + 1]
         /\ \A d \in Dim : tx.witnesses[Rules!FirstOtx(tx)].start[d] = StartCounts[d]
<1>1. /\ start \in Nat /\ Len(otx_entries) \in Nat
      /\ Rules!At(tx, "otx_start") = {start}
      /\ Rules!At(tx, "otx") = (start + 1)..(start + Len(otx_entries))
      /\ \A k \in 0..(Len(otx_entries) - 1) : tx.witnesses[start + k + 2].view = OtxViewAt(k)
  BY CollectedAre, SamePositions
<1>2. Rules!FirstOtx(tx) = start + 1
  <2>1. (CHOOSE i \in Rules!At(tx, "otx_start") : TRUE) = start
    BY <1>1
  <2> QED
    BY <2>1 DEF Rules!FirstOtx
<1>3. Rules!Cardinality(Rules!At(tx, "otx")) = Len(otx_entries)
  <2> DEFINE n == Len(otx_entries)
  <2>1. Cardinality((start + 1)..(start + n)) = n
    <3> DEFINE a == start + 1
               b == start + n
    <3>1. a \in Int /\ b \in Int
      BY <1>1
    <3>2. Cardinality(a..b) = IF a > b THEN 0 ELSE b - a + 1
      <4> HIDE DEF a, b
      <4> QED
        BY <3>1, FS_Interval
    <3> QED
      BY <1>1, <3>2
  <2>2. \A S : Rules!Cardinality(S) = Cardinality(S)
    BY DEF Rules!Cardinality, Cardinality
  <2> QED
    BY <1>1, <2>1, <2>2
<1>4. Rules!OtxNumbers(tx) = 0..(Len(otx_entries) - 1)
  BY <1>3 DEF Rules!OtxNumbers
<1>5. ASSUME NEW k \in 0..(Len(otx_entries) - 1)
      PROVE  Rules!ViewOf(tx, k) = OtxViewAt(k) /\ Rules!FirstOtx(tx) + k = otx_entries[k + 1]
  <2>1. start + 1 + k + 1 = start + k + 2
    BY <1>1
  <2>2. otx_entries[k + 1] = start + (k + 1)
    BY EntryFacts
  <2> QED
    BY <1>1, <1>2, <2>1, <2>2 DEF Rules!ViewOf
<1>6. \A d \in Dim : tx.witnesses[Rules!FirstOtx(tx)].start[d] = StartCounts[d]
  BY <1>2 DEF StartCounts, WitnessAt
<1> QED
  BY <1>1, <1>2, <1>4, <1>5, <1>6

\* Its scopes are the base and the append segments of each.
LEMMA RulesScopes ==
  ASSUME IInv, phase = "complete"
  PROVE  /\ Rules!Scopes(tx) = AllScopes
         /\ \A c \in AllScopes :
              /\ c[1] \in 0..(Len(otx_entries) - 1) /\ c[2] \in 0..SegmentCount(c[1])
              /\ c = <<c[1], c[2]>>
              /\ \A d \in Dim : /\ Rules!ItemsIn(tx, c, d) = ScopeSizes(d)[c]
                                /\ ScopeSizes(d)[c] = CountsOf(c[1], c[2])[d]
                                /\ ScopeSizes(d)[c] \in Nat
<1>1. /\ Rules!OtxNumbers(tx) = 0..(Len(otx_entries) - 1)
      /\ \A k \in 0..(Len(otx_entries) - 1) : Rules!ViewOf(tx, k) = OtxViewAt(k)
  BY RulesCollected
<1>2. \A k \in 0..(Len(otx_entries) - 1) :
        /\ ScopeCounts[k] = SegmentCount(k)
        /\ Row(k, ScopeCounts) = {<<k, s>> : s \in 0..Len(Rules!ViewOf(tx, k).segments)}
  BY <1>1, ScopeFacts DEF Row, SegmentCount
<1>3. Rules!Scopes(tx) = AllScopes
  BY <1>1, <1>2 DEF Rules!Scopes, AllScopes
<1>4. ASSUME NEW c \in AllScopes
      PROVE  /\ c[1] \in 0..(Len(otx_entries) - 1) /\ c[2] \in 0..SegmentCount(c[1])
             /\ c = <<c[1], c[2]>>
  <2>1. PICK k \in 0..(Len(otx_entries) - 1) : c \in Row(k, ScopeCounts)
    BY DEF AllScopes
  <2>2. PICK s \in 0..SegmentCount(k) : c = <<k, s>>
    BY <1>2, <2>1 DEF Row
  <2> QED
    BY <2>2
<1>5. ASSUME NEW c \in AllScopes, NEW d \in Dim
      PROVE  /\ Rules!ItemsIn(tx, c, d) = ScopeSizes(d)[c]
             /\ ScopeSizes(d)[c] = CountsOf(c[1], c[2])[d]
             /\ ScopeSizes(d)[c] \in Nat
  <2>1. ScopeSizes(d)[c] = CountsOf(c[1], c[2])[d] /\ ScopeSizes(d)[c] \in Nat
    BY <1>4, ScopeFacts
  <2>2. Rules!ItemsIn(tx, c, d) = CountsOf(c[1], c[2])[d]
    BY <1>1, <1>4 DEF Rules!ItemsIn, CountsOf
  <2> QED
    BY <2>1, <2>2
<1> QED
  BY <1>3, <1>4, <1>5

\* The start of a scope, as a sum.
LEMMA RulesStartIs ==
  ASSUME IInv, phase = "complete", NEW scope, NEW d \in Dim
  PROVE  Rules!ScopeStart(tx, scope, d)
           = StartCounts[d] + SumOf(ScopeSizes(d), Rules!Before(tx, scope))
<1> DEFINE S == Rules!Before(tx, scope)
           f == ScopeSizes(d)
           left(g, s) == IF s = {} THEN 0 ELSE Rules!ItemsIn(tx, One(s), d) + g[s \ {One(s)}]
           right(g, s) == IF s = {} THEN 0 ELSE f[One(s)] + g[s \ {One(s)}]
           Left(g) == g = [s \in SUBSET S |-> left(g, s)]
<1>1. ASSUME NEW g, NEW s \in SUBSET S
      PROVE  left(g, s) = right(g, s)
  <2>1. S \subseteq AllScopes
    BY RulesScopes DEF Rules!Before
  <2>2. s # {} => One(s) \in AllScopes
    BY <2>1, OneIsElement
  <2> QED
    BY <2>2, RulesScopes
<1>2. Rules!ScopeStart(tx, scope, d)
        = tx.witnesses[Rules!FirstOtx(tx)].start[d] + (CHOOSE g : Left(g))[S]
  BY DEF Rules!ScopeStart, Rules!MapThenSumSet, Rules!MapThenFoldSet, One
<1>3. \A g : Left(g) <=> Summing(g, f, S)
  <2> HIDE DEF left, f, S
  <2>1. \A g : Left(g) <=> g = [s \in SUBSET S |-> right(g, s)]
    <3> HIDE DEF right
    <3> QED
      BY <1>1
  <2> QED
    BY <2>1 DEF Summing
<1>4. SumOf(f, S) = (CHOOSE g : Summing(g, f, S))[S]
  BY SumOfIs DEF Summer
<1> HIDE DEF Left, f, S
<1>5. (CHOOSE g : Left(g)) = (CHOOSE g : Summing(g, f, S))
  BY <1>3, Zenon
<1> QED
  BY <1>2, <1>4, <1>5, RulesCollected DEF f, S

\* layout.rs take_range: a piece begins where its scope does and is as long.
LEMMA PieceIsItsScope ==
  ASSUME IInv, OrderInv, CursorSums, phase = "complete",
         NEW p \in 1..Len(pieces), NEW d \in Dim
  PROVE  LET scope == <<pieces[p].otx, pieces[p].segment>> IN
         /\ scope \in Rules!Scopes(tx)
         /\ Rules!ScopeStart(tx, scope, d) = pieces[p].span[d].start
         /\ Rules!ItemsIn(tx, scope, d) = pieces[p].span[d].count
<1> DEFINE S == 1..Len(pieces)
           b == [q \in S |-> <<pieces[q].otx, pieces[q].segment>>]
           P == 1..(p - 1)
           B == Rules!Before(tx, b[p])
           f == Sizes(pieces, d)
           g == ScopeSizes(d)
           h == [q \in P |-> b[q]]
<1>1. Len(pieces) \in Nat /\ p \in Nat /\ p - 1 \in 0..Len(pieces)
  BY PieceFacts
<1>2. b \in Bijection(S, AllScopes)
  BY PiecesAreScopes DEF OrderInv, AllTaken
<1>3. /\ b \in [S -> AllScopes]
      /\ \A q, r \in S : b[q] = b[r] => q = r
      /\ \A c \in AllScopes : \E q \in S : b[q] = c
  <2> HIDE DEF b, S
  <2> QED
    BY <1>2 DEF Bijection, Injection, Surjection, IsInjective
<1>4. \A q \in S : /\ b[q][1] = pieces[q].otx /\ b[q][2] = pieces[q].segment
                   /\ pieces[q].otx \in Int /\ pieces[q].segment \in Int
  BY PieceFacts
<1>5. \A q \in S : f[q] \in Nat /\ f[q] = g[b[q]] /\ f[q] = pieces[q].span[d].count
  <2> SUFFICES ASSUME NEW q \in S
               PROVE  f[q] \in Nat /\ f[q] = g[b[q]] /\ f[q] = pieces[q].span[d].count
    OBVIOUS
  <2>1. /\ pieces[q].otx \in 0..(Len(otx_entries) - 1) /\ pieces[q].segment \in Nat
        /\ SegmentCount(pieces[q].otx) \in Nat /\ pieces[q].span[d].count \in Nat
    BY PieceFacts
  <2>2. /\ pieces[q].segment \in 0..SegmentCount(pieces[q].otx)
        /\ pieces[q].span[d].count = CountsOf(pieces[q].otx, pieces[q].segment)[d]
    BY <2>1 DEF OrderInv, PieceIsScope
  <2>3. g[<<pieces[q].otx, pieces[q].segment>>] = CountsOf(pieces[q].otx, pieces[q].segment)[d]
    BY <2>1, <2>2, ScopeFacts
  <2>4. f[q] = pieces[q].span[d].count
    BY DEF Sizes
  <2> QED
    BY <2>1, <2>2, <2>3, <2>4
<1>6. /\ p \in S /\ b[p] \in AllScopes /\ Rules!Scopes(tx) = AllScopes
      /\ Rules!ItemsIn(tx, b[p], d) = g[b[p]]
  BY <1>3, RulesScopes
<1>7. h \in Bijection(P, B)
  <2>1. P \subseteq S
    BY <1>1
  <2>2. ASSUME NEW q \in S
        PROVE  b[q] \in B <=> q < p
    <3>1. q < p => Precedes(pieces[q], pieces[p])
      BY DEF OrderInv, TakenInOrder
    <3>2. p < q => Precedes(pieces[p], pieces[q])
      BY DEF OrderInv, TakenInOrder
    <3>3. b[q] \in B <=> \/ b[q][1] < b[p][1]
                         \/ b[q][1] = b[p][1] /\ b[q][2] < b[p][2]
      BY <1>3, <1>6 DEF Rules!Before
    <3>4. b[q] \in B <=> Precedes(pieces[q], pieces[p])
      BY <1>4, <1>6, <3>3 DEF Precedes
    <3>5. q \in Int /\ p \in Int
      OBVIOUS
    <3> QED
      BY <1>4, <1>6, <3>1, <3>2, <3>4, <3>5 DEF Precedes
  <2>3. \A q \in P : q \in S /\ q < p /\ h[q] = b[q]
    BY <1>1
  <2>4. B \subseteq AllScopes
    BY <1>6 DEF Rules!Before
  <2>5. \A c \in B : \E q \in P : h[q] = c
    <3> SUFFICES ASSUME NEW c \in B PROVE \E q \in P : h[q] = c
      OBVIOUS
    <3>1. PICK q \in S : b[q] = c
      BY <1>3, <2>4
    <3>2. q \in P
      BY <1>1, <2>2, <3>1
    <3> QED
      BY <2>3, <3>1, <3>2
  <2>6. h \in [P -> B]
    BY <2>2, <2>3
  <2> HIDE DEF h, P, B, b, S
  <2>7. \A q, r \in P : h[q] = h[r] => q = r
    BY <1>3, <2>3
  <2> QED
    BY <2>5, <2>6, <2>7 DEF Bijection, Injection, Surjection, IsInjective
<1>8. SumOf(f, P) = SumOf(g, B)
  <2>1. IsFiniteSet(P)
    BY <1>1, FS_Interval
  <2>2. \A q \in P : f[q] \in Nat /\ f[q] = g[h[q]]
    <3>1. \A q \in P : q \in S /\ h[q] = b[q]
      BY <1>1
    <3> HIDE DEF f, g, h, P, S, b
    <3> QED
      BY <1>5, <3>1
  <2> HIDE DEF f, g, h, P, B
  <2> QED
    BY <1>7, <2>1, <2>2, SumRenamed
<1>9. pieces[p].span[d].start = StartCounts[d] + SumOf(f, P)
  BY <1>1, TookIs DEF CursorSums
<1>10. Rules!ScopeStart(tx, b[p], d) = StartCounts[d] + SumOf(g, B)
  BY RulesStartIs
<1>11. /\ b[p] \in Rules!Scopes(tx)
       /\ Rules!ScopeStart(tx, b[p], d) = pieces[p].span[d].start
       /\ Rules!ItemsIn(tx, b[p], d) = pieces[p].span[d].count
  BY <1>5, <1>6, <1>8, <1>9, <1>10
<1> QED
  BY <1>6, <1>11

\* A scope holds the items of its piece.
LEMMA PieceHolds ==
  ASSUME IInv, OrderInv, CursorSums, phase = "complete",
         NEW p \in 1..Len(pieces), NEW d \in Dim, NEW i
  PROVE  Rules!Holds(tx, <<pieces[p].otx, pieces[p].segment>>, d, i)
           <=> InSpan(i, pieces[p].span[d])
BY PieceIsItsScope DEF Rules!Holds, InSpan, End

\* Every scope of an OTX is a piece of it.
LEMMA ScopeIsAPiece ==
  ASSUME IInv, OrderInv, phase = "complete", NEW scope \in Rules!Scopes(tx)
  PROVE  \E p \in 1..Len(pieces) :
           p \in PiecesOf(scope[1]) /\ scope = <<pieces[p].otx, pieces[p].segment>>
<1>1. /\ scope[1] \in 0..(Len(otx_entries) - 1) /\ scope[2] \in 0..SegmentCount(scope[1])
      /\ scope = <<scope[1], scope[2]>>
  BY RulesScopes
<1>2. PICK p \in PiecesOf(scope[1]) : pieces[p].segment = scope[2]
  BY <1>1, EveryScopeTaken
<1> QED
  BY <1>1, <1>2 DEF PiecesOf

\* layout.rs base_ranges: the base range of an OTX is its first piece.
LEMMA BaseIsPiece ==
  ASSUME IInv, OrderInv, phase = "complete",
         NEW k \in 0..(Len(otx_entries) - 1), NEW p \in PiecesOf(k), pieces[p].segment = 0, NEW d
  PROVE  BaseSpan(k, d) = pieces[p].span[d]
<1>1. \A q \in PiecesOf(k) : pieces[q].segment = 0 => q = p
  <2> SUFFICES ASSUME NEW q \in PiecesOf(k), pieces[q].segment = 0
               PROVE  q = p
    OBVIOUS
  <2>1. /\ p \in 1..Len(pieces) /\ q \in 1..Len(pieces)
        /\ pieces[p].otx = k /\ pieces[q].otx = k
    BY DEF PiecesOf
  <2>2. ~(p < q) /\ ~(q < p)
    BY <2>1 DEF OrderInv, TakenInOrder, Precedes
  <2> QED
    BY <2>1, <2>2
<1>2. (CHOOSE q \in PiecesOf(k) : pieces[q].segment = 0) = p
  BY <1>1
<1> QED
  BY <1>2 DEF BaseSpan

\* layout.rs append_ranges: the append range holds the items of the other pieces of its OTX.
LEMMA AppendIsPieces ==
  ASSUME IInv, OrderInv, phase = "complete", NEW d \in Dim,
         NEW k \in 0..(Len(otx_entries) - 1), NEW x \in Int
  PROVE  InSpan(x, AppendSpan(k, d))
           <=> \E q \in PiecesOf(k) : pieces[q].segment # 0 /\ InSpan(x, pieces[q].span[d])
<1>1. PICK first \in PiecesOf(k) : pieces[first].segment = 0
  <2>1. 0 \in 0..SegmentCount(k)
    BY PieceFacts
  <2> QED
    BY <2>1, EveryScopeTaken
<1>2. BaseSpan(k, d) = pieces[first].span[d]
  BY <1>1, BaseIsPiece
<1>3. PICK one \in PiecesOf(k), other \in PiecesOf(k) :
        End(MergedSpan(k, d)) = End(pieces[other].span[d])
  BY MergedSpanFacts
<1>4. \A q \in PiecesOf(k) :
        /\ q \in 1..Len(pieces) /\ pieces[q].otx = k /\ pieces[q].segment \in Nat
        /\ pieces[q].span[d].start \in Nat /\ pieces[q].span[d].count \in Nat
  BY PieceFacts DEF PiecesOf
<1>5. /\ MergedSpan(k, d).start = BaseSpan(k, d).start
      /\ MergedSpan(k, d).count = BaseSpan(k, d).count + AppendSpan(k, d).count
  BY DEF MergedSpan
<1>6. AppendSpan(k, d).start = End(BaseSpan(k, d))
  BY DEF AppendSpan
<1> DEFINE last == CHOOSE i \in PiecesOf(k) : \A j \in PiecesOf(k) : j <= i
<1> HIDE DEF last
<1>7. AppendSpan(k, d).count = End(pieces[last].span[d]) - End(BaseSpan(k, d))
  BY DEF AppendSpan, last
<1>8. last \in PiecesOf(k)
  <2>1. \E i \in PiecesOf(k) : \A j \in PiecesOf(k) : j <= i
    BY MergedSpanFacts
  <2> QED
    BY <2>1 DEF last
<1>9. /\ AppendSpan(k, d).count \in Int /\ BaseSpan(k, d).start \in Nat /\ BaseSpan(k, d).count \in Nat
  <2>1. ASSUME NEW span, span.start \in Nat, span.count \in Nat
        PROVE  End(span) \in Nat
    BY <2>1 DEF End
  <2>2. /\ pieces[last].span[d].start \in Nat /\ pieces[last].span[d].count \in Nat
        /\ BaseSpan(k, d).start \in Nat /\ BaseSpan(k, d).count \in Nat
    BY <1>1, <1>2, <1>4, <1>8
  <2>3. End(pieces[last].span[d]) \in Nat /\ End(BaseSpan(k, d)) \in Nat
    BY <2>1, <2>2
  <2> QED
    BY <1>7, <2>2, <2>3
<1>10. InSpan(x, MergedSpan(k, d)) <=> \E q \in PiecesOf(k) : InSpan(x, pieces[q].span[d])
  BY WindowIsPieces
<1>11. ASSUME NEW q \in PiecesOf(k), pieces[q].segment # 0
       PROVE  End(BaseSpan(k, d)) <= pieces[q].span[d].start
  <2>1. first < q
    <3>1. ~(q < first) /\ q # first
      BY <1>1, <1>4, <1>11 DEF OrderInv, TakenInOrder, Precedes
    <3> QED
      BY <1>4, <3>1
  <2> QED
    BY <1>2, <1>4, <2>1, PieceOrder
<1>12. ASSUME InSpan(x, AppendSpan(k, d))
       PROVE  \E q \in PiecesOf(k) : pieces[q].segment # 0 /\ InSpan(x, pieces[q].span[d])
  <2>1. InSpan(x, MergedSpan(k, d)) /\ ~InSpan(x, BaseSpan(k, d))
    BY <1>5, <1>6, <1>9, <1>12 DEF InSpan, End
  <2>2. PICK q \in PiecesOf(k) : InSpan(x, pieces[q].span[d])
    BY <1>10, <2>1
  <2>3. pieces[q].segment # 0
    BY <2>1, <2>2, BaseIsPiece
  <2> QED
    BY <2>2, <2>3
<1>13. ASSUME NEW q \in PiecesOf(k), pieces[q].segment # 0, InSpan(x, pieces[q].span[d])
       PROVE  InSpan(x, AppendSpan(k, d))
  <2>1. InSpan(x, MergedSpan(k, d))
    BY <1>10, <1>13
  <2>2. End(BaseSpan(k, d)) <= x
    <3>1. End(BaseSpan(k, d)) <= pieces[q].span[d].start
      BY <1>11, <1>13
    <3>2. pieces[q].span[d].start \in Nat /\ pieces[q].span[d].start <= x
      BY <1>4, <1>13 DEF InSpan
    <3> QED
      BY <1>9, <3>1, <3>2 DEF End
  <2> QED
    BY <1>5, <1>6, <1>9, <2>1, <2>2 DEF InSpan, End
<1> QED
  BY <1>12, <1>13

\* layout.rs base_ranges, append_ranges: an item of an OTX is in its base or in its
\* append range.
LEMMA WindowParts ==
  ASSUME IInv, OrderInv, phase = "complete", NEW d \in Dim,
         NEW k \in 0..(Len(otx_entries) - 1), NEW p \in PiecesOf(k),
         NEW x \in Int, InSpan(x, pieces[p].span[d])
  PROVE  InSpan(x, BaseSpan(k, d)) \/ InSpan(x, AppendSpan(k, d))
<1>1. CASE pieces[p].segment = 0
  BY <1>1, BaseIsPiece
<1>2. CASE pieces[p].segment # 0
  BY <1>2, AppendIsPieces
<1> QED
  BY <1>1, <1>2

\* layout.rs finish: a layout has an OTX.
LEMMA SomeOtx ==
  ASSUME IInv, OrderInv, phase = "complete"
  PROVE  Rules!At(tx, "otx") # {}
<1>1. /\ start \in Nat /\ Len(otx_entries) \in Nat
      /\ Rules!At(tx, "otx") = (start + 1)..(start + Len(otx_entries))
  BY RulesCollected
<1>2. Len(otx_entries) > 0
  <2>1. Len(pieces) \in 1..Len(pieces)
    BY PieceFacts DEF OrderInv, AllTaken
  <2> QED
    BY <1>1, <2>1, PieceFacts
<1> QED
  BY <1>1, <1>2

\* engine.rs is_outside: an item is part of no OTX when it is outside the aggregate range.
LEMMA RemainsIsOutside ==
  ASSUME IInv, OrderInv, CursorSums, Scanned, NEW d \in Dim, NEW x \in Nat
  PROVE  Rules!Remains(tx, d, x) <=> (phase = "none" \/ ~InSpan(x, AggregateRange(d)))
<1>1. CASE phase = "none"
  <2>1. Rules!At(tx, "otx") = {}
    BY <1>1, NoneCollected, SamePositions, PositionsAre
  <2> QED
    BY <1>1, <2>1 DEF Rules!Remains
<1>2. CASE phase = "complete"
  <2>1. Rules!At(tx, "otx") # {}
    BY <1>2, SomeOtx
  <2>2. InSpan(x, AggregateRange(d)) <=> \E p \in 1..Len(pieces) : InSpan(x, pieces[p].span[d])
    BY <1>2, AggregateIsPieces
  <2>3. (\E scope \in Rules!Scopes(tx) : Rules!Holds(tx, scope, d, x))
          <=> \E p \in 1..Len(pieces) : InSpan(x, pieces[p].span[d])
    <3>1. ASSUME NEW scope \in Rules!Scopes(tx), Rules!Holds(tx, scope, d, x)
          PROVE  \E p \in 1..Len(pieces) : InSpan(x, pieces[p].span[d])
      BY <1>2, <3>1, ScopeIsAPiece, PieceHolds
    <3>2. ASSUME NEW p \in 1..Len(pieces), InSpan(x, pieces[p].span[d])
          PROVE  \E scope \in Rules!Scopes(tx) : Rules!Holds(tx, scope, d, x)
      BY <1>2, <3>2, PieceIsItsScope, PieceHolds
    <3> QED
      BY <3>1, <3>2
  <2> QED
    BY <1>2, <2>1, <2>2, <2>3 DEF Rules!Remains
<1> QED
  BY <1>1, <1>2 DEF Scanned

\* layout.rs base_ranges: the base of an OTX holds what its base range does.
LEMMA BaseScope ==
  ASSUME IInv, OrderInv, CursorSums, phase = "complete",
         NEW k \in 0..(Len(otx_entries) - 1), NEW d \in Dim
  PROVE  /\ <<k, 0>> \in Rules!Scopes(tx)
         /\ Rules!ScopeStart(tx, <<k, 0>>, d) = BaseSpan(k, d).start
         /\ BaseSpan(k, d).start \in Nat
         /\ \A i : Rules!Holds(tx, <<k, 0>>, d, i) <=> InSpan(i, BaseSpan(k, d))
<1>1. PICK first \in PiecesOf(k) : pieces[first].segment = 0
  <2>1. 0 \in 0..SegmentCount(k)
    BY PieceFacts
  <2> QED
    BY <2>1, EveryScopeTaken
<1>2. first \in 1..Len(pieces) /\ pieces[first].otx = k /\ BaseSpan(k, d) = pieces[first].span[d]
  BY <1>1, BaseIsPiece DEF PiecesOf
<1>3. /\ <<k, 0>> \in Rules!Scopes(tx)
      /\ Rules!ScopeStart(tx, <<k, 0>>, d) = BaseSpan(k, d).start
  BY <1>1, <1>2, PieceIsItsScope
<1>4. BaseSpan(k, d).start \in Nat
  BY <1>2, PieceFacts
<1>5. \A i : Rules!Holds(tx, <<k, 0>>, d, i) <=> InSpan(i, BaseSpan(k, d))
  BY <1>1, <1>2, PieceHolds
<1> QED
  BY <1>3, <1>4, <1>5

\* layout.rs append_ranges: the append segments of an OTX hold what its append range does.
LEMMA AppendScopes ==
  ASSUME IInv, OrderInv, CursorSums, phase = "complete",
         NEW k \in 0..(Len(otx_entries) - 1), NEW d \in Dim, NEW i \in Int
  PROVE  (\E scope \in Rules!Scopes(tx) :
            scope[1] = k /\ scope[2] \in 1..SegmentCount(k) /\ Rules!Holds(tx, scope, d, i))
           <=> InSpan(i, AppendSpan(k, d))
<1>1. ASSUME NEW scope \in Rules!Scopes(tx), scope[1] = k, scope[2] \in 1..SegmentCount(k),
             Rules!Holds(tx, scope, d, i)
      PROVE  InSpan(i, AppendSpan(k, d))
  <2>1. PICK p \in 1..Len(pieces) :
          p \in PiecesOf(scope[1]) /\ scope = <<pieces[p].otx, pieces[p].segment>>
    BY ScopeIsAPiece
  <2>2. p \in PiecesOf(k) /\ pieces[p].segment # 0 /\ InSpan(i, pieces[p].span[d])
    BY <1>1, <2>1, PieceHolds
  <2> QED
    BY <2>2, AppendIsPieces
<1>2. ASSUME InSpan(i, AppendSpan(k, d))
      PROVE  \E scope \in Rules!Scopes(tx) :
               scope[1] = k /\ scope[2] \in 1..SegmentCount(k) /\ Rules!Holds(tx, scope, d, i)
  <2>1. PICK q \in PiecesOf(k) : pieces[q].segment # 0 /\ InSpan(i, pieces[q].span[d])
    BY <1>2, AppendIsPieces
  <2>2. q \in 1..Len(pieces) /\ pieces[q].otx = k
    BY DEF PiecesOf
  <2> DEFINE scope == <<pieces[q].otx, pieces[q].segment>>
  <2>3. scope \in Rules!Scopes(tx) /\ Rules!Holds(tx, scope, d, i)
    BY <2>1, <2>2, PieceIsItsScope, PieceHolds
  <2>4. scope[1] = k /\ scope[2] # 0
    BY <2>1, <2>2
  <2> HIDE DEF scope
  <2>5. scope[2] \in 0..SegmentCount(scope[1]) /\ SegmentCount(k) \in Nat
    BY <2>3, RulesScopes, PieceFacts
  <2>6. scope[2] \in 1..SegmentCount(k)
    BY <2>4, <2>5
  <2> QED
    BY <2>3, <2>4, <2>6
<1> QED
  BY <1>1, <1>2
-----------------------------------------------------------------------------
(***************************************************************************)
(* Messages.                                                               *)
(***************************************************************************)
\* context.rs: what the rules say of a message is what the planners check.
LEMMA RulesMessages ==
  ASSUME NEW message \in Message
  PROVE  /\ Rules!Legible(message) <=> Parses(message)
         /\ Parses(message) => (Rules!OnTarget(tx, message) <=> TargetsPresent(message))
<1>1. /\ Len(message) \in Nat
      /\ \A a \in 1..Len(message) : message[a].role \in ScriptRole \cup {"invalid"}
  <2>1. \A a \in 1..Len(message) : message[a] \in Action
    BY DEF Message
  <2> QED
    BY <2>1 DEF Message, Action
<1>2. Rules!Legible(message) <=> \A a \in 1..Len(message) : message[a].role # "invalid"
  BY DEF Rules!Legible, Rules!ActionsOf
<1>3. "invalid" \notin ScriptRole
  BY DEF ScriptRole
<1>4. Rules!Legible(message) <=> Parses(message)
  BY <1>1, <1>2, <1>3 DEF Parses
<1>5. \A role \in ScriptRole : Rules!KnownTargets(tx, role) = Scripts(role)
  BY DEF Rules!KnownTargets, Scripts, ScriptRole
<1>6. Rules!OnTarget(tx, message)
        <=> \A a \in 1..Len(message) : message[a].target \in Rules!KnownTargets(tx, message[a].role)
  BY DEF Rules!OnTarget, Rules!ActionsOf
<1>7. Parses(message) => (Rules!OnTarget(tx, message) <=> TargetsPresent(message))
  BY <1>5, <1>6 DEF Parses, TargetsPresent
<1> QED
  BY <1>4, <1>7

\* witness.rs unique_sighash_all_message_with_index: the tx-level messages are counted as
\* the rules count them, and there is one or none.
LEMMA RulesTxMessages ==
  ASSUME IInv, Scanned
  PROVE  /\ Rules!At(tx, "sighash_all") = SighashAlls
         /\ Rules!Cardinality(Rules!At(tx, "sighash_all")) <= 1 <=> ~DuplicateSighashAll
         /\ SighashAlls = {} => Rules!TxMessages(tx) = {}
         /\ SighashAlls # {} /\ ~DuplicateSighashAll =>
              /\ SighashAlls = {MessageIndex}
              /\ tx.witnesses[MessageIndex + 1].message = TxMessage
              /\ Rules!TxMessages(tx) = {TxMessage}
<1>1. /\ Len(summaries) \in Nat /\ Len(summaries) = Len(tx.witnesses)
      /\ \A i \in 0..(Len(summaries) - 1) : summaries[i + 1] = Summary(WitnessAt(i))
  BY DEF IInv, TypeOK, CollectorInv, CollectedInv, Scanned, witness_count
<1>2. Rules!At(tx, "sighash_all")
        = {i \in 0..(Len(tx.witnesses) - 1) : WitnessAt(i).kind = "sighash_all"}
  BY DEF Rules!At, Rules!Positions, WitnessAt
<1>3. \A i \in 0..(Len(summaries) - 1) :
        SummaryKind(i) = "sighash_all" <=> WitnessAt(i).kind = "sighash_all"
  BY <1>1 DEF SummaryKind, Summary, OtherCobuildLayout
<1>4. Rules!At(tx, "sighash_all") = SighashAlls
  BY <1>1, <1>2, <1>3 DEF SighashAlls
<1>5. IsFiniteSet(SighashAlls)
  <2> DEFINE b == Len(summaries) - 1
  <2>1. b \in Int /\ 0 \in Int
    BY <1>1
  <2>2. IsFiniteSet(0..b)
    <3> HIDE DEF b
    <3> QED
      BY <2>1, FS_Interval
  <2>3. SighashAlls \subseteq 0..b
    BY DEF SighashAlls
  <2> HIDE DEF b
  <2> QED
    BY <2>2, <2>3, FS_Subset
<1>6. Cardinality(SighashAlls) \in Nat
  BY <1>5, FS_CardinalityType
<1>7. SighashAlls = {} \/ DuplicateSighashAll \/ SighashAlls = {MessageIndex}
  <2>1. SighashAlls # {} => MessageIndex \in SighashAlls
    BY DEF MessageIndex
  <2> QED
    BY <2>1 DEF DuplicateSighashAll
<1>8. Cardinality(SighashAlls) <= 1 <=> ~DuplicateSighashAll
  <2>1. SighashAlls = {} <=> Cardinality(SighashAlls) = 0
    BY <1>5, FS_EmptySet
  <2>2. Cardinality(SighashAlls) = 1 <=> \E x : SighashAlls = {x}
    BY <1>5, FS_Singleton
  <2>3. Cardinality(SighashAlls) <= 1 <=> SighashAlls = {} \/ \E x : SighashAlls = {x}
    BY <1>6, <2>1, <2>2
  <2>4. (SighashAlls = {} \/ \E x : SighashAlls = {x}) <=> ~DuplicateSighashAll
    BY <1>7 DEF DuplicateSighashAll
  <2> QED
    BY <2>3, <2>4
<1>9. Rules!Cardinality(SighashAlls) = Cardinality(SighashAlls)
  BY DEF Rules!Cardinality, Cardinality
<1>10. Rules!TxMessages(tx) = {tx.witnesses[w + 1].message : w \in SighashAlls}
  BY <1>4 DEF Rules!TxMessages
<1>11. ASSUME SighashAlls # {}, ~DuplicateSighashAll
       PROVE  /\ SighashAlls = {MessageIndex}
              /\ tx.witnesses[MessageIndex + 1].message = TxMessage
              /\ Rules!TxMessages(tx) = {TxMessage}
  <2>1. SighashAlls = {MessageIndex}
    BY <1>7, <1>11
  <2>2. summaries[MessageIndex + 1] = WitnessAt(MessageIndex)
    BY <2>1, SighashAllFacts
  <2>3. tx.witnesses[MessageIndex + 1].message = TxMessage
    BY <2>2 DEF TxMessage, WitnessAt
  <2> QED
    BY <1>10, <2>1, <2>3
<1> QED
  BY <1>4, <1>7, <1>8, <1>9, <1>10, <1>11
=============================================================================
