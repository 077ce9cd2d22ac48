--------------------------- MODULE OtxScanProofs ---------------------------
(***************************************************************************)
(* Proofs about the witness scan: type correctness, the run of OTX         *)
(* witnesses and the tiling of the transaction by the pieces; the order in *)
(* which the pieces are taken, none left out, none taken twice, and what   *)
(* is appended authorised; and, from what the pieces add up to, that the   *)
(* scan implements ScanRules.                                              *)
(***************************************************************************)
EXTENDS OtxScanInv, Sums, SequenceTheorems, TLAPS

-----------------------------------------------------------------------------
(***************************************************************************)
(* Facts about the data.                                                   *)
(***************************************************************************)
\* view.rs: a witness carries what its kind says.
LEMMA WitnessFields ==
  ASSUME NEW w \in Witness
  PROVE  /\ w.kind = "otx_start" => w.start \in Counts
         /\ w.kind = "otx" => w.view \in OtxView
         /\ w.kind = "malformed" => w.error \in {"MalformedCobuild", "InvalidOtxLayout"}
         /\ Summary(w) \in Witness \cup {OtherCobuildLayout}
BY DEF Witness, Summary

\* reader.rs: reading a position of the transaction gives a witness.
LEMMA WitnessInTx ==
  ASSUME TypeOK, NEW i \in 0..(Len(tx.witnesses) - 1)
  PROVE  WitnessAt(i) \in Witness
BY DEF TypeOK, Transaction, WitnessAt

\* layout.rs take_range: the range taken begins at the cursor and ends where the
\* cursor is moved to.
LEMMA TakeRangeFacts ==
  ASSUME cursor \in Counts, NEW counts \in Counts
  PROVE  /\ TakeRange(counts) \in [Dim -> Span]
         /\ Advance(counts) \in Counts
         /\ \A d \in Dim : /\ TakeRange(counts)[d].start = cursor[d]
                           /\ End(TakeRange(counts)[d]) = Advance(counts)[d]
                           /\ cursor[d] <= Advance(counts)[d]
BY DEF TakeRange, Advance, Counts, Span, End

-----------------------------------------------------------------------------
(***************************************************************************)
(* The inductive invariant.                                                *)
(***************************************************************************)
LEMMA InitInv == Init => IInv
<1> SUFFICES ASSUME Init PROVE IInv
  OBVIOUS
<1>1. TypeOK
  <2>1. tx \in Transaction
    BY TransactionsAssumption DEF Init
  <2>2. /\ phase \in Phase
        /\ start \in Nat \cup {None}
        /\ last_layout_witness_index \in Nat \cup {None}
        /\ has_cobuild_witness_layout \in BOOLEAN
    BY DEF Init, Phase
  <2>3. cursor \in Counts
    BY DEF Init, Counts
  <2>4. QED
    BY <2>1, <2>2, <2>3 DEF Init, TypeOK
<1>2. CollectorInv /\ CollectedInv /\ CursorInv
  BY <1>1 DEF Init, TypeOK, CollectorInv, CollectedInv, CursorInv, witness_count, None,
     Transaction
<1>3. QED
  BY <1>1, <1>2 DEF IInv

\* witness.rs: a malformed witness ends the scan.
LEMMA PushMalformedInv ==
  ASSUME IInv, PushMalformed
  PROVE  IInv'
<1> USE DEF IInv, PushMalformed, Scanning, Reject, collector, layout
<1>1. WitnessAt(witness_count) \in Witness
  BY WitnessInTx DEF TypeOK, witness_count
<1>2. TypeOK'
  BY <1>1, WitnessFields DEF TypeOK, Phase
<1>3. CollectorInv'
  BY DEF CollectorInv, witness_count, WitnessAt, None
<1>4. CollectedInv'
  BY DEF CollectedInv, witness_count, WitnessAt
<1>5. CursorInv'
  BY DEF CursorInv
<1>6. QED
  BY <1>2, <1>3, <1>4, <1>5

\* witness.rs record_witness_summary: one more witness is read, and the summaries
\* stay those of the witnesses read.
LEMMA RecordFacts ==
  ASSUME IInv, Scanning, RecordSummary(WitnessAt(witness_count)), tx' = tx
  PROVE  /\ WitnessAt(witness_count) \in Witness
         /\ summaries' \in Seq(Witness \cup {OtherCobuildLayout})
         /\ has_cobuild_witness_layout' \in BOOLEAN
         /\ witness_count \in Nat
         /\ witness_count' = witness_count + 1
         /\ witness_count' <= Len(tx'.witnesses)
         /\ \A i : WitnessAt(i)' = WitnessAt(i)
         /\ \A i \in 0..(witness_count' - 1) :
              /\ i \in 0..(witness_count - 1) \/ i = witness_count
              /\ summaries'[i + 1] = Summary(WitnessAt(i)')
<1> DEFINE w == WitnessAt(witness_count)
<1>1. Len(tx.witnesses) \in Nat /\ Len(summaries) \in Nat
  BY DEF IInv, TypeOK, Transaction
<1>2. w \in Witness
  BY <1>1, WitnessInTx DEF IInv, Scanning, witness_count
<1>3. /\ Len(summaries') = Len(summaries) + 1
      /\ summaries' \in Seq(Witness \cup {OtherCobuildLayout})
      /\ has_cobuild_witness_layout' \in BOOLEAN
      /\ \A i \in 1..Len(summaries) : summaries'[i] = summaries[i]
      /\ summaries'[Len(summaries) + 1] = Summary(w)
  BY <1>2, WitnessFields DEF IInv, TypeOK, RecordSummary
<1>4. \A i : WitnessAt(i)' = WitnessAt(i)
  BY DEF WitnessAt
<1>5. \A i \in 0..(Len(summaries') - 1) :
        /\ i \in 0..(Len(summaries) - 1) \/ i = Len(summaries)
        /\ summaries'[i + 1] = Summary(WitnessAt(i))
  BY <1>1, <1>3, <1>4 DEF IInv, CollectorInv, witness_count
<1>6. /\ witness_count \in Nat
      /\ witness_count' = witness_count + 1
      /\ witness_count' <= Len(tx'.witnesses)
  BY <1>1, <1>3 DEF Scanning, witness_count
<1>7. \A i \in 0..(witness_count' - 1) :
        /\ i \in 0..(witness_count - 1) \/ i = witness_count
        /\ summaries'[i + 1] = Summary(WitnessAt(i)')
  BY <1>4, <1>5 DEF witness_count
<1>8. QED
  BY <1>2, <1>3, <1>4, <1>6, <1>7

\* witness.rs push_witness: a witness of no OTX layout is only summarised.
LEMMA PushTxLevelInv ==
  ASSUME IInv, PushTxLevel
  PROVE  IInv'
<1> DEFINE w == WitnessAt(witness_count)
<1> USE DEF IInv, PushTxLevel, KeepScanning, collector, layout
<1>1. /\ Scanning /\ RecordSummary(w)
      /\ w.kind \in {"empty", "legacy", "sighash_all", "sighash_all_only"}
      /\ UNCHANGED <<tx, phase, error, start, last_layout_witness_index,
                     otx_entries, cursor, pieces>>
  OBVIOUS
<1>2. TypeOK'
  BY <1>1, RecordFacts DEF TypeOK
<1>3. CollectorInv'
  <2>1. start # None => start < witness_count' /\ last_layout_witness_index < witness_count'
    BY <1>1, RecordFacts DEF CollectorInv, TypeOK, None
  <2>2. QED
    BY <1>1, <2>1, RecordFacts DEF CollectorInv
<1>4. CollectedInv'
  BY <1>1, RecordFacts DEF CollectedInv, Scanning
<1>5. CursorInv'
  BY <1>1, RecordFacts DEF CursorInv, Scanning
<1>6. QED
  BY <1>2, <1>3, <1>4, <1>5

\* layout.rs push_otx_start: the first OtxStart is kept, a second one refused.
LEMMA PushOtxStartInv ==
  ASSUME IInv, PushOtxStart
  PROVE  IInv'
<1> DEFINE w == WitnessAt(witness_count)
<1> USE DEF IInv, layout, collector
<1>1. /\ Scanning /\ RecordSummary(w) /\ w.kind = "otx_start"
      /\ UNCHANGED <<tx, cursor, pieces, otx_entries>>
  BY DEF PushOtxStart
<1>2. CASE start # None
  <2>1. /\ phase' = "rejected" /\ error' = "InvalidOtxLayout"
        /\ UNCHANGED <<start, last_layout_witness_index>>
    BY <1>2 DEF PushOtxStart, Reject
  <2>2. TypeOK'
    BY <1>1, <2>1, RecordFacts DEF TypeOK, Phase
  <2>3. start < witness_count' /\ last_layout_witness_index < witness_count'
    BY <1>1, <1>2, RecordFacts DEF CollectorInv, TypeOK, None
  <2>4. CollectorInv'
    BY <1>1, <1>2, <2>1, <2>3, RecordFacts DEF CollectorInv
  <2>5. CollectedInv' /\ CursorInv'
    BY <1>1, <2>1, RecordFacts DEF CollectedInv, CursorInv
  <2>6. QED
    BY <2>2, <2>4, <2>5
<1>3. CASE start = None
  <2>1. /\ start' = witness_count /\ last_layout_witness_index' = witness_count
        /\ UNCHANGED <<phase, error>>
    BY <1>3 DEF PushOtxStart, KeepScanning
  <2>2. otx_entries = <<>> /\ otx_entries' = <<>> /\ pieces = <<>> /\ phase = "witnesses"
    BY <1>1, <1>3 DEF CollectorInv, Scanning
  <2>3. TypeOK'
    BY <1>1, <2>1, RecordFacts DEF TypeOK
  <2>4. CollectorInv'
    BY <1>1, <2>1, <2>2, RecordFacts DEF CollectorInv, None
  <2>5. CollectedInv'
    <3>1. \A i \in 0..(witness_count - 1) : WitnessAt(i).kind \notin {"otx_start", "otx"}
      BY <1>3, <2>2, RecordFacts, <1>1 DEF CollectedInv, None
    <3>2. QED
      BY <1>1, <2>1, <2>2, <3>1, RecordFacts DEF CollectedInv
  <2>6. CursorInv'
    BY <1>1, <2>1, <2>2 DEF CursorInv
  <2>7. QED
    BY <2>3, <2>4, <2>5, <2>6
<1>4. QED
  BY <1>2, <1>3

\* layout.rs push_otx: an OTX is kept if it follows the last layout witness.
LEMMA PushOtxInv ==
  ASSUME IInv, PushOtx
  PROVE  IInv'
<1> DEFINE w == WitnessAt(witness_count)
<1> USE DEF IInv, layout, collector
<1>1. /\ Scanning /\ RecordSummary(w) /\ w.kind = "otx"
      /\ UNCHANGED <<tx, cursor, pieces, start>>
  BY DEF PushOtx
<1>2. start # None => start < witness_count'
  BY <1>1, RecordFacts DEF CollectorInv, TypeOK, None
<1>3. CASE ~FollowsLayout(witness_count)
  <2>1. /\ phase' = "rejected" /\ error' = "InvalidOtxLayout"
        /\ UNCHANGED <<last_layout_witness_index, otx_entries>>
    BY <1>3 DEF PushOtx, Reject
  <2>2. TypeOK'
    BY <1>1, <2>1, RecordFacts DEF TypeOK, Phase
  <2>3. start # None => last_layout_witness_index < witness_count'
    BY <1>1, RecordFacts DEF CollectorInv, TypeOK, None
  <2>4. CollectorInv'
    BY <1>1, <1>2, <2>1, <2>3, RecordFacts DEF CollectorInv
  <2>5. CollectedInv' /\ CursorInv'
    BY <1>1, <2>1, RecordFacts DEF CollectedInv, CursorInv
  <2>6. QED
    BY <2>2, <2>4, <2>5
<1>4. CASE FollowsLayout(witness_count)
  <2>1. /\ last_layout_witness_index' = witness_count
        /\ otx_entries' = Append(otx_entries, witness_count)
        /\ UNCHANGED <<phase, error>>
    BY <1>4 DEF PushOtx, KeepScanning
  <2>2. /\ start # None /\ start \in Nat /\ Len(otx_entries) \in Nat
        /\ witness_count = start + Len(otx_entries) + 1
    BY <1>4, <1>1, RecordFacts DEF FollowsLayout, CollectorInv, TypeOK
  <2>3. /\ otx_entries' \in Seq(Nat)
        /\ Len(otx_entries') = Len(otx_entries) + 1
        /\ \A k \in 1..Len(otx_entries) : otx_entries'[k] = otx_entries[k]
        /\ otx_entries'[Len(otx_entries) + 1] = witness_count
    BY <1>1, <2>1, RecordFacts DEF TypeOK
  <2>4. TypeOK'
    BY <1>1, <2>1, <2>3, RecordFacts DEF TypeOK
  <2>5. \A k \in 1..Len(otx_entries') : /\ otx_entries'[k] = start + k
                                         /\ WitnessAt(otx_entries'[k]).kind = "otx"
    <3> SUFFICES ASSUME NEW k \in 1..Len(otx_entries')
                 PROVE  /\ otx_entries'[k] = start + k
                        /\ WitnessAt(otx_entries'[k]).kind = "otx"
      OBVIOUS
    <3>1. CASE k \in 1..Len(otx_entries)
      BY <2>3, <3>1 DEF CollectorInv
    <3>2. CASE k = Len(otx_entries) + 1
      BY <1>1, <2>2, <2>3, <3>2
    <3>3. QED
      BY <2>2, <2>3, <3>1, <3>2
  <2>6. CollectorInv'
    BY <1>1, <1>2, <2>1, <2>2, <2>3, <2>5, RecordFacts DEF CollectorInv, Scanning, None
  <2>7. CollectedInv'
    <3>1. \A i \in 0..(witness_count - 1) :
            /\ WitnessAt(i).kind = "otx_start" => i = start
            /\ WitnessAt(i).kind = "otx" => \E k \in 1..Len(otx_entries') : i = start + k
      BY <1>1, <2>2, <2>3 DEF CollectedInv, Scanning
    <3>2. \E k \in 1..Len(otx_entries') : witness_count = start + k
      BY <2>2, <2>3
    <3>3. QED
      BY <1>1, <2>1, <3>1, <3>2, RecordFacts DEF CollectedInv, Scanning
  <2>8. CursorInv'
    BY <1>1, <2>1, <2>2 DEF CursorInv, Scanning, CollectorInv
  <2>9. QED
    BY <2>4, <2>6, <2>7, <2>8
<1>5. QED
  BY <1>3, <1>4

\* layout.rs finish: the collected entries are OTX witnesses, the start witness
\* is an OtxStart.
LEMMA CollectedViews ==
  ASSUME IInv
  PROVE  /\ start # None => start \in Nat /\ StartCounts \in Counts
         /\ \A k \in 0..(Len(otx_entries) - 1) : OtxViewAt(k) \in OtxView
<1> USE DEF IInv
<1>1. Len(tx.witnesses) \in Nat /\ Len(summaries) \in Nat /\ Len(otx_entries) \in Nat
  BY DEF TypeOK, Transaction
<1>2. ASSUME start # None
      PROVE  start \in 0..(Len(tx.witnesses) - 1) /\ StartCounts \in Counts
  <2>1. start \in 0..(Len(tx.witnesses) - 1)
    BY <1>1, <1>2 DEF CollectorInv, TypeOK, witness_count
  <2>2. QED
    BY <1>2, <2>1, WitnessInTx, WitnessFields DEF CollectorInv, StartCounts
<1>3. ASSUME NEW k \in 0..(Len(otx_entries) - 1)
      PROVE  OtxViewAt(k) \in OtxView
  <2>1. start # None
    BY <1>1, <1>3 DEF CollectorInv
  <2>2. /\ k + 1 \in 1..Len(otx_entries)
        /\ otx_entries[k + 1] = start + (k + 1)
        /\ WitnessAt(otx_entries[k + 1]).kind = "otx"
    BY <1>1, <1>3 DEF CollectorInv
  <2>3. otx_entries[k + 1] \in 0..(Len(tx.witnesses) - 1)
    BY <1>1, <1>2, <2>1, <2>2 DEF CollectorInv, witness_count
  <2>4. QED
    BY <2>2, <2>3, WitnessInTx, WitnessFields DEF OtxViewAt
<1>4. QED
  BY <1>2, <1>3

\* layout.rs take_range: taking the next piece at the cursor keeps the tiling.
LEMMA TakePieceInv ==
  ASSUME IInv, phase = "layout",
         NEW counts \in Counts, NEW k \in 0..(Len(otx_entries) - 1), NEW s \in Nat,
         pieces' = Append(pieces, [otx |-> k, segment |-> s, span |-> TakeRange(counts)]),
         cursor' = Advance(counts),
         UNCHANGED <<tx, phase, error, summaries, has_cobuild_witness_layout,
                     start, last_layout_witness_index, otx_entries>>
  PROVE  IInv'
<1> DEFINE n == Len(pieces)
<1>1. n \in Nat /\ k \in Nat /\ cursor \in Counts /\ Len(otx_entries) \in Nat
  BY DEF IInv, TypeOK
<1>2. [otx |-> k, segment |-> s, span |-> TakeRange(counts)] \in Piece
  BY <1>1, TakeRangeFacts DEF Piece
<1>3. /\ pieces' \in Seq(Piece)
      /\ Len(pieces') = n + 1
      /\ \A i \in 1..n : pieces'[i] = pieces[i]
      /\ pieces'[n + 1].otx = k
      /\ pieces'[n + 1].span = TakeRange(counts)
  BY <1>1, <1>2 DEF IInv, TypeOK
<1>4. TypeOK'
  BY <1>1, <1>3, TakeRangeFacts DEF IInv, TypeOK
<1>5. /\ \A i : WitnessAt(i)' = WitnessAt(i)
      /\ witness_count' = witness_count
      /\ StartCounts' = StartCounts
  BY DEF WitnessAt, witness_count, StartCounts
<1>6. CollectorInv' /\ CollectedInv'
  BY <1>5 DEF IInv, CollectorInv, CollectedInv
<1>7. start # None /\ StartCounts \in Counts
  BY CollectedViews DEF IInv, CollectorInv
<1>8. \A i \in 1..Len(pieces') : pieces'[i].otx < Len(otx_entries)
  BY <1>1, <1>3 DEF IInv, CursorInv
<1>9. ASSUME NEW d \in Dim
      PROVE  /\ StartCounts[d] <= cursor'[d]
             /\ \A i \in 1..Len(pieces') :
                  /\ StartCounts[d] <= pieces'[i].span[d].start
                  /\ End(pieces'[i].span[d]) <= cursor'[d]
             /\ \A i, j \in 1..Len(pieces') :
                  i < j => End(pieces'[i].span[d]) <= pieces'[j].span[d].start
             /\ \A x \in StartCounts[d]..(cursor'[d] - 1) :
                  \E i \in 1..Len(pieces') : InSpan(x, pieces'[i].span[d])
  <2> DEFINE new == TakeRange(counts)[d]
  <2>1. /\ cursor[d] \in Nat /\ cursor'[d] \in Nat /\ StartCounts[d] \in Nat
        /\ cursor[d] <= cursor'[d]
        /\ new.start = cursor[d] /\ End(new) = cursor'[d]
    BY <1>1, <1>7, TakeRangeFacts DEF Counts
  <2>2. /\ StartCounts[d] <= cursor[d]
        /\ \A i \in 1..n : /\ StartCounts[d] <= pieces[i].span[d].start
                           /\ End(pieces[i].span[d]) <= cursor[d]
        /\ \A i, j \in 1..n : i < j => End(pieces[i].span[d]) <= pieces[j].span[d].start
        /\ \A x \in StartCounts[d]..(cursor[d] - 1) :
             \E i \in 1..n : InSpan(x, pieces[i].span[d])
    BY <1>9 DEF IInv, CursorInv
  <2>3. \A i \in 1..n : pieces[i].span[d] \in Span
    <3>1. \A i \in 1..n : pieces[i] \in Piece
      BY DEF IInv, TypeOK
    <3>2. QED
      BY <1>9, <3>1 DEF Piece
  <2>4. \A i \in 1..n : End(pieces[i].span[d]) \in Nat
    BY <2>3 DEF Span, End
  <2>5. \A i \in 1..(n + 1) : i \in 1..n \/ i = n + 1
    BY <1>1
  <2>6. \A i \in 1..Len(pieces') :
          /\ StartCounts[d] <= pieces'[i].span[d].start
          /\ End(pieces'[i].span[d]) <= cursor'[d]
    BY <1>3, <2>1, <2>2, <2>4, <2>5
  <2>7. ASSUME NEW i \in 1..Len(pieces'), NEW j \in 1..Len(pieces'), i < j
        PROVE  End(pieces'[i].span[d]) <= pieces'[j].span[d].start
    <3>1. i \in 1..n
      BY <1>1, <1>3, <2>7
    <3>2. CASE j \in 1..n
      BY <1>3, <2>2, <2>7, <3>1, <3>2
    <3>3. CASE j = n + 1
      BY <1>3, <2>1, <2>2, <3>1, <3>3
    <3>4. QED
      BY <1>3, <2>5, <3>2, <3>3
  <2>8. ASSUME NEW x \in StartCounts[d]..(cursor'[d] - 1)
        PROVE  \E i \in 1..Len(pieces') : InSpan(x, pieces'[i].span[d])
    <3>0. x \in Int /\ StartCounts[d] <= x /\ x < cursor'[d]
      BY <2>1, <2>8
    <3>1. CASE x < cursor[d]
      <4>0. x \in StartCounts[d]..(cursor[d] - 1)
        BY <2>1, <3>0, <3>1
      <4>1. PICK i \in 1..n : InSpan(x, pieces[i].span[d])
        BY <2>2, <4>0
      <4>2. i \in 1..Len(pieces') /\ pieces'[i] = pieces[i]
        BY <1>1, <1>3
      <4>3. QED
        BY <4>1, <4>2
    <3>2. CASE cursor[d] <= x
      <4>1. InSpan(x, pieces'[n + 1].span[d])
        BY <1>3, <2>1, <3>0, <3>2 DEF InSpan
      <4>2. QED
        BY <1>1, <1>3, <4>1
    <3>3. x < cursor[d] \/ cursor[d] <= x
      BY <2>1, <3>0
    <3>4. QED
      BY <3>1, <3>2, <3>3
  <2>9. StartCounts[d] <= cursor'[d]
    BY <2>1, <2>2
  <2>10. QED
    BY <2>6, <2>7, <2>8, <2>9
<1>10. CursorInv'
  <2>1. phase' = "layout" /\ start' # None
    BY <1>7
  <2>2. \A d \in Dim :
          /\ StartCounts'[d] <= cursor'[d]
          /\ \A i \in 1..Len(pieces') :
               /\ StartCounts'[d] <= pieces'[i].span[d].start
               /\ End(pieces'[i].span[d]) <= cursor'[d]
          /\ \A i, j \in 1..Len(pieces') :
               i < j => End(pieces'[i].span[d]) <= pieces'[j].span[d].start
          /\ \A x \in StartCounts'[d]..(cursor'[d] - 1) :
               \E i \in 1..Len(pieces') : InSpan(x, pieces'[i].span[d])
    BY <1>5, <1>9
  <2>3. phase' # "complete" /\ otx_entries' = otx_entries
    BY <2>1
  <2>4. QED
    BY <1>8, <2>1, <2>2, <2>3 DEF CursorInv
<1>11. QED
  BY <1>4, <1>6, <1>10 DEF IInv

\* layout.rs finish: the cursor starts at the OtxStart's counts.
LEMMA FinishScanInv ==
  ASSUME IInv, FinishScan
  PROVE  IInv'
<1> USE DEF IInv, collector
<1>1. /\ phase = "witnesses" /\ witness_count = Len(tx.witnesses)
      /\ UNCHANGED <<tx, summaries, has_cobuild_witness_layout, start,
                     last_layout_witness_index, otx_entries, pieces>>
  BY DEF FinishScan
<1>2. \/ start = None /\ phase' = "none" /\ UNCHANGED <<error, cursor>>
      \/ phase' = "rejected" /\ error' = "InvalidOtxLayout" /\ UNCHANGED cursor
      \/ start # None /\ phase' = "layout" /\ cursor' = StartCounts /\ UNCHANGED error
  BY DEF FinishScan, Reject, StartCounts
<1>3. pieces = <<>> /\ StartCounts' = StartCounts
  BY <1>1 DEF CollectorInv, StartCounts, WitnessAt
<1>4. /\ \A i : WitnessAt(i)' = WitnessAt(i)
      /\ witness_count' = witness_count
  BY <1>1 DEF WitnessAt, witness_count
<1>5. TypeOK'
  BY <1>1, <1>2, CollectedViews DEF TypeOK, Phase
<1>6. CollectorInv' /\ CollectedInv'
  BY <1>1, <1>2, <1>4 DEF CollectorInv, CollectedInv
<1>7. CursorInv'
  <2>1. CASE phase' \in {"none", "rejected"}
    BY <1>1, <1>3, <2>1 DEF CursorInv
  <2>2. CASE start # None /\ phase' = "layout" /\ cursor' = StartCounts
    <3>1. \A d \in Dim : StartCounts[d] \in Nat /\ cursor'[d] = StartCounts[d]
      BY <2>2, CollectedViews DEF Counts
    <3>2. Len(pieces') = 0
      BY <1>1, <1>3
    <3>3. QED
      BY <1>1, <1>3, <2>2, <3>1, <3>2 DEF CursorInv
  <2>3. QED
    BY <1>2, <2>1, <2>2
<1>8. QED
  BY <1>5, <1>6, <1>7

\* A step that only rejects keeps the invariant.
LEMMA RejectInv ==
  ASSUME IInv, phase = "layout", Reject("InvalidOtxLayout"),
         UNCHANGED <<tx, summaries, has_cobuild_witness_layout, collector, layout>>
  PROVE  IInv'
<1> USE DEF IInv, Reject, collector, layout
<1>1. TypeOK'
  BY DEF TypeOK, Phase
<1>2. CollectorInv' /\ CollectedInv' /\ CursorInv'
  BY DEF CollectorInv, CollectedInv, CursorInv, WitnessAt, witness_count
<1>3. QED
  BY <1>1, <1>2

\* layout.rs finish: the loop over the OTX stays inside the OTX collected.
LEMMA NextOtxType ==
  ASSUME IInv
  PROVE  /\ NextOtx \in Nat
         /\ pieces # <<>> => /\ LastPiece.otx \in 0..(Len(otx_entries) - 1)
                             /\ LastPiece.segment \in Nat
<1> USE DEF IInv
<1>1. CASE pieces = <<>>
  BY <1>1 DEF NextOtx
<1>2. CASE pieces # <<>>
  <2>1. Len(pieces) \in 1..Len(pieces) /\ LastPiece \in Piece
    BY <1>2 DEF TypeOK, LastPiece
  <2>2. LastPiece.otx < Len(otx_entries) /\ Len(otx_entries) \in Nat
    BY <2>1 DEF CursorInv, LastPiece, TypeOK
  <2>3. QED
    BY <1>2, <2>1, <2>2 DEF NextOtx, Piece
<1>3. QED
  BY <1>1, <1>2

\* layout.rs take_layout: the base ranges of one OTX.
LEMMA TakeBaseInv ==
  ASSUME IInv, TakeBase
  PROVE  IInv'
<1> DEFINE view == OtxViewAt(NextOtx)
<1>1. /\ phase = "layout"
      /\ UNCHANGED <<tx, summaries, has_cobuild_witness_layout, collector>>
      /\ NextOtx \in 0..(Len(otx_entries) - 1)
  BY NextOtxType DEF TakeBase, IInv, TypeOK
<1>2. view \in OtxView
  BY <1>1, CollectedViews
<1>3. view.base \in Counts
  BY <1>2 DEF OtxView
<1>4. CASE ~ValidOtxView(view)
  BY <1>1, <1>4, RejectInv DEF TakeBase
<1>5. CASE ValidOtxView(view)
  <2>1. /\ pieces' = Append(pieces, [otx |-> NextOtx, segment |-> 0,
                                     span |-> TakeRange(view.base)])
        /\ cursor' = Advance(view.base)
        /\ UNCHANGED <<phase, error>>
    BY <1>5 DEF TakeBase, KeepScanning
  <2>2. QED
    BY <1>1, <1>3, <2>1, TakePieceInv DEF collector
<1>6. QED
  BY <1>4, <1>5

\* layout.rs take_layout: the ranges of one append segment.
LEMMA TakeSegmentInv ==
  ASSUME IInv, TakeSegment
  PROVE  IInv'
<1> DEFINE k == LastPiece.otx
           s == LastPiece.segment + 1
           view == OtxViewAt(k)
<1>1. /\ phase = "layout" /\ SegmentsLeft
      /\ pieces' = Append(pieces, [otx |-> k, segment |-> s,
                                   span |-> TakeRange(view.segments[s].counts)])
      /\ cursor' = Advance(view.segments[s].counts)
      /\ UNCHANGED <<tx, phase, error, summaries, has_cobuild_witness_layout, start,
                     last_layout_witness_index, otx_entries>>
  BY DEF TakeSegment, KeepScanning, collector
<1>2. /\ k \in 0..(Len(otx_entries) - 1) /\ s \in Nat /\ s >= 1
      /\ s <= Len(view.segments) \/ Len(view.segments) \notin Nat
  BY <1>1, NextOtxType DEF SegmentsLeft
<1>3. view \in OtxView
  BY <1>2, CollectedViews
<1>4. view.segments \in Seq(SegmentView)
  BY <1>3 DEF OtxView
<1>5. view.segments[s] \in SegmentView
  BY <1>2, <1>4
<1>6. view.segments[s].counts \in Counts
  BY <1>5 DEF SegmentView
<1>7. QED
  BY <1>1, <1>2, <1>6, TakePieceInv

\* layout.rs ensure_within: the aggregate ends inside the transaction.
LEMMA FinishLayoutInv ==
  ASSUME IInv, FinishLayout
  PROVE  IInv'
<1>1. /\ phase = "layout"
      /\ UNCHANGED <<tx, summaries, has_cobuild_witness_layout, collector, layout>>
  BY DEF FinishLayout
<1>2. CASE pieces # <<>> /\ WithinTransaction
  <2>1. phase' = "complete" /\ UNCHANGED error
    BY <1>2 DEF FinishLayout
  <2> USE DEF IInv, collector, layout
  <2>2. TypeOK'
    BY <1>1, <2>1 DEF TypeOK, Phase
  <2>3. CollectorInv' /\ CollectedInv'
    BY <1>1, <2>1 DEF CollectorInv, CollectedInv, WitnessAt, witness_count
  <2>4. CursorInv'
    BY <1>1, <1>2, <2>1 DEF CursorInv, StartCounts, WitnessAt, WithinTransaction
  <2>5. QED
    BY <2>2, <2>3, <2>4
<1>3. CASE ~(pieces # <<>> /\ WithinTransaction)
  BY <1>1, <1>3, RejectInv DEF FinishLayout
<1>4. QED
  BY <1>2, <1>3

\* A stuttering step changes nothing the invariant reads.
LEMMA StutterInv ==
  ASSUME IInv, UNCHANGED scanVars
  PROVE  IInv'
BY DEF IInv, scanVars, TypeOK, CollectorInv, CollectedInv, CursorInv, WithinTransaction,
       StartCounts, WitnessAt, witness_count

\* engine.rs build: no step of the scan breaks the invariant.
LEMMA ScanStepInv ==
  ASSUME IInv, [Next]_scanVars
  PROVE  IInv'
<1>1. CASE PushMalformed
  BY <1>1, PushMalformedInv
<1>2. CASE PushTxLevel
  BY <1>2, PushTxLevelInv
<1>3. CASE PushOtxStart
  BY <1>3, PushOtxStartInv
<1>4. CASE PushOtx
  BY <1>4, PushOtxInv
<1>5. CASE FinishScan
  BY <1>5, FinishScanInv
<1>6. CASE TakeBase
  BY <1>6, TakeBaseInv
<1>7. CASE TakeSegment
  BY <1>7, TakeSegmentInv
<1>8. CASE FinishLayout
  BY <1>8, FinishLayoutInv
<1>9. CASE UNCHANGED scanVars
  BY <1>9, StutterInv
<1>10. QED
  BY <1>1, <1>2, <1>3, <1>4, <1>5, <1>6, <1>7, <1>8, <1>9 DEF Next, Push, Finish

\* engine.rs build: IInv holds in every state of the scan.
THEOREM ScanInvariant == Spec => []IInv
<1>1. IInv /\ [Next]_scanVars => IInv'
  BY ScanStepInv
<1>2. QED
  BY InitInv, <1>1, PTL DEF Spec
-----------------------------------------------------------------------------
(***************************************************************************)
(* What the invariant gives.                                               *)
(***************************************************************************)
\* witness.rs, layout.rs: every variable of the scan keeps its type; the cursor
\* does because the OtxStart index always points at an OtxStart witness.
THEOREM ScanTypeCorrect == Spec => []TypeOK
BY ScanInvariant, PTL DEF IInv

\* layout.rs: the aggregate range of a list is what the pieces hold of it.
LEMMA AggregateIsPieces ==
  ASSUME IInv, phase = "complete", NEW d \in Dim
  PROVE  /\ End(AggregateRange(d)) = cursor[d]
         /\ \A x \in Nat : InSpan(x, AggregateRange(d)) <=>
                            \E i \in 1..Len(pieces) : InSpan(x, pieces[i].span[d])
<1>1. StartCounts[d] \in Nat /\ cursor[d] \in Nat
  BY CollectedViews DEF IInv, TypeOK, CollectorInv, Counts
<1>2. AggregateRange(d).start = StartCounts[d] /\ End(AggregateRange(d)) = cursor[d]
  BY <1>1 DEF AggregateRange, End
<1>3. \A i \in 1..Len(pieces) :
        /\ pieces[i].span[d] \in Span
        /\ StartCounts[d] <= pieces[i].span[d].start
        /\ End(pieces[i].span[d]) <= cursor[d]
  <2>1. \A i \in 1..Len(pieces) : pieces[i] \in Piece
    BY DEF IInv, TypeOK
  <2>2. QED
    BY <2>1 DEF Piece, IInv, CursorInv
<1>4. ASSUME NEW x \in Nat
      PROVE  InSpan(x, AggregateRange(d)) <=>
               \E i \in 1..Len(pieces) : InSpan(x, pieces[i].span[d])
  <2>1. ASSUME InSpan(x, AggregateRange(d))
        PROVE  \E i \in 1..Len(pieces) : InSpan(x, pieces[i].span[d])
    <3>1. x \in StartCounts[d]..(cursor[d] - 1)
      BY <1>1, <1>2, <2>1 DEF InSpan
    <3>2. QED
      BY <3>1 DEF IInv, CursorInv
  <2>2. ASSUME NEW i \in 1..Len(pieces), InSpan(x, pieces[i].span[d])
        PROVE  InSpan(x, AggregateRange(d))
    <3>1. pieces[i].span[d].start \in Nat /\ End(pieces[i].span[d]) \in Nat
      BY <1>3 DEF Span, End
    <3>2. QED
      BY <1>1, <1>2, <1>3, <2>2, <3>1 DEF InSpan
  <2>3. QED
    BY <2>1, <2>2
<1>5. QED
  BY <1>2, <1>4

\* layout.rs take_layout, ensure_within: a complete scan tiles the aggregate
\* range of each of the four lists with its pieces.
THEOREM ScanTiles == Spec => []Tiling
<1>1. IInv => Tiling
  <2> SUFFICES ASSUME IInv, phase = "complete", NEW d \in Dim
               PROVE  /\ End(AggregateRange(d)) <= tx.counts[d]
                      /\ \A i, j \in 1..Len(pieces) :
                           i < j => End(pieces[i].span[d]) <= pieces[j].span[d].start
                      /\ \A x \in 0..tx.counts[d] :
                           InSpan(x, AggregateRange(d)) <=>
                             \E i \in 1..Len(pieces) : InSpan(x, pieces[i].span[d])
    BY DEF Tiling
  <2>1. End(AggregateRange(d)) <= tx.counts[d]
    BY AggregateIsPieces DEF IInv, CursorInv, WithinTransaction
  <2>2. \A i, j \in 1..Len(pieces) :
          i < j => End(pieces[i].span[d]) <= pieces[j].span[d].start
    BY DEF IInv, CursorInv
  <2>3. tx.counts[d] \in Nat
    BY DEF IInv, TypeOK, Transaction, Counts
  <2>4. \A x \in 0..tx.counts[d] : x \in Nat
    BY <2>3
  <2>5. QED
    BY <2>1, <2>2, <2>4, AggregateIsPieces
<1>2. QED
  BY <1>1, ScanInvariant, PTL

\* Once the witnesses are read and the scan goes on to the layout, there is one OtxStart,
\* and the OTX witnesses are those collected, right behind it.
LEMMA CollectedRun ==
  ASSUME IInv, phase \in {"layout", "complete"}
  PROVE  /\ start \in Nat
         /\ {i \in 0..(Len(tx.witnesses) - 1) : WitnessAt(i).kind = "otx_start"} = {start}
         /\ {i \in 0..(Len(tx.witnesses) - 1) : WitnessAt(i).kind = "otx"}
              = (start + 1)..(start + Len(otx_entries))
<1> DEFINE at(kind) == {i \in 0..(Len(tx.witnesses) - 1) : WitnessAt(i).kind = kind}
<1>1. /\ Len(tx.witnesses) \in Nat /\ Len(otx_entries) \in Nat
      /\ witness_count = Len(tx.witnesses)
      /\ start \in Int
  BY DEF IInv, TypeOK, Transaction, CollectedInv, None
<1>2. \A i \in 0..(Len(tx.witnesses) - 1) :
        /\ WitnessAt(i).kind = "otx_start" => i = start
        /\ WitnessAt(i).kind = "otx" => \E k \in 1..Len(otx_entries) : i = start + k
  BY <1>1 DEF IInv, CollectedInv
<1>3. \A k \in 1..Len(otx_entries) : /\ otx_entries[k] = start + k
                                     /\ WitnessAt(otx_entries[k]).kind = "otx"
  BY DEF IInv, CollectorInv
<1>4. /\ start \in Nat /\ WitnessAt(start).kind = "otx_start"
      /\ start + Len(otx_entries) < Len(tx.witnesses)
  BY <1>1 DEF IInv, CollectorInv, TypeOK, None
<1>5. at("otx_start") = {start}
  BY <1>1, <1>2, <1>4
<1>6. ASSUME NEW i \in (start + 1)..(start + Len(otx_entries))
      PROVE  i \in at("otx")
  <2>1. /\ i - start \in 1..Len(otx_entries)
        /\ i = start + (i - start)
        /\ i \in 0..(Len(tx.witnesses) - 1)
    BY <1>1, <1>4, <1>6
  <2>2. QED
    BY <1>3, <2>1
<1>7. ASSUME NEW i \in at("otx")
      PROVE  i \in (start + 1)..(start + Len(otx_entries))
  BY <1>1, <1>2, <1>4, <1>7
<1>8. QED
  BY <1>4, <1>5, <1>6, <1>7

\* A scan that succeeds without a layout has met no layout witness.
LEMMA NoneCollected ==
  ASSUME IInv, phase = "none"
  PROVE  /\ start = None /\ Len(otx_entries) = 0
         /\ {i \in 0..(Len(tx.witnesses) - 1) : WitnessAt(i).kind = "otx_start"} = {}
         /\ {i \in 0..(Len(tx.witnesses) - 1) : WitnessAt(i).kind = "otx"} = {}
<1>1. /\ Len(tx.witnesses) \in Nat /\ witness_count = Len(tx.witnesses)
      /\ start = -1 /\ Len(otx_entries) = 0
  BY DEF IInv, TypeOK, Transaction, CollectedInv, CollectorInv, None
<1>2. \A i \in 0..(Len(tx.witnesses) - 1) :
        /\ WitnessAt(i).kind = "otx_start" => i = start
        /\ WitnessAt(i).kind = "otx" => \E k \in 1..Len(otx_entries) : i = start + k
  BY <1>1 DEF IInv, CollectedInv
<1>3. QED
  BY <1>1, <1>2 DEF None

\* A scan that succeeds has one OtxStart, and the OTX witnesses right behind it.
LEMMA OneRun ==
  ASSUME IInv
  PROVE  OtxRun
<1> DEFINE at(kind) == {i \in 0..(Len(tx.witnesses) - 1) : WitnessAt(i).kind = kind}
<1> SUFFICES ASSUME Scanned
             PROVE  /\ at("otx_start") = IF phase = "none" THEN {} ELSE {start}
                    /\ at("otx") = (start + 1)..(start + Len(otx_entries))
                    /\ \A k \in 1..Len(otx_entries) : otx_entries[k] = start + k
  BY DEF OtxRun
<1>1. \A k \in 1..Len(otx_entries) : otx_entries[k] = start + k
  BY DEF IInv, CollectorInv
<1>2. CASE phase = "none"
  <2>1. (start + 1)..(start + Len(otx_entries)) = {}
    BY <1>2, NoneCollected DEF None
  <2>2. QED
    BY <1>1, <1>2, <2>1, NoneCollected
<1>3. CASE phase = "complete"
  BY <1>1, <1>3, CollectedRun
<1>4. QED
  BY <1>2, <1>3 DEF Scanned

\* layout.rs push_otx_start, push_otx: after a scan that succeeds, the OTX
\* witnesses of the transaction are one run behind its only OtxStart.
THEOREM ScanFindsOneRun == Spec => []OtxRun
BY OneRun, ScanInvariant, PTL

-----------------------------------------------------------------------------
(***************************************************************************)
(* The order of the pieces.                                                *)
(***************************************************************************)
\* The views of the OTX collected do not change once nothing is collected.
LEMMA ViewsKept ==
  ASSUME UNCHANGED <<tx, otx_entries>>
  PROVE  /\ \A k : OtxViewAt(k)' = OtxViewAt(k)
         /\ \A k : SegmentCount(k)' = SegmentCount(k)
         /\ \A k, s : CountsOf(k, s)' = CountsOf(k, s)
BY DEF OtxViewAt, SegmentCount, CountsOf, WitnessAt

\* The fields of the pieces, and of the OTX they are of.
LEMMA PieceFacts ==
  ASSUME IInv
  PROVE  /\ Len(pieces) \in Nat /\ Len(otx_entries) \in Nat
         /\ \A i \in 1..Len(pieces) :
              /\ pieces[i] \in Piece
              /\ pieces[i].otx \in 0..(Len(otx_entries) - 1)
              /\ pieces[i].segment \in Nat
              /\ \A d \in Dim : /\ pieces[i].span[d].start \in Nat
                                /\ pieces[i].span[d].count \in Nat
         /\ \A k \in 0..(Len(otx_entries) - 1) : SegmentCount(k) \in Nat
         /\ pieces # <<>> => Len(pieces) \in 1..Len(pieces) /\ LastPiece = pieces[Len(pieces)]
<1>1. Len(pieces) \in Nat /\ Len(otx_entries) \in Nat
  BY DEF IInv, TypeOK
<1>2. \A i \in 1..Len(pieces) : pieces[i] \in Piece
  BY DEF IInv, TypeOK
<1>3. \A i \in 1..Len(pieces) :
        /\ pieces[i].otx \in 0..(Len(otx_entries) - 1)
        /\ pieces[i].segment \in Nat
        /\ \A d \in Dim : /\ pieces[i].span[d].start \in Nat
                          /\ pieces[i].span[d].count \in Nat
  BY <1>1, <1>2 DEF Piece, Span, IInv, CursorInv
<1>4. ASSUME NEW k \in 0..(Len(otx_entries) - 1)
      PROVE  SegmentCount(k) \in Nat
  <2>1. OtxViewAt(k).segments \in Seq(SegmentView)
    BY CollectedViews DEF OtxView
  <2>2. QED
    BY <2>1 DEF SegmentCount
<1>5. pieces # <<>> => Len(pieces) \in 1..Len(pieces) /\ LastPiece = pieces[Len(pieces)]
  BY <1>1 DEF IInv, TypeOK, LastPiece
<1>6. QED
  BY <1>1, <1>2, <1>3, <1>4, <1>5

\* layout.rs take_layout: a piece that follows the last one in the order of the
\* scopes keeps the order, and leaves no scope out.
LEMMA TakeInOrder ==
  ASSUME IInv, OrderInv, phase = "layout", phase' = "layout",
         UNCHANGED <<tx, otx_entries, start, has_cobuild_witness_layout>>,
         NEW k \in 0..(Len(otx_entries) - 1), NEW s \in 0..SegmentCount(k),
         ValidOtxView(OtxViewAt(k)), CountsOf(k, s) \in Counts,
         pieces' = Append(pieces, [otx |-> k, segment |-> s, span |-> TakeRange(CountsOf(k, s))]),
         pieces = <<>> => k = 0 /\ s = 0,
         pieces # <<>> =>
           \/ k = LastPiece.otx /\ s = LastPiece.segment + 1
           \/ k = LastPiece.otx + 1 /\ s = 0 /\ LastPiece.segment = SegmentCount(LastPiece.otx)
  PROVE  OrderInv'
<1> DEFINE n == Len(pieces)
           new == [otx |-> k, segment |-> s, span |-> TakeRange(CountsOf(k, s))]
<1>1. /\ n \in Nat /\ Len(otx_entries) \in Nat /\ SegmentCount(k) \in Nat
      /\ k \in Nat /\ s \in Nat
  BY PieceFacts
<1>2. cursor \in Counts
  BY DEF IInv, TypeOK
<1>3. new \in Piece
  BY <1>1, <1>2, TakeRangeFacts DEF Piece
<1>4. /\ Len(pieces') = n + 1
      /\ \A i \in 1..n : pieces'[i] = pieces[i]
      /\ pieces'[n + 1] = new
      /\ pieces' # <<>>
  BY <1>1, <1>3 DEF IInv, TypeOK
<1>5. \A i \in 1..(n + 1) : i \in 1..n \/ i = n + 1
  BY <1>1
<1>6. LastPiece' = new
  BY <1>4 DEF LastPiece
<1>7. /\ \A j : OtxViewAt(j)' = OtxViewAt(j)
      /\ \A j : SegmentCount(j)' = SegmentCount(j)
      /\ \A j, t : CountsOf(j, t)' = CountsOf(j, t)
  BY ViewsKept
<1>8. ASSUME NEW i \in 1..n
      PROVE  Precedes(pieces[i], new)
  <2>1. /\ pieces # <<>> /\ n \in 1..n /\ LastPiece = pieces[n]
    BY <1>1, PieceFacts DEF IInv, TypeOK
  <2>2. i = n \/ Precedes(pieces[i], LastPiece)
    BY <1>1, <2>1 DEF OrderInv, TakenInOrder
  <2>3. /\ pieces[i].otx \in Int /\ pieces[i].segment \in Int
        /\ LastPiece.otx \in Int /\ LastPiece.segment \in Int
    BY <2>1, PieceFacts
  <2>4. \/ k = LastPiece.otx /\ s = LastPiece.segment + 1
        \/ k = LastPiece.otx + 1 /\ s = 0
    BY <2>1
  <2>5. Precedes(LastPiece, new)
    BY <2>3, <2>4 DEF Precedes
  <2>6. QED
    BY <1>1, <2>1, <2>2, <2>3, <2>5 DEF Precedes
<1>9. \A i \in 1..Len(pieces') :
        /\ pieces'[i].segment <= SegmentCount(pieces'[i].otx)
        /\ ValidOtxView(OtxViewAt(pieces'[i].otx))
        /\ \A d \in Dim :
             pieces'[i].span[d].count = CountsOf(pieces'[i].otx, pieces'[i].segment)[d]
  <2>1. /\ new.segment <= SegmentCount(new.otx)
        /\ ValidOtxView(OtxViewAt(new.otx))
        /\ \A d \in Dim : new.span[d].count = CountsOf(new.otx, new.segment)[d]
    BY <1>1 DEF TakeRange
  <2>2. \A i \in 1..n :
          /\ pieces[i].segment <= SegmentCount(pieces[i].otx)
          /\ ValidOtxView(OtxViewAt(pieces[i].otx))
          /\ \A d \in Dim :
               pieces[i].span[d].count = CountsOf(pieces[i].otx, pieces[i].segment)[d]
    BY DEF OrderInv, PieceIsScope
  <2> HIDE DEF new
  <2>3. QED
    BY <1>4, <1>5, <2>1, <2>2
<1>10. ASSUME NEW i \in 1..Len(pieces'), NEW j \in 1..Len(pieces'), i < j
       PROVE  Precedes(pieces'[i], pieces'[j])
  <2>1. i \in 1..n
    BY <1>1, <1>4, <1>10
  <2>2. CASE j \in 1..n
    BY <1>4, <1>10, <2>1, <2>2 DEF OrderInv, TakenInOrder
  <2>3. CASE j = n + 1
    BY <1>4, <1>8, <2>1, <2>3
  <2>4. QED
    BY <1>4, <1>5, <2>2, <2>3
<1>11. ASSUME NEW l \in 0..(Len(otx_entries) - 1), NEW t \in 0..SegmentCount(l),
              l < k \/ (l = k /\ t <= s)
       PROVE  \E i \in 1..Len(pieces') : pieces'[i].otx = l /\ pieces'[i].segment = t
  <2>1. CASE l = k /\ t = s
    BY <1>1, <1>4, <2>1
  <2>2. CASE ~(l = k /\ t = s)
    <3>1. SegmentCount(l) \in Nat /\ l \in Int /\ t \in Int /\ t <= SegmentCount(l)
      BY <1>1, PieceFacts
    <3>2. pieces # <<>>
      BY <1>1, <1>11, <2>2, <3>1
    <3>3. LastPiece.otx \in Int /\ LastPiece.segment \in Int
      BY <3>2, PieceFacts
    <3>4. Reached(l, t)
      BY <1>1, <1>11, <2>2, <3>1, <3>2, <3>3 DEF Reached
    <3>5. PICK i \in 1..n : pieces[i].otx = l /\ pieces[i].segment = t
      BY <3>4 DEF OrderInv, NoneLeftOut
    <3>6. i \in 1..Len(pieces') /\ pieces'[i] = pieces[i]
      BY <1>1, <1>4
    <3>7. QED
      BY <3>5, <3>6
  <2>3. QED
    BY <2>1, <2>2
<1>12. \A l \in 0..(Len(otx_entries) - 1) : \A t \in 0..SegmentCount(l) :
         Reached(l, t)' => \E i \in 1..Len(pieces') : pieces'[i].otx = l /\ pieces'[i].segment = t
  BY <1>6, <1>11 DEF Reached
<1>13. PieceIsScope'
  <2>1. tx' = tx /\ otx_entries' = otx_entries
    OBVIOUS
  <2>2. QED
    BY ONLY <1>9, <2>1 DEF PieceIsScope, SegmentCount, CountsOf, OtxViewAt, WitnessAt
<1>14. TakenInOrder'
  BY <1>10 DEF TakenInOrder
<1>15. NoneLeftOut'
  BY <1>12 DEF NoneLeftOut, Reached, LastPiece, SegmentCount, OtxViewAt, WitnessAt
<1>16. AllTaken' /\ OtxIsCobuild'
  BY DEF AllTaken, OtxIsCobuild, OrderInv
<1>17. QED
  BY <1>13, <1>14, <1>15, <1>16 DEF OrderInv

\* Before anything is taken the order is trivial; only the flag is at stake.
LEMMA NothingTaken ==
  ASSUME pieces' = <<>>, phase' # "complete",
         start' # None => has_cobuild_witness_layout'
  PROVE  OrderInv'
BY DEF OrderInv, PieceIsScope, TakenInOrder, NoneLeftOut, Reached, AllTaken, OtxIsCobuild

\* A step that takes nothing.
LEMMA PiecesKept ==
  ASSUME UNCHANGED <<tx, otx_entries, pieces>>
  PROVE  /\ PieceIsScope => PieceIsScope'
         /\ TakenInOrder => TakenInOrder'
         /\ NoneLeftOut => NoneLeftOut'
         /\ LastPiece' = LastPiece /\ SegmentCount(LastPiece.otx)' = SegmentCount(LastPiece.otx)
<1>1. tx' = tx /\ otx_entries' = otx_entries /\ pieces' = pieces
  OBVIOUS
<1>2. PieceIsScope => PieceIsScope'
  BY ONLY <1>1 DEF PieceIsScope, SegmentCount, CountsOf, OtxViewAt, WitnessAt
<1>3. TakenInOrder => TakenInOrder'
  BY <1>1 DEF TakenInOrder
<1>4. ASSUME NoneLeftOut
      PROVE  NoneLeftOut'
  <2>1. \A k \in 0..(Len(otx_entries) - 1) : \A s \in 0..SegmentCount(k) :
          Reached(k, s)' =>
            \E i \in 1..Len(pieces') : pieces'[i].otx = k /\ pieces'[i].segment = s
    BY <1>1, <1>4 DEF NoneLeftOut, Reached, LastPiece
  <2>2. QED
    BY <1>1, <2>1 DEF NoneLeftOut, Reached, LastPiece, SegmentCount, OtxViewAt, WitnessAt
<1>5. LastPiece' = LastPiece /\ SegmentCount(LastPiece.otx)' = SegmentCount(LastPiece.otx)
  BY <1>1 DEF LastPiece, SegmentCount, OtxViewAt, WitnessAt
<1>6. QED
  BY <1>2, <1>3, <1>4, <1>5

\* A step that takes nothing and does not complete the scan.
LEMMA TakesNothing ==
  ASSUME OrderInv, phase' # "complete",
         UNCHANGED <<tx, otx_entries, start, has_cobuild_witness_layout, pieces>>
  PROVE  OrderInv'
BY PiecesKept DEF OrderInv, AllTaken, OtxIsCobuild

\* Nothing is taken before the scan.
LEMMA InitOrder == Init => OrderInv
BY DEF Init, OrderInv, PieceIsScope, TakenInOrder, NoneLeftOut, Reached, AllTaken, OtxIsCobuild

\* witness.rs push_witness: an OTX witness makes the transaction a Cobuild one.
LEMMA PushOrder ==
  ASSUME IInv, OrderInv, Push
  PROVE  OrderInv'
<1>1. phase = "witnesses" /\ pieces = <<>> /\ (start # None => has_cobuild_witness_layout)
  BY DEF Push, PushMalformed, PushTxLevel, PushOtxStart, PushOtx, Scanning, IInv, CollectorInv,
         OrderInv, OtxIsCobuild
<1>2. pieces' = <<>> /\ phase' \in {"witnesses", "rejected"}
  BY <1>1 DEF Push, PushMalformed, PushTxLevel, PushOtxStart, PushOtx, KeepScanning, Reject,
              layout
<1>3. start' # None => has_cobuild_witness_layout'
  <2>1. CASE PushMalformed
    BY <1>1, <2>1 DEF PushMalformed, collector
  <2>2. CASE PushTxLevel
    BY <1>1, <2>2 DEF PushTxLevel, collector, RecordSummary
  <2>3. CASE PushOtxStart \/ PushOtx
    BY <2>3 DEF PushOtxStart, PushOtx, RecordSummary, Summary, IsCobuildLayout,
                OtherCobuildLayout
  <2>4. QED
    BY <2>1, <2>2, <2>3 DEF Push
<1>4. QED
  BY <1>2, <1>3, NothingTaken

\* layout.rs finish: its loop starts with nothing taken.
LEMMA FinishScanOrder ==
  ASSUME IInv, OrderInv, FinishScan
  PROVE  OrderInv'
<1>1. pieces' = <<>> /\ phase' # "complete"
  BY DEF FinishScan, Reject, IInv, CollectorInv
<1>2. start' # None => has_cobuild_witness_layout'
  BY DEF FinishScan, collector, OrderInv, OtxIsCobuild
<1>3. QED
  BY <1>1, <1>2, NothingTaken

\* layout.rs finish: the base of the next OTX, once the last one is all taken.
LEMMA TakeBaseOrder ==
  ASSUME IInv, OrderInv, TakeBase
  PROVE  OrderInv'
<1> DEFINE view == OtxViewAt(NextOtx)
<1>1. /\ phase = "layout" /\ ~SegmentsLeft
      /\ NextOtx \in 0..(Len(otx_entries) - 1)
      /\ UNCHANGED <<tx, otx_entries, start, has_cobuild_witness_layout>>
  BY NextOtxType, PieceFacts DEF TakeBase, collector
<1>2. CASE Reject("InvalidOtxLayout") /\ UNCHANGED layout
  BY <1>1, <1>2, TakesNothing DEF Reject, layout
<1>3. CASE /\ ValidOtxView(view)
           /\ pieces' = Append(pieces, [otx |-> NextOtx, segment |-> 0,
                                        span |-> TakeRange(view.base)])
           /\ KeepScanning
  <2>1. view \in OtxView
    BY <1>1, CollectedViews
  <2>2. CountsOf(NextOtx, 0) = view.base /\ view.base \in Counts
    BY <2>1 DEF CountsOf, OtxView
  <2>3. SegmentCount(NextOtx) \in Nat /\ 0 \in 0..SegmentCount(NextOtx)
    BY <1>1, PieceFacts
  <2>4. pieces = <<>> => NextOtx = 0
    BY DEF NextOtx
  <2>5. ASSUME pieces # <<>>
        PROVE  /\ NextOtx = LastPiece.otx + 1
               /\ LastPiece.segment = SegmentCount(LastPiece.otx)
    <3>1. Len(pieces) \in 1..Len(pieces) /\ LastPiece = pieces[Len(pieces)]
      BY <2>5, PieceFacts
    <3>2. LastPiece.segment <= SegmentCount(LastPiece.otx)
      BY <3>1 DEF OrderInv, PieceIsScope
    <3>3. LastPiece.segment \in Nat /\ SegmentCount(LastPiece.otx) \in Nat
      BY <3>1, PieceFacts
    <3>4. ~(LastPiece.segment < SegmentCount(LastPiece.otx))
      BY <1>1, <2>5 DEF SegmentsLeft, SegmentCount
    <3>5. QED
      BY <2>5, <3>2, <3>3, <3>4 DEF NextOtx
  <2>6. phase' = "layout"
    BY <1>1, <1>3 DEF KeepScanning
  <2>7. pieces' = Append(pieces, [otx |-> NextOtx, segment |-> 0,
                                  span |-> TakeRange(CountsOf(NextOtx, 0))])
    BY <1>3, <2>2
  <2>8. QED
    BY <1>1, <1>3, <2>2, <2>3, <2>4, <2>5, <2>6, <2>7, TakeInOrder
<1>4. QED
  BY <1>2, <1>3 DEF TakeBase

\* layout.rs take_layout: the next append segment of the OTX being cut.
LEMMA TakeSegmentOrder ==
  ASSUME IInv, OrderInv, TakeSegment
  PROVE  OrderInv'
<1> DEFINE k == LastPiece.otx
           s == LastPiece.segment + 1
<1>1. /\ phase = "layout" /\ phase' = "layout" /\ pieces # <<>>
      /\ LastPiece.segment < SegmentCount(k)
      /\ UNCHANGED <<tx, otx_entries, start, has_cobuild_witness_layout>>
      /\ pieces' = Append(pieces, [otx |-> k, segment |-> s,
                                   span |-> TakeRange(OtxViewAt(k).segments[s].counts)])
  BY DEF TakeSegment, SegmentsLeft, SegmentCount, KeepScanning, collector
<1>2. Len(pieces) \in 1..Len(pieces) /\ LastPiece = pieces[Len(pieces)]
  BY <1>1, PieceFacts
<1>3. k \in 0..(Len(otx_entries) - 1) /\ LastPiece.segment \in Nat /\ SegmentCount(k) \in Nat
  BY <1>2, PieceFacts
<1>4. s \in 1..SegmentCount(k)
  BY <1>1, <1>3
<1>5. CountsOf(k, s) = OtxViewAt(k).segments[s].counts /\ CountsOf(k, s) \in Counts
  <2>1. OtxViewAt(k).segments \in Seq(SegmentView)
    BY <1>3, CollectedViews DEF OtxView
  <2>2. OtxViewAt(k).segments[s] \in SegmentView
    BY <1>4, <2>1 DEF SegmentCount
  <2>3. s # 0
    BY <1>4
  <2>4. QED
    BY <2>2, <2>3 DEF CountsOf, SegmentView
<1>6. ValidOtxView(OtxViewAt(k))
  BY <1>2 DEF OrderInv, PieceIsScope
<1>7. pieces' = Append(pieces, [otx |-> k, segment |-> s, span |-> TakeRange(CountsOf(k, s))])
  BY <1>1, <1>5
<1>8. s \in 0..SegmentCount(k)
  BY <1>3, <1>4
<1>9. QED
  BY <1>1, <1>3, <1>5, <1>6, <1>7, <1>8, TakeInOrder

\* layout.rs finish: the loop over the OTX ends when the last one is all taken.
LEMMA AllTakenAtEnd ==
  ASSUME IInv, OrderInv, pieces # <<>>, ~SegmentsLeft, NextOtx = Len(otx_entries)
  PROVE  /\ LastPiece.otx + 1 = Len(otx_entries) /\ LastPiece.otx \in Nat
         /\ LastPiece.segment = SegmentCount(LastPiece.otx)
<1>1. Len(pieces) \in 1..Len(pieces) /\ LastPiece = pieces[Len(pieces)]
  BY PieceFacts
<1>2. LastPiece.segment <= SegmentCount(LastPiece.otx)
  BY <1>1 DEF OrderInv, PieceIsScope
<1>3. /\ LastPiece.segment \in Nat /\ SegmentCount(LastPiece.otx) \in Nat
      /\ LastPiece.otx \in Nat
  BY <1>1, PieceFacts
<1>4. ~(LastPiece.segment < SegmentCount(LastPiece.otx))
  BY DEF SegmentsLeft, SegmentCount
<1>5. QED
  BY <1>2, <1>3, <1>4 DEF NextOtx

\* layout.rs finish: and then every scope is.
LEMMA FinishLayoutOrder ==
  ASSUME IInv, OrderInv, FinishLayout
  PROVE  OrderInv'
<1>1. /\ ~SegmentsLeft /\ NextOtx = Len(otx_entries)
      /\ UNCHANGED <<tx, otx_entries, start, has_cobuild_witness_layout, pieces>>
  BY DEF FinishLayout, collector, layout
<1>2. CASE Reject("InvalidOtxLayout")
  BY <1>1, <1>2, TakesNothing DEF Reject
<1>3. CASE pieces # <<>>
  <2>5. LastPiece.otx + 1 = Len(otx_entries) /\ LastPiece.segment = SegmentCount(LastPiece.otx)
    BY <1>1, <1>3, AllTakenAtEnd
  <2>6. AllTaken'
    BY <1>1, <1>3, <2>5 DEF AllTaken, LastPiece, SegmentCount, OtxViewAt, WitnessAt
  <2>7. PieceIsScope' /\ TakenInOrder' /\ NoneLeftOut' /\ OtxIsCobuild'
    BY <1>1, PiecesKept DEF OrderInv, OtxIsCobuild
  <2>8. QED
    BY <2>6, <2>7 DEF OrderInv
<1>4. QED
  BY <1>2, <1>3 DEF FinishLayout

\* A stuttering step keeps the order.
LEMMA StutterOrder ==
  ASSUME OrderInv, UNCHANGED scanVars
  PROVE  OrderInv'
<1>1. CASE phase = "complete"
  <2>1. AllTaken'
    BY <1>1 DEF scanVars, OrderInv, AllTaken, LastPiece, SegmentCount, OtxViewAt, WitnessAt
  <2>2. QED
    BY <2>1, PiecesKept DEF scanVars, OrderInv, OtxIsCobuild
<1>2. CASE phase # "complete"
  BY <1>2, TakesNothing DEF scanVars
<1>3. QED
  BY <1>1, <1>2

\* engine.rs build: no step of the scan breaks the order.
LEMMA ScanStepOrder ==
  ASSUME IInv, OrderInv, [Next]_scanVars
  PROVE  OrderInv'
BY PushOrder, FinishScanOrder, TakeBaseOrder, TakeSegmentOrder, FinishLayoutOrder, StutterOrder
   DEF Next, Finish

\* layout.rs finish, take_layout: every base and every append segment of every
\* OTX is taken exactly once, in wire order, from an OTX that is valid.
THEOREM ScanKeepsOrder == Spec => []OrderInv
<1>1. IInv /\ OrderInv /\ [Next]_scanVars => OrderInv'
  BY ScanStepOrder
<1>2. QED
  BY ScanInvariant, InitOrder, <1>1, PTL DEF Spec
-----------------------------------------------------------------------------
(***************************************************************************)
(* What the order gives.                                                   *)
(***************************************************************************)
\* layout.rs validate_otx_view: in a transaction that is not rejected an OTX is
\* appended to only where it permits it, and only behind a segment that allows it.
THEOREM ScanAuthorises == Spec => []AppendsAuthorised
<1>1. IInv /\ OrderInv => AppendsAuthorised
  <2> DEFINE view(i) == OtxViewAt(pieces[i].otx)
  <2> SUFFICES ASSUME IInv, OrderInv, NEW i \in 1..Len(pieces), pieces[i].segment > 0
               PROVE  /\ \A d \in Dim : pieces[i].span[d].count > 0
                                          => d \in view(i).append_permissions
                      /\ (i < Len(pieces) /\ pieces[i + 1].otx = pieces[i].otx)
                           => "allow_more_after" \in view(i).segments[pieces[i].segment].flags
    BY DEF AppendsAuthorised
  <2>1. /\ pieces[i].segment \in Nat /\ pieces[i].segment # 0
        /\ pieces[i].segment <= Len(view(i).segments)
        /\ Len(view(i).segments) \in Nat
    BY PieceFacts DEF OrderInv, PieceIsScope, SegmentCount
  <2>2. pieces[i].segment \in 1..Len(view(i).segments)
    BY <2>1
  <2>3. ValidOtxView(view(i))
    BY DEF OrderInv, PieceIsScope
  <2>4. ASSUME NEW d \in Dim, pieces[i].span[d].count > 0
        PROVE  d \in view(i).append_permissions
    <3>1. pieces[i].span[d].count = view(i).segments[pieces[i].segment].counts[d]
      BY <2>1 DEF OrderInv, PieceIsScope, CountsOf
    <3>2. d \in AppendedDims(view(i))
      BY <2>2, <2>4, <3>1 DEF AppendedDims
    <3>3. QED
      BY <2>3, <3>2 DEF ValidOtxView
  <2>5. ASSUME i < Len(pieces), pieces[i + 1].otx = pieces[i].otx
        PROVE  "allow_more_after" \in view(i).segments[pieces[i].segment].flags
    <3>1. i + 1 \in 1..Len(pieces) /\ i < i + 1
      BY <2>5, PieceFacts
    <3>2. Precedes(pieces[i], pieces[i + 1])
      BY <3>1 DEF OrderInv, TakenInOrder
    <3>3. pieces[i + 1].otx \in Int /\ pieces[i + 1].segment \in Int
      BY <3>1, PieceFacts
    <3>4. pieces[i].segment < pieces[i + 1].segment
      BY <2>5, <3>2, <3>3 DEF Precedes
    <3>5. pieces[i + 1].segment <= Len(view(i).segments)
      BY <2>5, <3>1 DEF OrderInv, PieceIsScope, SegmentCount
    <3>6. pieces[i].segment # Len(view(i).segments)
      BY <2>1, <3>3, <3>4, <3>5
    <3>7. QED
      BY <2>2, <2>3, <3>6 DEF ValidOtxView
  <2>6. QED
    BY <2>4, <2>5
<1>2. QED
  BY <1>1, ScanInvariant, ScanKeepsOrder, PTL

\* layout.rs finish: when the scan is complete, every scope has its piece.
LEMMA EveryScopeTaken ==
  ASSUME IInv, OrderInv, phase = "complete",
         NEW k \in 0..(Len(otx_entries) - 1), NEW s \in 0..SegmentCount(k)
  PROVE  \E i \in PiecesOf(k) : pieces[i].segment = s
<1>1. /\ pieces # <<>> /\ LastPiece.otx + 1 = Len(otx_entries)
      /\ LastPiece.segment = SegmentCount(LastPiece.otx)
  BY DEF OrderInv, AllTaken
<1>2. Len(pieces) \in 1..Len(pieces) /\ LastPiece = pieces[Len(pieces)]
  BY <1>1, PieceFacts
<1>3. LastPiece.otx \in Int /\ SegmentCount(k) \in Nat
  BY <1>2, PieceFacts
<1>4. k < LastPiece.otx \/ (k = LastPiece.otx /\ s <= LastPiece.segment)
  BY <1>1, <1>3
<1>5. \E i \in 1..Len(pieces) : pieces[i].otx = k /\ pieces[i].segment = s
  BY <1>1, <1>4 DEF OrderInv, NoneLeftOut, Reached
<1>6. QED
  BY <1>5 DEF PiecesOf

\* The bounds of the pieces in one list, and their order.
LEMMA PieceBounds ==
  ASSUME IInv, phase = "complete", NEW d \in Dim, NEW i \in 1..Len(pieces)
  PROVE  /\ pieces[i].span[d].start \in Nat /\ End(pieces[i].span[d]) \in Nat
         /\ pieces[i].span[d].start <= End(pieces[i].span[d])
         /\ StartCounts[d] <= pieces[i].span[d].start
         /\ End(pieces[i].span[d]) <= cursor[d]
<1>1. pieces[i].span[d].start \in Nat /\ pieces[i].span[d].count \in Nat
  BY PieceFacts
<1>2. StartCounts[d] <= pieces[i].span[d].start /\ End(pieces[i].span[d]) <= cursor[d]
  BY DEF IInv, CursorInv
<1>3. QED
  BY <1>1, <1>2 DEF End

\* A later piece lies behind an earlier one, and is of no earlier OTX.
LEMMA PieceOrder ==
  ASSUME IInv, OrderInv, phase = "complete", NEW d \in Dim,
         NEW i \in 1..Len(pieces), NEW j \in 1..Len(pieces), i < j
  PROVE  /\ End(pieces[i].span[d]) <= pieces[j].span[d].start
         /\ pieces[i].otx <= pieces[j].otx
<1>1. End(pieces[i].span[d]) <= pieces[j].span[d].start
  BY DEF IInv, CursorInv
<1>2. Precedes(pieces[i], pieces[j])
  BY DEF OrderInv, TakenInOrder
<1>3. pieces[i].otx \in Int /\ pieces[j].otx \in Int
  BY PieceFacts
<1>4. QED
  BY <1>1, <1>2, <1>3 DEF Precedes

\* The counts of a transaction are numbers.
LEMMA CountsNat ==
  ASSUME TypeOK, NEW d \in Dim
  PROVE  tx.counts[d] \in Nat
BY DEF TypeOK, Transaction, Counts

\* layout.rs base_ranges, append_ranges; plan.rs merge_adjacent_ranges: the
\* window between the first and the last piece of an OTX.
LEMMA MergedSpanFacts ==
  ASSUME IInv, OrderInv, phase = "complete",
         NEW k \in 0..(Len(otx_entries) - 1), NEW d \in Dim
  PROVE  \E first, last \in PiecesOf(k) :
           /\ \A i \in PiecesOf(k) : first <= i /\ i <= last
           /\ MergedSpan(k, d).start = pieces[first].span[d].start
           /\ End(MergedSpan(k, d)) = End(pieces[last].span[d])
<1> DEFINE first == CHOOSE i \in PiecesOf(k) : pieces[i].segment = 0
           last == CHOOSE i \in PiecesOf(k) : \A j \in PiecesOf(k) : j <= i
<1>1. SegmentCount(k) \in Nat
  BY PieceFacts
<1>2. first \in PiecesOf(k) /\ pieces[first].segment = 0
  BY <1>1, EveryScopeTaken
<1>3. ASSUME NEW i \in PiecesOf(k)
      PROVE  /\ i \in 1..Len(pieces) /\ pieces[i].otx = k
             /\ pieces[i].segment \in 0..SegmentCount(k)
             /\ pieces[i].span[d].start \in Nat /\ End(pieces[i].span[d]) \in Nat
  <2>1. i \in 1..Len(pieces) /\ pieces[i].otx = k
    BY DEF PiecesOf
  <2>2. pieces[i].segment \in Nat /\ pieces[i].segment <= SegmentCount(k)
    BY <2>1, PieceFacts DEF OrderInv, PieceIsScope
  <2>3. pieces[i].span[d].start \in Nat /\ End(pieces[i].span[d]) \in Nat
    BY <2>1, PieceBounds
  <2>4. pieces[i].segment \in 0..SegmentCount(k)
    BY <1>1, <2>2
  <2>5. QED
    BY <2>1, <2>3, <2>4
<1>4. ASSUME NEW i \in PiecesOf(k), NEW j \in PiecesOf(k), i < j
      PROVE  pieces[i].segment < pieces[j].segment
  <2>1. Precedes(pieces[i], pieces[j])
    BY <1>3, <1>4 DEF OrderInv, TakenInOrder
  <2>2. QED
    BY <1>1, <1>3, <2>1 DEF Precedes
<1>5. \E i \in PiecesOf(k) : \A j \in PiecesOf(k) : j <= i
  <2>1. PICK i \in PiecesOf(k) : pieces[i].segment = SegmentCount(k)
    BY <1>1, EveryScopeTaken
  <2>2. ASSUME NEW j \in PiecesOf(k)
        PROVE  j <= i
    BY <1>1, <1>3, <1>4, <2>1
  <2>3. QED
    BY <2>2
<1>6. last \in PiecesOf(k) /\ \A j \in PiecesOf(k) : j <= last
  BY <1>5
<1>7. ASSUME NEW i \in PiecesOf(k)
      PROVE  first <= i
  BY <1>1, <1>2, <1>3, <1>4
<1>8. BaseSpan(k, d) = pieces[first].span[d]
  BY DEF BaseSpan
<1>9. AppendSpan(k, d) = [start |-> End(BaseSpan(k, d)),
                         count |-> End(pieces[last].span[d]) - End(BaseSpan(k, d))]
  BY DEF AppendSpan
<1>10. /\ MergedSpan(k, d).start = pieces[first].span[d].start
       /\ MergedSpan(k, d).count =
            pieces[first].span[d].count + (End(pieces[last].span[d]) - End(pieces[first].span[d]))
  BY <1>8, <1>9 DEF MergedSpan
<1>11. pieces[first].span[d].count \in Nat /\ pieces[first].span[d].start \in Nat
  BY <1>2, <1>3, PieceFacts
<1>12. End(MergedSpan(k, d)) = End(pieces[last].span[d])
  <2> HIDE DEF first, last
  <2>1. End(pieces[last].span[d]) \in Nat
    BY <1>3, <1>6
  <2>2. QED
    BY <1>10, <1>11, <2>1 DEF End
<1>13. QED
  BY <1>2, <1>6, <1>7, <1>10, <1>12

\* plan.rs merge_adjacent_ranges: the window an OTX's message is read in holds
\* the items of that OTX's pieces and no others.
LEMMA WindowIsPieces ==
  ASSUME IInv, OrderInv, phase = "complete",
         NEW k \in 0..(Len(otx_entries) - 1), NEW d \in Dim, NEW x \in Int
  PROVE  InSpan(x, MergedSpan(k, d)) <=> \E i \in PiecesOf(k) : InSpan(x, pieces[i].span[d])
<1> DEFINE lo(i) == pieces[i].span[d].start
           hi(i) == End(pieces[i].span[d])
<1>1. PICK first \in PiecesOf(k), last \in PiecesOf(k) :
        /\ \A i \in PiecesOf(k) : first <= i /\ i <= last
        /\ MergedSpan(k, d).start = lo(first)
        /\ End(MergedSpan(k, d)) = hi(last)
  BY MergedSpanFacts
<1>2. \A i \in 1..Len(pieces) :
        /\ lo(i) \in Nat /\ hi(i) \in Nat /\ lo(i) <= hi(i)
        /\ StartCounts[d] <= lo(i) /\ hi(i) <= cursor[d]
  BY PieceBounds
<1>3. \A i, j \in 1..Len(pieces) : i < j => hi(i) <= lo(j) /\ pieces[i].otx <= pieces[j].otx
  BY PieceOrder
<1>4. \A i : i \in PiecesOf(k) <=> i \in 1..Len(pieces) /\ pieces[i].otx = k
  BY DEF PiecesOf
<1>5. \A i \in 1..Len(pieces) : InSpan(x, pieces[i].span[d]) <=> lo(i) <= x /\ x < hi(i)
  BY DEF InSpan
<1>6. InSpan(x, MergedSpan(k, d)) <=> lo(first) <= x /\ x < hi(last)
  BY <1>1 DEF InSpan
<1>7. /\ StartCounts[d] \in Nat /\ cursor[d] \in Nat
      /\ \A y \in StartCounts[d]..(cursor[d] - 1) :
           \E i \in 1..Len(pieces) : InSpan(y, pieces[i].span[d])
  BY CollectedViews DEF IInv, TypeOK, CollectorInv, CursorInv, Counts
<1>8. \A i \in 1..Len(pieces) : i \in Int /\ pieces[i].otx \in Int
  BY PieceFacts
<1> HIDE DEF lo, hi
<1>9. ASSUME NEW i \in PiecesOf(k), InSpan(x, pieces[i].span[d])
       PROVE  InSpan(x, MergedSpan(k, d))
  <2>1. first \in 1..Len(pieces) /\ last \in 1..Len(pieces) /\ i \in 1..Len(pieces)
    BY <1>4
  <2>2. first = i \/ first < i
    BY <1>1, <1>8, <2>1
  <2>3. i = last \/ i < last
    BY <1>1, <1>8, <2>1
  <2>4. lo(first) <= lo(i)
    BY <1>2, <1>3, <2>1, <2>2
  <2>5. hi(i) <= hi(last)
    BY <1>2, <1>3, <2>1, <2>3
  <2>6. lo(i) <= x /\ x < hi(i)
    BY <1>5, <1>9, <2>1
  <2>7. lo(first) <= x /\ x < hi(last)
    BY <1>2, <2>1, <2>4, <2>5, <2>6
  <2>8. QED
    BY <1>6, <2>7
<1>10. ASSUME InSpan(x, MergedSpan(k, d))
       PROVE  \E i \in PiecesOf(k) : InSpan(x, pieces[i].span[d])
  <2>1. first \in 1..Len(pieces) /\ last \in 1..Len(pieces)
    BY <1>4
  <2>2. x \in StartCounts[d]..(cursor[d] - 1)
    BY <1>2, <1>6, <1>7, <1>10, <2>1
  <2>3. PICK i \in 1..Len(pieces) : InSpan(x, pieces[i].span[d])
    BY <1>7, <2>2
  <2>4. ~(i < first)
    BY <1>2, <1>3, <1>5, <1>6, <1>10, <2>1, <2>3
  <2>5. ~(last < i)
    BY <1>2, <1>3, <1>5, <1>6, <1>10, <2>1, <2>3
  <2>6. pieces[first].otx = k /\ pieces[last].otx = k
    BY <1>4
  <2>7. pieces[i].otx <= k /\ k <= pieces[i].otx
    <3>1. i = first \/ first < i
      BY <1>8, <2>1, <2>4
    <3>2. i = last \/ i < last
      BY <1>8, <2>1, <2>5
    <3>3. QED
      BY <1>3, <1>8, <2>1, <2>6, <3>1, <3>2
  <2>8. QED
    BY <1>4, <1>8, <2>3, <2>7
<1>11. QED
  BY <1>9, <1>10

\* plan.rs merge_adjacent_ranges: so no item of a neighbour is read as this OTX's.
THEOREM ScanMerges == Spec => []MergedWindow
<1>1. IInv /\ OrderInv => MergedWindow
  <2> SUFFICES ASSUME IInv, OrderInv, phase = "complete",
                      NEW k \in 0..(Len(otx_entries) - 1), NEW d \in Dim,
                      NEW x \in 0..tx.counts[d]
               PROVE  InSpan(x, MergedSpan(k, d)) <=>
                        \E i \in PiecesOf(k) : InSpan(x, pieces[i].span[d])
    BY DEF MergedWindow
  <2>1. x \in Int
    BY CountsNat DEF IInv
  <2>2. QED
    BY <2>1, WindowIsPieces
<1>2. QED
  BY <1>1, ScanInvariant, ScanKeepsOrder, PTL
-----------------------------------------------------------------------------
(***************************************************************************)
(* What the scan promises: sums over the pieces.                           *)
(***************************************************************************)
Sizes(taken, d) == [q \in 1..Len(taken) |-> taken[q].span[d].count]

\* The rules' sum of what the first pieces took is a sum of sizes.
LEMMA TookIs ==
  ASSUME NEW taken, Len(taken) \in Nat, NEW n \in 0..Len(taken), NEW d
  PROVE  Took(taken, n, d) = SumOf(Sizes(taken, d), 1..n)
<1> DEFINE S == 1..n
           left(g, s) == IF s = {} THEN 0
                         ELSE taken[CHOOSE x \in s : TRUE].span[d].count
                                + g[s \ {CHOOSE x \in s : TRUE}]
           right(g, s) == IF s = {} THEN 0
                          ELSE Sizes(taken, d)[CHOOSE x \in s : TRUE]
                                 + g[s \ {CHOOSE x \in s : TRUE}]
           Left(g) == g = [s \in SUBSET S |-> left(g, s)]
           Right(g) == g = [s \in SUBSET S |-> right(g, s)]
<1>1. ASSUME NEW g, NEW s \in SUBSET S
      PROVE  left(g, s) = right(g, s)
  <2>1. CASE s # {}
    <3>1. (CHOOSE x \in s : TRUE) \in S
      BY <2>1
    <3>2. S \subseteq 1..Len(taken)
      OBVIOUS
    <3>3. QED
      BY <2>1, <3>1, <3>2 DEF Sizes
  <2>2. QED
    BY <2>1
<1>2. \A g : Left(g) <=> Right(g)
  <2> HIDE DEF left, right
  <2>1. QED
    BY <1>1
<1>3. Took(taken, n, d) = (CHOOSE g : Left(g))[S]
  BY DEF Took, ScanPromise!MapThenSumSet, ScanPromise!MapThenFoldSet
<1>4. SumOf(Sizes(taken, d), S) = (CHOOSE g : Right(g))[S]
  <2> HIDE DEF S
  <2>1. QED
    BY DEF SumOf, MapThenSumSet, MapThenFoldSet
<1> HIDE DEF Left, Right
<1>5. (CHOOSE g : Left(g)) = (CHOOSE g : Right(g))
  BY <1>2, Zenon
<1>6. QED
  BY <1>3, <1>4, <1>5

\* What an OTX takes of a list: its base and its append segments.
SegmentSizes(view, d) == [s \in 1..Len(view.segments) |-> view.segments[s].counts[d]]
LEMMA TakenIs ==
  ASSUME NEW view, Len(view.segments) \in Nat, NEW d
  PROVE  ScanPromise!Taken(view, d)
           = view.base[d] + SumOf(SegmentSizes(view, d), 1..Len(view.segments))
<1> DEFINE S == 1..Len(view.segments)
           left(g, s) == IF s = {} THEN 0
                         ELSE view.segments[CHOOSE x \in s : TRUE].counts[d]
                                + g[s \ {CHOOSE x \in s : TRUE}]
           right(g, s) == IF s = {} THEN 0
                          ELSE SegmentSizes(view, d)[CHOOSE x \in s : TRUE]
                                 + g[s \ {CHOOSE x \in s : TRUE}]
           Left(g) == g = [s \in SUBSET S |-> left(g, s)]
           Right(g) == g = [s \in SUBSET S |-> right(g, s)]
<1>1. ASSUME NEW g, NEW s \in SUBSET S
      PROVE  left(g, s) = right(g, s)
  <2>1. CASE s # {}
    <3>1. (CHOOSE x \in s : TRUE) \in S
      BY <2>1
    <3>2. QED
      BY <2>1, <3>1 DEF SegmentSizes
  <2>2. QED
    BY <2>1
<1>2. \A g : Left(g) <=> Right(g)
  <2> HIDE DEF left, right
  <2>1. QED
    BY <1>1
<1>3. ScanPromise!Taken(view, d) = view.base[d] + (CHOOSE g : Left(g))[S]
  BY DEF ScanPromise!Taken, ScanPromise!MapThenSumSet, ScanPromise!MapThenFoldSet
<1>4. SumOf(SegmentSizes(view, d), S) = (CHOOSE g : Right(g))[S]
  <2> HIDE DEF S
  <2>1. QED
    BY DEF SumOf, MapThenSumSet, MapThenFoldSet
<1> HIDE DEF Left, Right
<1>5. (CHOOSE g : Left(g)) = (CHOOSE g : Right(g))
  BY <1>2, Zenon
<1>6. QED
  BY <1>3, <1>4, <1>5

\* What all the OTX take of a list.
OtxAt == ScanPromise!At(tx, "otx")
FirstItem(d) == tx.witnesses[(CHOOSE s \in ScanPromise!At(tx, "otx_start") : TRUE) + 1].start[d]
OtxSizes(d) == [i \in OtxAt |-> ScanPromise!Taken(tx.witnesses[i + 1].view, d)]
LEMMA TakenByAllIs ==
  ASSUME NEW d
  PROVE  ScanPromise!TakenByAll(tx, d) = SumOf(OtxSizes(d), OtxAt)
<1> DEFINE S == OtxAt
           left(g, s) == IF s = {} THEN 0
                         ELSE ScanPromise!Taken(
                                tx.witnesses[(CHOOSE x \in s : TRUE) + 1].view, d)
                                + g[s \ {CHOOSE x \in s : TRUE}]
           right(g, s) == IF s = {} THEN 0
                          ELSE OtxSizes(d)[CHOOSE x \in s : TRUE]
                                 + g[s \ {CHOOSE x \in s : TRUE}]
           Left(g) == g = [s \in SUBSET S |-> left(g, s)]
           Right(g) == g = [s \in SUBSET S |-> right(g, s)]
<1>1. ASSUME NEW g, NEW s \in SUBSET S
      PROVE  left(g, s) = right(g, s)
  <2>1. CASE s # {}
    <3>1. (CHOOSE x \in s : TRUE) \in S
      BY <2>1
    <3>2. QED
      BY <2>1, <3>1 DEF OtxSizes
  <2>2. QED
    BY <2>1
<1>2. \A g : Left(g) <=> Right(g)
  <2> HIDE DEF left, right
  <2>1. QED
    BY <1>1
<1>3. ScanPromise!TakenByAll(tx, d) = (CHOOSE g : Left(g))[S]
  BY DEF ScanPromise!TakenByAll, ScanPromise!MapThenSumSet, ScanPromise!MapThenFoldSet, OtxAt
<1>4. SumOf(OtxSizes(d), S) = (CHOOSE g : Right(g))[S]
  <2> HIDE DEF S
  <2>1. QED
    BY DEF SumOf, MapThenSumSet, MapThenFoldSet
<1> HIDE DEF Left, Right
<1>5. (CHOOSE g : Left(g)) = (CHOOSE g : Right(g))
  BY <1>2, Zenon
<1>6. QED
  BY <1>3, <1>4, <1>5

\* A piece more leaves the sums of the pieces before it, and adds its own size.
LEMMA SizesAppended ==
  ASSUME NEW taken, Len(taken) \in Nat, NEW more, NEW d,
         Len(more) = Len(taken) + 1, \A i \in 1..Len(taken) : more[i] = taken[i],
         \A i \in 1..Len(more) : more[i].span[d].count \in Nat
  PROVE  /\ \A n \in 0..Len(taken) : SumOf(Sizes(more, d), 1..n) = SumOf(Sizes(taken, d), 1..n)
         /\ SumOf(Sizes(more, d), 1..Len(more))
              = SumOf(Sizes(taken, d), 1..Len(taken)) + more[Len(more)].span[d].count
<1> DEFINE f == Sizes(taken, d)
           g == Sizes(more, d)
           m == Len(taken)
<1>1. \A q \in 1..(m + 1) : g[q] = more[q].span[d].count /\ g[q] \in Nat
  BY DEF Sizes
<1>2. \A q \in 1..m : f[q] = g[q]
  BY DEF Sizes
<1> HIDE DEF f, g
<1>3. ASSUME NEW n \in 0..m
      PROVE  SumOf(g, 1..n) = SumOf(f, 1..n)
  <2>1. IsFiniteSet(1..n) /\ 1..n \subseteq 1..m /\ 1..n \subseteq 1..(m + 1)
    <3>1. n \in Int /\ m \in Int
      OBVIOUS
    <3>2. IsFiniteSet(1..n)
      BY <3>1, FS_Interval
    <3>3. QED
      BY <3>1, <3>2
  <2>2. \A x \in 1..n : g[x] \in Nat /\ g[x] = f[x]
    BY <1>1, <1>2, <2>1
  <2>3. QED
    BY <2>1, <2>2, SumSame
<1>4. SumOf(g, 1..(m + 1)) = SumOf(f, 1..m) + g[m + 1]
  <2> DEFINE S == 1..m
             x == m + 1
  <2>1. IsFiniteSet(S) /\ x \notin S /\ 1..(m + 1) = S \cup {x}
    <3>1. m \in Nat
      OBVIOUS
    <3>2. IsFiniteSet(S)
      BY <3>1, FS_Interval
    <3>3. QED
      BY <3>1, <3>2
  <2>2. \A y \in S \cup {x} : g[y] \in Nat
    BY <1>1, <2>1
  <2>3. SumOf(g, S) = SumOf(f, S)
    BY <1>3
  <2> HIDE DEF S, x
  <2>4. SumOf(g, S \cup {x}) = SumOf(g, S) + g[x]
    BY <2>1, <2>2, SumAdd
  <2>5. SumOf(g, S \cup {x}) = SumOf(f, S) + g[x]
    BY <2>3, <2>4
  <2>6. QED
    BY <2>1, <2>5 DEF S, x
<1>5. QED
  BY <1>1, <1>3, <1>4 DEF f, g

\* What the OTX take fits, list by list.
LEMMA FitsIs ==
  ScanPromise!Fits(tx)
    <=> \A d \in Dim : FirstItem(d) + ScanPromise!TakenByAll(tx, d) <= tx.counts[d]
BY DEF ScanPromise!Fits, FirstItem, Dim, ScanPromise!Dim

\* layout.rs take_range: a piece begins where the pieces before it end.
LEMMA TakePieceSums ==
  ASSUME IInv, CursorSums, phase = "layout",
         NEW counts \in Counts, NEW k, NEW s,
         pieces' = Append(pieces, [otx |-> k, segment |-> s, span |-> TakeRange(counts)]),
         cursor' = Advance(counts), UNCHANGED <<tx, start>>
  PROVE  CursorSums'
<1> DEFINE n == Len(pieces)
           new == [otx |-> k, segment |-> s, span |-> TakeRange(counts)]
<1>1. n \in Nat /\ cursor \in Counts /\ start # None /\ StartCounts \in Counts
  BY CollectedViews DEF IInv, TypeOK, CollectorInv
<1>2. /\ Len(pieces') = n + 1
      /\ \A i \in 1..n : pieces'[i] = pieces[i]
      /\ pieces'[n + 1] = new
  BY <1>1 DEF IInv, TypeOK
<1>3. StartCounts' = StartCounts
  BY DEF StartCounts, WitnessAt
<1>4. SUFFICES ASSUME NEW d \in Dim
               PROVE  /\ cursor'[d] = StartCounts[d] + Took(pieces', Len(pieces'), d)
                      /\ \A p \in 1..Len(pieces') :
                           pieces'[p].span[d].start = StartCounts[d] + Took(pieces', p - 1, d)
  BY <1>3 DEF CursorSums
<1>5. /\ cursor[d] = StartCounts[d] + Took(pieces, n, d)
      /\ \A p \in 1..n : pieces[p].span[d].start = StartCounts[d] + Took(pieces, p - 1, d)
  BY DEF CursorSums
<1>6. /\ cursor'[d] = cursor[d] + counts[d]
      /\ new.span[d].start = cursor[d] /\ new.span[d].count = counts[d]
      /\ cursor[d] \in Nat /\ counts[d] \in Nat /\ StartCounts[d] \in Nat
  BY <1>1 DEF Advance, TakeRange, Counts
<1>7. \A i \in 1..Len(pieces') : pieces'[i].span[d].count \in Nat
  <2>1. \A i \in 1..n : pieces[i].span[d].count \in Nat
    BY PieceFacts
  <2>2. QED
    BY <1>1, <1>2, <1>6, <2>1
<1>8. /\ \A i \in 0..n : SumOf(Sizes(pieces', d), 1..i) = SumOf(Sizes(pieces, d), 1..i)
      /\ SumOf(Sizes(pieces', d), 1..Len(pieces'))
           = SumOf(Sizes(pieces, d), 1..n) + pieces'[Len(pieces')].span[d].count
  <2> DEFINE more == pieces'
  <2>1. /\ Len(pieces) \in Nat /\ Len(more) = Len(pieces) + 1
        /\ \A i \in 1..Len(pieces) : more[i] = pieces[i]
    BY <1>1, <1>2
  <2>2. \A i \in 1..Len(more) : more[i].span[d].count \in Nat
    BY <1>7
  <2> HIDE DEF more
  <2>3. /\ \A i \in 0..Len(pieces) :
             SumOf(Sizes(more, d), 1..i) = SumOf(Sizes(pieces, d), 1..i)
        /\ SumOf(Sizes(more, d), 1..Len(more))
             = SumOf(Sizes(pieces, d), 1..Len(pieces)) + more[Len(more)].span[d].count
    <3> HIDE DEF n
    <3>1. QED
      BY ONLY <2>1, <2>2, SizesAppended
  <2>4. QED
    BY <2>3 DEF more
<1>9. ASSUME NEW i \in 0..n
      PROVE  Took(pieces, i, d) = SumOf(Sizes(pieces, d), 1..i)
  BY <1>1, TookIs
<1>10. ASSUME NEW i \in 0..(n + 1)
       PROVE  Took(pieces', i, d) = SumOf(Sizes(pieces', d), 1..i)
  <2> DEFINE more == pieces'
  <2>1. Len(more) \in Nat /\ i \in 0..Len(more)
    BY <1>1, <1>2
  <2> HIDE DEF more
  <2>2. Took(more, i, d) = SumOf(Sizes(more, d), 1..i)
    BY <2>1, TookIs
  <2>3. QED
    BY <2>2 DEF more
<1>11. \A i \in 0..n : Took(pieces', i, d) = Took(pieces, i, d)
  BY <1>1, <1>8, <1>9, <1>10
<1>12. Took(pieces, n, d) \in Nat
  <2>1. StartCounts[d] <= cursor[d]
    BY DEF IInv, CursorInv
  <2>2. Took(pieces, n, d) = SumOf(Sizes(pieces, d), 1..n)
    BY <1>1, <1>9
  <2>3. \A x \in 1..n : Sizes(pieces, d)[x] \in Nat
    BY PieceFacts DEF Sizes
  <2>4. IsFiniteSet(1..n)
    BY <1>1, FS_Interval
  <2>5. QED
    BY <2>2, <2>3, <2>4, SumFacts
<1>13. cursor'[d] = StartCounts[d] + Took(pieces', Len(pieces'), d)
  <2>1. Took(pieces', Len(pieces'), d) = SumOf(Sizes(pieces', d), 1..Len(pieces'))
    BY <1>1, <1>2, <1>10
  <2>2. Took(pieces', Len(pieces'), d) = Took(pieces, n, d) + counts[d]
    BY <1>1, <1>2, <1>6, <1>8, <1>9, <2>1
  <2>3. QED
    BY <1>5, <1>6, <1>12, <2>2
<1>14. ASSUME NEW p \in 1..Len(pieces')
       PROVE  pieces'[p].span[d].start = StartCounts[d] + Took(pieces', p - 1, d)
  <2>1. p - 1 \in 0..n /\ (p \in 1..n \/ p = n + 1)
    BY <1>1, <1>2
  <2>2. Took(pieces', p - 1, d) = Took(pieces, p - 1, d)
    BY <1>11, <2>1
  <2>3. CASE p \in 1..n
    BY <1>2, <1>5, <2>2, <2>3
  <2>4. CASE p = n + 1
    <3>1. p - 1 = n
      BY <1>1, <2>4
    <3>2. QED
      BY <1>2, <1>5, <1>6, <2>2, <2>4, <3>1
  <2>5. QED
    BY <2>1, <2>3, <2>4
<1>15. QED
  BY <1>13, <1>14

\* layout.rs validate_otx_view accepts exactly the views the rules call well-formed.
LEMMA ValidIsWellFormed ==
  ASSUME NEW view \in OtxView
  PROVE  ValidOtxView(view) <=> ScanPromise!WellFormed(view)
<1> DEFINE n == Len(view.segments)
<1>1. /\ view.base["inputs"] \in Nat
      /\ view.append_permissions \in SUBSET (Dim \cup {"reserved"})
      /\ view.segments \in Seq(SegmentView) /\ n \in Nat
  BY DEF OtxView, Counts, PermissionByte, Dim
<1>2. \A s \in 1..n : /\ view.segments[s] \in SegmentView
                      /\ view.segments[s].flags \in SUBSET (SegmentFlag \cup {"reserved"})
                      /\ \A d \in Dim : view.segments[s].counts[d] \in Nat
  <2>1. \A s \in 1..n : view.segments[s] \in SegmentView
    BY <1>1
  <2> HIDE DEF n
  <2>2. QED
    BY <2>1 DEF SegmentView, FlagByte, Counts
<1>3. view.base["inputs"] # 0 <=> view.base["inputs"] > 0
  BY <1>1
<1>4. PermissionsParse(view.append_permissions) <=> "reserved" \notin view.append_permissions
  BY <1>1 DEF PermissionsParse, Dim
<1>5. \A s \in 1..n :
        FlagsParse(view.segments[s].flags) <=> "reserved" \notin view.segments[s].flags
  BY <1>2 DEF FlagsParse, SegmentFlag
<1>6. AppendedDims(view) \subseteq view.append_permissions
        <=> \A s \in 1..n : \A d \in Dim :
              view.segments[s].counts[d] = 0 \/ d \in view.append_permissions
  BY <1>2 DEF AppendedDims
<1>7. (\A s \in 1..n : s # n => "allow_more_after" \in view.segments[s].flags)
        <=> \A s \in 1..(n - 1) : "allow_more_after" \in view.segments[s].flags
  <2>1. \A s : s \in 1..(n - 1) <=> s \in 1..n /\ s # n
    BY <1>1
  <2> HIDE DEF n
  <2>2. QED
    BY <2>1
<1>8. ScanPromise!WellFormed(view) <=>
        /\ view.base["inputs"] > 0
        /\ view.masks_fit
        /\ "reserved" \notin view.append_permissions
        /\ \A s \in 1..n : /\ "reserved" \notin view.segments[s].flags
                           /\ \A d \in Dim : \/ view.segments[s].counts[d] = 0
                                             \/ d \in view.append_permissions
        /\ \A s \in 1..(n - 1) : "allow_more_after" \in view.segments[s].flags
  BY DEF ScanPromise!WellFormed, ScanPromise!SegmentsOf, ScanPromise!Dim, Dim
<1>9. ValidOtxView(view) <=>
        /\ view.base["inputs"] # 0
        /\ PermissionsParse(view.append_permissions)
        /\ \A s \in 1..n : FlagsParse(view.segments[s].flags)
        /\ \A s \in 1..n : s # n => "allow_more_after" \in view.segments[s].flags
        /\ AppendedDims(view) \subseteq view.append_permissions
        /\ view.masks_fit
  BY DEF ValidOtxView
<1> HIDE DEF n
<1>10. QED
  BY <1>3, <1>4, <1>5, <1>6, <1>7, <1>8, <1>9

\* The rules' positions are those of the witness scan.
LEMMA PositionsAre ==
  ASSUME NEW kind
  PROVE  ScanPromise!At(tx, kind)
           = {i \in 0..(Len(tx.witnesses) - 1) : WitnessAt(i).kind = kind}
BY DEF ScanPromise!At, ScanPromise!Positions, WitnessAt

\* Once the OTX are collected they are the ones the rules see, at the positions behind
\* the OtxStart.
LEMMA CollectedAre ==
  ASSUME IInv, phase \in {"layout", "complete"}
  PROVE  /\ start \in Nat /\ Len(otx_entries) \in Nat
         /\ ScanPromise!At(tx, "otx_start") = {start}
         /\ ScanPromise!At(tx, "otx") = (start + 1)..(start + Len(otx_entries))
         /\ \A k \in 0..(Len(otx_entries) - 1) : tx.witnesses[start + k + 2].view = OtxViewAt(k)
         /\ \A d \in Dim : FirstItem(d) = StartCounts[d]
<1>1. start \in Nat /\ Len(otx_entries) \in Nat
  BY CollectedRun DEF IInv, TypeOK
<1>2. /\ ScanPromise!At(tx, "otx_start") = {start}
      /\ ScanPromise!At(tx, "otx") = (start + 1)..(start + Len(otx_entries))
  BY CollectedRun, PositionsAre
<1>3. ASSUME NEW k \in 0..(Len(otx_entries) - 1)
      PROVE  tx.witnesses[start + k + 2].view = OtxViewAt(k)
  <2>1. k + 1 \in 1..Len(otx_entries)
    BY <1>1
  <2>2. otx_entries[k + 1] = start + (k + 1)
    BY <2>1 DEF IInv, CollectorInv
  <2>3. OtxViewAt(k) = tx.witnesses[(start + (k + 1)) + 1].view
    BY <2>2 DEF OtxViewAt, WitnessAt
  <2>4. (start + (k + 1)) + 1 = start + k + 2
    BY <1>1
  <2>5. QED
    BY <2>3, <2>4
<1>4. \A d \in Dim : FirstItem(d) = StartCounts[d]
  BY <1>2 DEF FirstItem, StartCounts, WitnessAt
<1>5. QED
  BY <1>1, <1>2, <1>3, <1>4

\* layout.rs finish: when all is taken, what the pieces hold of a list is what the OTX
\* take by the rules.
ScopeCounts == [k \in 0..(Len(otx_entries) - 1) |-> SegmentCount(k)]
AllScopes == UNION {Row(k, ScopeCounts) : k \in 0..(Len(otx_entries) - 1)}
ScopeSizes(d) == [c \in AllScopes |-> CountsOf(c[1], c[2])[d]]

\* A scope of an OTX takes numbers.
LEMMA ScopeFacts ==
  ASSUME IInv
  PROVE  /\ \A k \in 0..(Len(otx_entries) - 1) :
              ScopeCounts[k] = SegmentCount(k) /\ ScopeCounts[k] \in Nat
         /\ \A k \in 0..(Len(otx_entries) - 1) : \A s \in 0..SegmentCount(k) :
              /\ <<k, s>> \in Row(k, ScopeCounts)
              /\ <<k, s>> \in AllScopes
              /\ \A d \in Dim : /\ CountsOf(k, s)[d] \in Nat
                                /\ ScopeSizes(d)[<<k, s>>] = CountsOf(k, s)[d]
<1>1. \A k \in 0..(Len(otx_entries) - 1) :
        ScopeCounts[k] = SegmentCount(k) /\ ScopeCounts[k] \in Nat
  BY PieceFacts DEF ScopeCounts
<1>2. ASSUME NEW k \in 0..(Len(otx_entries) - 1), NEW s \in 0..SegmentCount(k), NEW d \in Dim
      PROVE  CountsOf(k, s)[d] \in Nat
  <2>1. OtxViewAt(k) \in OtxView
    BY CollectedViews
  <2>2. CASE s = 0
    BY <2>1, <2>2 DEF CountsOf, OtxView, Counts
  <2>3. CASE s # 0
    <3>1. OtxViewAt(k).segments \in Seq(SegmentView)
      BY <2>1 DEF OtxView
    <3>2. s \in 1..Len(OtxViewAt(k).segments)
      BY <1>1, <2>3 DEF SegmentCount
    <3>3. OtxViewAt(k).segments[s] \in SegmentView
      BY <3>1, <3>2
    <3>4. QED
      BY <2>3, <3>3 DEF CountsOf, SegmentView, Counts
  <2>4. QED
    BY <2>2, <2>3
<1>3. ASSUME NEW k \in 0..(Len(otx_entries) - 1), NEW s \in 0..SegmentCount(k)
      PROVE  <<k, s>> \in Row(k, ScopeCounts) /\ <<k, s>> \in AllScopes
  <2>1. <<k, s>> \in Row(k, ScopeCounts)
    BY <1>1 DEF Row
  <2>2. QED
    BY <2>1 DEF AllScopes
<1>4. QED
  BY <1>1, <1>2, <1>3 DEF ScopeSizes

\* What the scopes of one OTX take is what the rules say it takes.
LEMMA RowTakes ==
  ASSUME IInv, NEW k \in 0..(Len(otx_entries) - 1), NEW d \in Dim
  PROVE  /\ RowSum(ScopeSizes(d), k, ScopeCounts) = ScanPromise!Taken(OtxViewAt(k), d)
         /\ ScanPromise!Taken(OtxViewAt(k), d) \in Nat
<1> DEFINE view == OtxViewAt(k)
           n == SegmentCount(k)
           f == [s \in 0..n |-> ScopeSizes(d)[<<k, s>>]]
           g == SegmentSizes(view, d)
<1>1. n \in Nat /\ ScopeCounts[k] = n /\ n = Len(view.segments)
  BY ScopeFacts DEF SegmentCount
<1>2. \A s \in 0..n : f[s] = CountsOf(k, s)[d] /\ f[s] \in Nat
  BY ScopeFacts
<1>3. RowSum(ScopeSizes(d), k, ScopeCounts) = SumOf(f, 0..n)
  BY <1>1 DEF RowSum
<1>4. \A s \in 1..n : g[s] = view.segments[s].counts[d] /\ s # 0
  BY <1>1 DEF SegmentSizes
<1>5. \A s \in 1..n : CountsOf(k, s)[d] = view.segments[s].counts[d]
  BY <1>4 DEF CountsOf
<1>6. CountsOf(k, 0) = view.base
  BY DEF CountsOf
<1>7. ScanPromise!Taken(view, d) = view.base[d] + SumOf(g, 1..n)
  BY <1>1, TakenIs
<1>8. \A s \in 1..n : s \in 0..n
  BY <1>1
<1>9. 0 \in 0..n
  BY <1>1
<1> HIDE DEF n, f, g, view
<1>10. SumOf(f, 0..n) = f[0] + SumOf(f, 1..n) /\ SumOf(f, 1..n) \in Nat
  BY <1>1, <1>2, SumFromZero
<1>11. SumOf(f, 1..n) = SumOf(g, 1..n)
  <2>1. IsFiniteSet(1..n)
    <3>1. 1 \in Int /\ n \in Int
      BY <1>1
    <3>2. QED
      BY <3>1, FS_Interval
  <2>2. \A x \in 1..n : f[x] \in Nat /\ f[x] = g[x]
    BY <1>2, <1>4, <1>5, <1>8
  <2>3. QED
    BY <2>1, <2>2, SumSame
<1>12. f[0] = view.base[d] /\ f[0] \in Nat
  BY <1>2, <1>6, <1>9
<1>13. /\ SumOf(f, 0..n) = ScanPromise!Taken(view, d)
       /\ ScanPromise!Taken(view, d) \in Nat
  BY <1>7, <1>10, <1>11, <1>12
<1>14. QED
  BY <1>3, <1>13 DEF view

\* Every scope of every OTX is one piece when all is taken.
LEMMA PiecesAreScopes ==
  ASSUME IInv, OrderInv, pieces # <<>>, LastPiece.otx + 1 = Len(otx_entries),
         LastPiece.segment = SegmentCount(LastPiece.otx)
  PROVE  [q \in 1..Len(pieces) |-> <<pieces[q].otx, pieces[q].segment>>]
           \in Bijection(1..Len(pieces), AllScopes)
<1> DEFINE S == 1..Len(pieces)
           b == [q \in S |-> <<pieces[q].otx, pieces[q].segment>>]
<1>1. ASSUME NEW q \in S
      PROVE  b[q] \in AllScopes
  <2>1. /\ pieces[q].otx \in 0..(Len(otx_entries) - 1) /\ pieces[q].segment \in Nat
        /\ SegmentCount(pieces[q].otx) \in Nat
    BY PieceFacts
  <2>2. pieces[q].segment \in 0..SegmentCount(pieces[q].otx)
    BY <2>1 DEF OrderInv, PieceIsScope
  <2>3. QED
    BY <2>1, <2>2, ScopeFacts
<1>2. ASSUME NEW p \in S, NEW q \in S, b[p] = b[q]
      PROVE  p = q
  <2>1. pieces[p].otx = pieces[q].otx /\ pieces[p].segment = pieces[q].segment
    BY <1>2
  <2>2. /\ pieces[p].otx \in Int /\ pieces[p].segment \in Int
        /\ pieces[q].otx \in Int /\ pieces[q].segment \in Int
        /\ p \in Int /\ q \in Int
    BY PieceFacts
  <2>3. ~(p < q) /\ ~(q < p)
    BY <2>1, <2>2 DEF OrderInv, TakenInOrder, Precedes
  <2>4. QED
    BY <2>2, <2>3
<1>3. ASSUME NEW c \in AllScopes
      PROVE  \E q \in S : b[q] = c
  <2>1. PICK k \in 0..(Len(otx_entries) - 1) : c \in Row(k, ScopeCounts)
    BY DEF AllScopes
  <2>2. PICK s \in 0..SegmentCount(k) : c = <<k, s>>
    BY <2>1, ScopeFacts DEF Row
  <2>3. /\ k \in Int /\ s \in Int /\ LastPiece.otx \in Int /\ Len(otx_entries) \in Int
        /\ SegmentCount(k) \in Nat
    <3>1. /\ Len(pieces) \in 1..Len(pieces) /\ LastPiece = pieces[Len(pieces)]
          /\ Len(otx_entries) \in Nat /\ SegmentCount(k) \in Nat
      BY PieceFacts
    <3>2. LastPiece.otx \in Int
      BY <3>1, PieceFacts
    <3>3. QED
      BY <3>1, <3>2
  <2>4. Reached(k, s)
    BY <2>3 DEF Reached
  <2>5. PICK q \in S : pieces[q].otx = k /\ pieces[q].segment = s
    BY <2>4 DEF OrderInv, NoneLeftOut
  <2>6. QED
    BY <2>2, <2>5
<1>4. b \in [S -> AllScopes]
  BY <1>1
<1> HIDE DEF S
<1>5. QED
  BY <1>2, <1>3, <1>4 DEF S, Bijection, Injection, Surjection, IsInjective

\* layout.rs finish: so what was taken of a list is what the rules say the OTX take.
LEMMA TookAll ==
  ASSUME IInv, OrderInv, phase = "layout", pieces # <<>>,
         LastPiece.otx + 1 = Len(otx_entries),
         LastPiece.segment = SegmentCount(LastPiece.otx), NEW d \in Dim
  PROVE  Took(pieces, Len(pieces), d) = ScanPromise!TakenByAll(tx, d)
<1> DEFINE K == 0..(Len(otx_entries) - 1)
           P == 1..Len(pieces)
           b == [q \in P |-> <<pieces[q].otx, pieces[q].segment>>]
           f == Sizes(pieces, d)
           g == ScopeSizes(d)
           rows == [k \in K |-> RowSum(g, k, ScopeCounts)]
           h == [k \in K |-> start + 1 + k]
           all == OtxSizes(d)
<1>1. Len(pieces) \in Nat /\ Len(otx_entries) \in Nat /\ start \in Nat
  BY CollectedAre, PieceFacts
<1>2. IsFiniteSet(P) /\ IsFiniteSet(K)
  BY <1>1, FS_Interval
<1>3. Took(pieces, Len(pieces), d) = SumOf(f, P)
  BY <1>1, TookIs
<1>4. SumOf(f, P) = SumOf(g, AllScopes)
  <2>1. \A q \in P : f[q] \in Nat /\ f[q] = g[b[q]]
    <3> SUFFICES ASSUME NEW q \in P
                 PROVE  f[q] \in Nat /\ f[q] = g[b[q]]
      OBVIOUS
    <3>1. /\ pieces[q].otx \in 0..(Len(otx_entries) - 1) /\ pieces[q].segment \in Nat
          /\ SegmentCount(pieces[q].otx) \in Nat /\ pieces[q].span[d].count \in Nat
      BY PieceFacts
    <3>2. /\ pieces[q].segment \in 0..SegmentCount(pieces[q].otx)
          /\ pieces[q].span[d].count = CountsOf(pieces[q].otx, pieces[q].segment)[d]
      BY <3>1 DEF OrderInv, PieceIsScope
    <3>3. g[<<pieces[q].otx, pieces[q].segment>>]
            = CountsOf(pieces[q].otx, pieces[q].segment)[d]
      BY <3>1, <3>2, ScopeFacts
    <3>4. f[q] = pieces[q].span[d].count
      BY DEF Sizes
    <3>5. QED
      BY <3>1, <3>2, <3>3, <3>4
  <2>2. b \in Bijection(P, AllScopes)
    BY PiecesAreScopes
  <2> HIDE DEF P, b, f, g
  <2>3. QED
    BY <1>2, <2>1, <2>2, SumRenamed
<1>5. SumOf(g, AllScopes) = SumOf(rows, K)
  <2>1. \A k \in K : ScopeCounts[k] \in Nat
    BY ScopeFacts
  <2>2. \A k \in K : \A c \in Row(k, ScopeCounts) : g[c] \in Nat
    <3> SUFFICES ASSUME NEW k \in K, NEW c \in Row(k, ScopeCounts)
                 PROVE  g[c] \in Nat
      OBVIOUS
    <3>1. PICK s \in 0..SegmentCount(k) : c = <<k, s>>
      BY ScopeFacts DEF Row
    <3>2. g[<<k, s>>] = CountsOf(k, s)[d] /\ CountsOf(k, s)[d] \in Nat
      BY ScopeFacts
    <3>3. QED
      BY <3>1, <3>2
  <2>3. AllScopes = UNION {Row(k, ScopeCounts) : k \in K}
    BY DEF AllScopes
  <2> HIDE DEF K, g
  <2>4. SumOf(g, UNION {Row(k, ScopeCounts) : k \in K})
          = SumOf([k \in K |-> RowSum(g, k, ScopeCounts)], K)
    BY <1>2, <2>1, <2>2, SumNested
  <2>5. QED
    BY <2>3, <2>4
<1>6. SumOf(rows, K) = SumOf(all, OtxAt)
  <2>1. OtxAt = (start + 1)..(start + Len(otx_entries))
    BY CollectedAre DEF OtxAt
  <2>2. h \in Bijection(K, OtxAt)
    <3>1. \A k \in K : h[k] \in OtxAt
      BY <1>1, <2>1
    <3>2. \A j, k \in K : h[j] = h[k] => j = k
      BY <1>1
    <3>3. ASSUME NEW i \in OtxAt
          PROVE  \E k \in K : h[k] = i
      <4>1. i - (start + 1) \in K
        BY <1>1, <2>1
      <4>2. h[i - (start + 1)] = i
        BY <1>1, <2>1, <4>1
      <4>3. QED
        BY <4>1, <4>2
    <3>4. h \in [K -> OtxAt]
      BY <3>1
    <3> HIDE DEF K
    <3>5. QED
      BY <3>2, <3>3, <3>4 DEF Bijection, Injection, Surjection, IsInjective
  <2>3. \A k \in K : rows[k] \in Nat /\ rows[k] = all[h[k]]
    <3> SUFFICES ASSUME NEW k \in K
                 PROVE  rows[k] \in Nat /\ rows[k] = all[h[k]]
      OBVIOUS
    <3>1. rows[k] = ScanPromise!Taken(OtxViewAt(k), d) /\ rows[k] \in Nat
      BY RowTakes
    <3>2. h[k] \in OtxAt /\ h[k] + 1 = start + k + 2
      BY <1>1, <2>1
    <3>3. all[h[k]] = ScanPromise!Taken(tx.witnesses[h[k] + 1].view, d)
      <4> HIDE DEF h
      <4>1. QED
        BY <3>2 DEF OtxSizes
    <3>4. tx.witnesses[start + k + 2].view = OtxViewAt(k)
      BY CollectedAre
    <3>5. QED
      BY <3>1, <3>2, <3>3, <3>4
  <2> HIDE DEF K, rows, h, all
  <2>4. QED
    BY <1>2, <2>2, <2>3, SumRenamed
<1>7. QED
  BY <1>3, <1>4, <1>5, <1>6, TakenByAllIs

\* layout.rs ensure_within: the cursor is inside the transaction exactly if what the
\* OTX take fits.
LEMMA FitsIsWithin ==
  ASSUME IInv, OrderInv, CursorSums, phase = "layout", pieces # <<>>,
         LastPiece.otx + 1 = Len(otx_entries),
         LastPiece.segment = SegmentCount(LastPiece.otx)
  PROVE  ScanPromise!Fits(tx) <=> WithinTransaction
<1>1. \A d \in Dim : cursor[d] = FirstItem(d) + ScanPromise!TakenByAll(tx, d)
  BY TookAll, CollectedAre DEF CursorSums
<1>2. QED
  BY <1>1, FitsIs DEF WithinTransaction

\* A transaction with a malformed witness, with an OtxStart and no OTX, with OTX not in one run,
\* is rejected; so is one with an OTX that is not well-formed and one that does not fit.
LEMMA RejectedIf ==
  ASSUME NEW t, \/ ScanPromise!At(t, "malformed") # {}
                \/ /\ ScanPromise!At(t, "otx_start") # {} \/ ScanPromise!At(t, "otx") # {}
                   /\ \/ ~ScanPromise!OneRun(t)
                      \/ \E view \in ScanPromise!Views(t) : ~ScanPromise!WellFormed(view)
                      \/ ~ScanPromise!Fits(t)
  PROVE  ScanPromise!Verdict(t) = "rejected"
BY DEF ScanPromise!Verdict

\* The rules count as the proofs do.
LEMMA SameCardinality ==
  ASSUME NEW S
  PROVE  ScanPromise!Cardinality(S) = Cardinality(S)
BY DEF ScanPromise!Cardinality, Cardinality

\* The witness being pushed is at its position among those of its kind.
LEMMA PushedAt ==
  ASSUME IInv, Scanning
  PROVE  /\ witness_count \in 0..(Len(tx.witnesses) - 1)
         /\ witness_count \in ScanPromise!At(tx, WitnessAt(witness_count).kind)
<1>1. witness_count \in Nat /\ Len(tx.witnesses) \in Nat
  BY DEF IInv, TypeOK, Transaction, witness_count
<1>2. witness_count \in 0..(Len(tx.witnesses) - 1)
  BY <1>1 DEF Scanning
<1>3. QED
  BY <1>2, PositionsAre

\* The OtxStart the collector holds is at its position.
LEMMA StartAt ==
  ASSUME IInv, start # None
  PROVE  start \in Nat /\ start < witness_count /\ start \in ScanPromise!At(tx, "otx_start")
<1>1. witness_count \in Nat /\ Len(tx.witnesses) \in Nat /\ witness_count <= Len(tx.witnesses)
  BY DEF IInv, TypeOK, Transaction, witness_count, CollectorInv
<1>2. start \in Nat /\ start < witness_count /\ WitnessAt(start).kind = "otx_start"
  BY DEF IInv, TypeOK, CollectorInv
<1>3. start \in 0..(Len(tx.witnesses) - 1)
  BY <1>1, <1>2
<1>4. QED
  BY <1>2, <1>3, PositionsAre

\* witness.rs: a malformed witness.
LEMMA PushMalformedVerdict ==
  ASSUME IInv, PushMalformed
  PROVE  ScanPromise!Verdict(tx) = "rejected"
<1>1. WitnessAt(witness_count).kind = "malformed" /\ Scanning
  BY DEF PushMalformed
<1>2. QED
  BY <1>1, PushedAt, RejectedIf

\* layout.rs push_otx_start: a second OtxStart.
LEMMA PushOtxStartVerdict ==
  ASSUME IInv, PushOtxStart, start # None
  PROVE  ScanPromise!Verdict(tx) = "rejected"
<1>1. WitnessAt(witness_count).kind = "otx_start" /\ Scanning
  BY DEF PushOtxStart
<1>2. witness_count \in ScanPromise!At(tx, "otx_start")
  BY <1>1, PushedAt
<1>3. start \in ScanPromise!At(tx, "otx_start") /\ start # witness_count
  BY StartAt
<1>4. ~ScanPromise!OneRun(tx)
  BY <1>2, <1>3 DEF ScanPromise!OneRun
<1>5. QED
  BY <1>2, <1>4, RejectedIf

\* layout.rs push_otx: an OTX that does not follow the last layout witness.
LEMMA PushOtxVerdict ==
  ASSUME IInv, PushOtx, ~FollowsLayout(witness_count)
  PROVE  ScanPromise!Verdict(tx) = "rejected"
<1> DEFINE w == witness_count
           n == Cardinality(ScanPromise!At(tx, "otx"))
<1>1. WitnessAt(w).kind = "otx" /\ Scanning /\ phase = "witnesses"
  BY DEF PushOtx, Scanning
<1>2. w \in ScanPromise!At(tx, "otx") /\ w \in Nat
  BY <1>1, PushedAt
<1>3. \A i \in 0..(w - 1) :
        /\ WitnessAt(i).kind = "otx_start" => i = start
        /\ WitnessAt(i).kind = "otx" => \E k \in 1..Len(otx_entries) : i = start + k
  BY <1>1 DEF IInv, CollectedInv
<1>4. SUFFICES ASSUME ScanPromise!OneRun(tx)
               PROVE  FALSE
  BY <1>2, RejectedIf
<1>5. PICK s \in ScanPromise!Positions(tx) :
        /\ ScanPromise!At(tx, "otx_start") = {s}
        /\ ScanPromise!At(tx, "otx") = (s + 1)..(s + n)
  BY <1>4, SameCardinality DEF ScanPromise!OneRun
<1>6. s \in Nat /\ n \in Nat /\ s < w
  <2>1. s \in Nat
    BY DEF ScanPromise!Positions
  <2>2. IsFiniteSet(0..(Len(tx.witnesses) - 1))
    BY FS_Interval DEF IInv, TypeOK, Transaction
  <2>3. ScanPromise!At(tx, "otx") \subseteq 0..(Len(tx.witnesses) - 1)
    BY PositionsAre
  <2>4. n \in Nat
    BY <2>2, <2>3, FS_Subset, FS_CardinalityType
  <2>5. QED
    BY <1>2, <1>5, <2>1, <2>4
<1>7. s = start
  <2>1. WitnessAt(s).kind = "otx_start"
    BY <1>5, PositionsAre
  <2>2. s \in 0..(w - 1)
    BY <1>2, <1>6
  <2>3. QED
    BY <1>3, <2>1, <2>2
<1>8. /\ start # None /\ Len(otx_entries) \in Nat
      /\ last_layout_witness_index = start + Len(otx_entries)
      /\ last_layout_witness_index < w /\ last_layout_witness_index # None
  BY <1>6, <1>7 DEF IInv, TypeOK, CollectorInv, None
<1>9. last_layout_witness_index + 1 < w
  BY <1>2, <1>6, <1>7, <1>8 DEF FollowsLayout
<1>10. WitnessAt(last_layout_witness_index + 1).kind = "otx"
  <2>1. last_layout_witness_index + 1 \in (s + 1)..(s + n)
    BY <1>2, <1>5, <1>6, <1>7, <1>8, <1>9
  <2>2. QED
    BY <1>5, <2>1, PositionsAre
<1>11. last_layout_witness_index + 1 \in 0..(w - 1)
  BY <1>2, <1>6, <1>7, <1>8, <1>9
<1>12. PICK k \in 1..Len(otx_entries) : last_layout_witness_index + 1 = start + k
  BY <1>3, <1>10, <1>11
<1>13. QED
  BY <1>6, <1>7, <1>8, <1>12

\* layout.rs finish: a scan that ends without an OtxStart has met no layout witness; one
\* that ends with an OtxStart alone has met no OTX.
LEMMA FinishScanVerdict ==
  ASSUME IInv, NoneMalformed, FinishScan
  PROVE  phase' # "layout" => phase' = ScanPromise!Verdict(tx)
<1>1. /\ phase = "witnesses" /\ witness_count = Len(tx.witnesses) /\ Len(tx.witnesses) \in Nat
      /\ Len(otx_entries) \in Nat
  BY DEF FinishScan, IInv, TypeOK, Transaction
<1>2. ScanPromise!At(tx, "malformed") = {}
  BY <1>1, PositionsAre DEF NoneMalformed
<1>3. \A i \in 0..(Len(tx.witnesses) - 1) :
        /\ WitnessAt(i).kind = "otx_start" => i = start
        /\ WitnessAt(i).kind = "otx" => \E k \in 1..Len(otx_entries) : i = start + k
  BY <1>1 DEF IInv, CollectedInv
<1>4. Len(otx_entries) = 0 => ScanPromise!At(tx, "otx") = {}
  BY <1>3, PositionsAre
<1>5. CASE start = None /\ phase' = "none"
  <2>1. Len(otx_entries) = 0
    BY <1>5 DEF IInv, CollectorInv
  <2>2. ScanPromise!At(tx, "otx_start") = {}
    BY <1>3, <1>5, PositionsAre DEF None
  <2>3. QED
    BY <1>2, <1>4, <1>5, <2>1, <2>2 DEF ScanPromise!Verdict
<1>6. CASE start # None /\ last_layout_witness_index = start /\ phase' = "rejected"
  <2>1. Len(otx_entries) = 0
    BY <1>1, <1>6, StartAt DEF IInv, CollectorInv
  <2>2. start \in ScanPromise!At(tx, "otx_start")
    BY <1>6, StartAt
  <2>3. ~ScanPromise!OneRun(tx)
    BY <1>4, <2>1 DEF ScanPromise!OneRun
  <2>4. QED
    BY <1>6, <2>2, <2>3, RejectedIf
<1>7. QED
  BY <1>5, <1>6 DEF FinishScan, Reject

\* layout.rs finish: an OTX that is not valid.
LEMMA TakeBaseVerdict ==
  ASSUME IInv, TakeBase, ~ValidOtxView(OtxViewAt(NextOtx))
  PROVE  ScanPromise!Verdict(tx) = "rejected"
<1> DEFINE i == start + NextOtx + 1
<1>1. /\ phase = "layout" /\ NextOtx \in 0..(Len(otx_entries) - 1)
      /\ Len(otx_entries) \in Nat /\ start \in Nat
  BY NextOtxType, CollectedAre DEF TakeBase
<1>2. i \in ScanPromise!At(tx, "otx") /\ i + 1 = start + NextOtx + 2
  BY <1>1, CollectedAre
<1>3. tx.witnesses[i + 1].view = OtxViewAt(NextOtx)
  BY <1>1, <1>2, CollectedAre
<1>4. ~ScanPromise!WellFormed(tx.witnesses[i + 1].view)
  BY <1>1, <1>3, CollectedViews, ValidIsWellFormed
<1> HIDE DEF i
<1>5. tx.witnesses[i + 1].view \in ScanPromise!Views(tx)
  BY <1>2 DEF ScanPromise!Views
<1>6. QED
  BY <1>2, <1>4, <1>5, RejectedIf

\* layout.rs finish: the loop ends with all taken, inside the transaction or not.
LEMMA FinishLayoutVerdict ==
  ASSUME IInv, OrderInv, NoneMalformed, CursorSums, FinishLayout
  PROVE  phase' = ScanPromise!Verdict(tx)
<1> DEFINE m == Len(otx_entries)
<1>1. /\ phase = "layout" /\ ~SegmentsLeft /\ NextOtx = m
      /\ m \in Nat /\ start \in Nat
  BY CollectedAre DEF FinishLayout
<1>2. /\ ScanPromise!At(tx, "otx_start") = {start}
      /\ ScanPromise!At(tx, "otx") = (start + 1)..(start + m)
  BY <1>1, CollectedAre
<1>3. CASE pieces = <<>>
  <2>1. m = 0
    BY <1>1, <1>3 DEF NextOtx
  <2>2. ScanPromise!At(tx, "otx") = {}
    BY <1>1, <1>2, <2>1
  <2>3. ~ScanPromise!OneRun(tx)
    BY <2>2 DEF ScanPromise!OneRun
  <2>4. phase' = "rejected"
    BY <1>3 DEF FinishLayout, Reject
  <2>5. QED
    BY <1>2, <2>3, <2>4, RejectedIf
<1>4. CASE pieces # <<>>
  <2>1. /\ LastPiece.otx + 1 = m /\ LastPiece.segment = SegmentCount(LastPiece.otx)
        /\ LastPiece.otx \in Nat
    BY <1>1, <1>4, AllTakenAtEnd
  <2>2. ScanPromise!Fits(tx) <=> WithinTransaction
    BY <1>1, <1>4, <2>1, FitsIsWithin
  <2>3. CASE ~WithinTransaction
    <3>1. phase' = "rejected"
      BY <2>3 DEF FinishLayout, Reject
    <3>2. QED
      BY <1>2, <2>2, <2>3, <3>1, RejectedIf
  <2>4. CASE WithinTransaction
    <3>1. phase' = "complete"
      BY <1>4, <2>4 DEF FinishLayout
    <3>2. ScanPromise!At(tx, "malformed") = {}
      BY <1>1, PositionsAre DEF NoneMalformed, IInv, CollectedInv
    <3>3. ScanPromise!OneRun(tx)
      <4>1. start \in ScanPromise!Positions(tx)
        BY <1>2 DEF ScanPromise!At
      <4>2. m \in Nat \ {0} /\ start + 1 \in (start + 1)..(start + m)
        BY <1>1, <2>1
      <4>3. ScanPromise!Cardinality((start + 1)..(start + m)) = m
        <5>1. start + 1 \in Int /\ start + m \in Int
          BY <1>1
        <5>2. Cardinality((start + 1)..(start + m))
                = IF start + 1 > start + m THEN 0 ELSE (start + m) - (start + 1) + 1
          BY <5>1, FS_Interval
        <5>3. QED
          BY <1>1, <4>2, <5>2, SameCardinality
      <4>4. QED
        BY <1>2, <4>1, <4>2, <4>3 DEF ScanPromise!OneRun
    <3>4. ASSUME NEW view \in ScanPromise!Views(tx)
          PROVE  ScanPromise!WellFormed(view)
      <4>1. PICK i \in ScanPromise!At(tx, "otx") : view = tx.witnesses[i + 1].view
        BY DEF ScanPromise!Views
      <4> DEFINE k == i - start - 1
      <4>2. k \in 0..(m - 1) /\ i + 1 = start + k + 2
        BY <1>1, <1>2
      <4>3. view = OtxViewAt(k) /\ SegmentCount(k) \in Nat
        BY <1>1, <4>1, <4>2, CollectedAre, PieceFacts
      <4>4. 0 \in 0..SegmentCount(k)
        BY <4>3
      <4>5. Reached(k, 0)
        BY <1>4, <2>1, <4>2, <4>3 DEF Reached
      <4>6. PICK q \in 1..Len(pieces) : pieces[q].otx = k
        BY <4>2, <4>4, <4>5 DEF OrderInv, NoneLeftOut
      <4>7. ValidOtxView(OtxViewAt(k))
        BY <4>6 DEF OrderInv, PieceIsScope
      <4>8. QED
        BY <4>2, <4>3, <4>7, CollectedViews, ValidIsWellFormed
    <3>5. QED
      BY <1>2, <2>2, <2>4, <3>1, <3>2, <3>3, <3>4 DEF ScanPromise!Verdict
  <2>5. QED
    BY <2>3, <2>4
<1>5. QED
  BY <1>3, <1>4

\* engine.rs build: a step that ends the scan ends it with the rules' verdict.
LEMMA DecidesAsPromised ==
  ASSUME IInv, OrderInv, NoneMalformed, CursorSums, Next, phase' \notin {"witnesses", "layout"}
  PROVE  /\ phase \in {"witnesses", "layout"}
         /\ phase' = ScanPromise!Verdict(tx)
<1>1. CASE PushMalformed
  BY <1>1, PushMalformedVerdict DEF PushMalformed, Scanning, Reject
<1>2. CASE PushTxLevel
  BY <1>2 DEF PushTxLevel, Scanning, KeepScanning
<1>3. CASE PushOtxStart
  BY <1>3, PushOtxStartVerdict DEF PushOtxStart, Scanning, KeepScanning, Reject
<1>4. CASE PushOtx
  BY <1>4, PushOtxVerdict DEF PushOtx, Scanning, KeepScanning, Reject
<1>5. CASE FinishScan
  BY <1>5, FinishScanVerdict DEF FinishScan
<1>6. CASE TakeBase
  BY <1>6, TakeBaseVerdict DEF TakeBase, KeepScanning, Reject
<1>7. CASE TakeSegment
  BY <1>7 DEF TakeSegment, KeepScanning
<1>8. CASE FinishLayout
  BY <1>8, FinishLayoutVerdict DEF FinishLayout
<1>9. QED
  BY <1>1, <1>2, <1>3, <1>4, <1>5, <1>6, <1>7, <1>8 DEF Next, Push, Finish

\* witness.rs push_witness: a malformed witness is never read and passed over.
LEMMA NoneMalformedKept ==
  ASSUME IInv, NoneMalformed, [Next]_scanVars
  PROVE  NoneMalformed'
<1>1. CASE Push
  <2>1. SUFFICES ASSUME phase' # "rejected"
                 PROVE  \A i \in 0..(witness_count' - 1) : WitnessAt(i)'.kind # "malformed"
    BY DEF NoneMalformed
  <2>2. /\ Scanning /\ RecordSummary(WitnessAt(witness_count)) /\ tx' = tx
        /\ WitnessAt(witness_count).kind # "malformed"
    BY <1>1, <2>1 DEF Push, PushMalformed, PushTxLevel, PushOtxStart, PushOtx, Reject
  <2>3. /\ \A i : WitnessAt(i)' = WitnessAt(i)
        /\ \A i \in 0..(witness_count' - 1) : i \in 0..(witness_count - 1) \/ i = witness_count
    BY <2>2, RecordFacts
  <2>4. \A i \in 0..(witness_count - 1) : WitnessAt(i).kind # "malformed"
    BY <2>2 DEF NoneMalformed, Scanning
  <2>5. QED
    BY <2>2, <2>3, <2>4
<1>2. CASE Finish \/ UNCHANGED scanVars
  <2>1. UNCHANGED <<tx, summaries>> /\ (phase' = "rejected" \/ phase # "rejected")
    BY <1>2 DEF Finish, FinishScan, TakeBase, TakeSegment, FinishLayout, scanVars, Reject
  <2>2. QED
    BY <2>1 DEF NoneMalformed, witness_count, WitnessAt
<1>3. QED
  BY <1>1, <1>2 DEF Next

\* layout.rs take_range: every piece begins where the pieces before it end.
LEMMA CursorSumsKept ==
  ASSUME IInv, OrderInv, CursorSums, [Next]_scanVars
  PROVE  CursorSums'
<1>1. CASE Push
  BY <1>1 DEF Push, PushMalformed, PushTxLevel, PushOtxStart, PushOtx, Scanning, Reject,
              KeepScanning, CursorSums
<1>2. CASE FinishScan
  <2>1. CASE phase' # "layout"
    BY <1>2, <2>1 DEF FinishScan, Reject, CursorSums
  <2>2. CASE phase' = "layout"
    <3>1. /\ start # None /\ cursor' = StartCounts /\ StartCounts' = StartCounts
          /\ pieces' = <<>> /\ Len(pieces') = 0
      BY <1>2, <2>2 DEF FinishScan, Reject, StartCounts, WitnessAt, collector, IInv, CollectorInv
    <3>2. StartCounts \in Counts
      BY <3>1, CollectedViews
    <3>3. ASSUME NEW d \in Dim
          PROVE  Took(pieces', 0, d) = 0
      <4> DEFINE taken == pieces'
      <4>1. Len(taken) = 0 /\ 0 \in 0..Len(taken) /\ 1..0 = {}
        BY <3>1
      <4> HIDE DEF taken
      <4>2. Took(taken, 0, d) = SumOf(Sizes(taken, d), {})
        BY <4>1, TookIs
      <4>3. QED
        BY <4>2, SumEmpty DEF taken
    <3>4. \A d \in Dim : cursor'[d] = StartCounts[d] + Took(pieces', 0, d)
      BY <3>1, <3>2, <3>3 DEF Counts
    <3>5. QED
      BY <3>1, <3>4 DEF CursorSums
  <2>3. QED
    BY <2>1, <2>2
<1>3. CASE TakeBase
  <2> DEFINE view == OtxViewAt(NextOtx)
  <2>1. /\ phase = "layout" /\ UNCHANGED <<tx, start>> /\ NextOtx \in 0..(Len(otx_entries) - 1)
    BY <1>3, NextOtxType, PieceFacts DEF TakeBase, collector
  <2>2. CASE phase' = "rejected"
    BY <2>2 DEF CursorSums
  <2>3. CASE phase' # "rejected"
    <3>1. /\ pieces' = Append(pieces, [otx |-> NextOtx, segment |-> 0,
                                       span |-> TakeRange(view.base)])
          /\ cursor' = Advance(view.base)
      BY <1>3, <2>3 DEF TakeBase, Reject
    <3>2. view.base \in Counts
      BY <2>1, CollectedViews DEF OtxView
    <3>3. QED
      BY <2>1, <3>1, <3>2, TakePieceSums
  <2>4. QED
    BY <2>2, <2>3
<1>4. CASE TakeSegment
  <2> DEFINE k == LastPiece.otx
             s == LastPiece.segment + 1
             counts == OtxViewAt(k).segments[s].counts
  <2>1. /\ phase = "layout" /\ UNCHANGED <<tx, start>> /\ pieces # <<>>
        /\ LastPiece.segment < SegmentCount(k)
        /\ pieces' = Append(pieces, [otx |-> k, segment |-> s, span |-> TakeRange(counts)])
        /\ cursor' = Advance(counts)
    BY <1>4 DEF TakeSegment, SegmentsLeft, SegmentCount, collector
  <2>2. Len(pieces) \in 1..Len(pieces) /\ LastPiece = pieces[Len(pieces)]
    BY <2>1, PieceFacts
  <2>3. k \in 0..(Len(otx_entries) - 1) /\ LastPiece.segment \in Nat /\ SegmentCount(k) \in Nat
    BY <2>2, PieceFacts
  <2>4. OtxViewAt(k).segments \in Seq(SegmentView) /\ s \in 1..Len(OtxViewAt(k).segments)
    BY <2>1, <2>3, CollectedViews DEF OtxView, SegmentCount
  <2>5. OtxViewAt(k).segments[s] \in SegmentView
    BY <2>4
  <2>6. counts \in Counts
    BY <2>5 DEF SegmentView
  <2> HIDE DEF counts, s, k
  <2>7. QED
    BY <2>1, <2>6, TakePieceSums
<1>5. CASE FinishLayout \/ UNCHANGED scanVars
  <2>1. /\ UNCHANGED <<tx, start, cursor, pieces>>
        /\ phase' \in {"layout", "complete"} => phase \in {"layout", "complete"}
    BY <1>5 DEF FinishLayout, scanVars, collector, layout
  <2>2. QED
    BY <2>1 DEF CursorSums, StartCounts, WitnessAt
<1>6. QED
  BY <1>1, <1>2, <1>3, <1>4, <1>5 DEF Next, Finish

\* The transaction does not change.
LEMMA TxKept ==
  ASSUME Next
  PROVE  tx' = tx
BY DEF Next, Push, Finish, PushMalformed, PushTxLevel, PushOtxStart, PushOtx, FinishScan, TakeBase,
       TakeSegment, FinishLayout

\* engine.rs build: no step of the scan breaks the invariant of the sums and the verdict.
LEMMA ScanStepSums ==
  ASSUME IInv, OrderInv, SumInv, [Next]_scanVars
  PROVE  SumInv'
<1>1. NoneMalformed' /\ CursorSums'
  BY NoneMalformedKept, CursorSumsKept DEF SumInv
<1>2. VerdictGiven'
  <2>1. CASE Next
    <3>1. phase' \notin {"witnesses", "layout"} => phase' = ScanPromise!Verdict(tx)
      BY <2>1, DecidesAsPromised DEF SumInv
    <3>2. QED
      BY <2>1, <3>1, TxKept DEF VerdictGiven
  <2>2. CASE UNCHANGED scanVars
    BY <2>2 DEF SumInv, VerdictGiven, scanVars
  <2>3. QED
    BY <2>1, <2>2
<1>3. QED
  BY <1>1, <1>2 DEF SumInv

\* layout.rs take_range, finish: every piece begins where the pieces before it end, and a
\* scan that has ended has given the rules' verdict.
THEOREM ScanSumInvariant == Spec => []SumInv
<1>1. Init => SumInv
  BY DEF Init, SumInv, NoneMalformed, CursorSums, VerdictGiven, witness_count
<1>2. IInv /\ OrderInv /\ SumInv /\ [Next]_scanVars => SumInv'
  BY ScanStepSums
<1>3. QED
  BY ScanInvariant, ScanKeepsOrder, <1>1, <1>2, PTL DEF Spec

\* engine.rs build: the scan, with its collector, cursor and loops, gives every transaction
\* the verdict of the rules, in one step of theirs, and never another.
THEOREM ScanKeepsPromise == Spec => ImplementsScanRules
<1>1. Init => ScanPromise!Init
  BY TransactionsAssumption
     DEF Init, ScanPromise!Init, ScanPromise!Transaction, Transaction,
         ScanPromise!Counts, Counts, ScanPromise!Dim, Dim, ScanPromise!TypeSlot, TypeSlot,
         ScanPromise!Witness, Witness, ScanPromise!OtxView, OtxView,
         ScanPromise!SegmentView, SegmentView, ScanPromise!LockSeal, LockSeal,
         ScanPromise!Message, Message, ScanPromise!Action, Action,
         ScanPromise!ScriptRole, ScriptRole, ScanPromise!PermissionByte, PermissionByte,
         ScanPromise!FlagByte, FlagByte, ScanPromise!SegmentFlag, SegmentFlag
<1> DEFINE verdict == IF phase \in {"witnesses", "layout"} THEN "pending" ELSE phase
<1>2. ASSUME IInv, OrderInv, SumInv, [Next]_scanVars
      PROVE  ScanPromise!Decide \/ UNCHANGED <<tx, verdict>>
  <2>1. CASE Next
    <3>1. tx' = tx
      BY <2>1, TxKept
    <3>2. phase \in {"witnesses", "layout"}
      BY <2>1 DEF Next, Push, Finish, PushMalformed, PushTxLevel, PushOtxStart, PushOtx, Scanning,
                  FinishScan, TakeBase, TakeSegment, FinishLayout
    <3>3. CASE phase' \in {"witnesses", "layout"}
      BY <3>1, <3>2, <3>3
    <3>4. CASE phase' \notin {"witnesses", "layout"}
      <4>1. phase' = ScanPromise!Verdict(tx)
        BY <1>2, <2>1, <3>4, DecidesAsPromised DEF SumInv
      <4>2. QED
        BY <3>1, <3>2, <3>4, <4>1 DEF ScanPromise!Decide
    <3>5. QED
      BY <3>3, <3>4
  <2>2. CASE UNCHANGED scanVars
    BY <2>2 DEF scanVars
  <2>3. QED
    BY <1>2, <2>1, <2>2
<1>3. IInv /\ OrderInv /\ SumInv /\ [Next]_scanVars => [ScanPromise!Decide]_<<tx, verdict>>
  BY <1>2
<1>4. QED
  BY ScanInvariant, ScanKeepsOrder, ScanSumInvariant, <1>1, <1>3, PTL
     DEF Spec, ImplementsScanRules, ScanPromise!Spec
=============================================================================
