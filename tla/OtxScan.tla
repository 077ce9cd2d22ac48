------------------------------ MODULE OtxScan ------------------------------
(***************************************************************************)
(* The witness scan of CobuildContext::build: every witness of the         *)
(* transaction is classified in order (witness.rs, push_witness), the OTX  *)
(* layouts among them are collected (layout.rs, OtxLayoutCollector), and   *)
(* finish cuts the transaction's inputs, outputs, cell deps and header     *)
(* deps into one base piece and one piece per append segment of each OTX.  *)
(*                                                                         *)
(* The program is sequential and runs on a transaction it does not choose: *)
(* Init takes any transaction, and one step is one iteration of one of the *)
(* three loops (witnesses, OTX witnesses, append segments).                *)
(***************************************************************************)
EXTENDS CobuildTx

CONSTANT Transactions      \* the transactions the script may be run in

ASSUME TransactionsAssumption == Transactions \subseteq Transaction

VARIABLES
  tx,                      \* the transaction, fixed
  phase,                   \* where build is
  error,                   \* the CoreError a rejection returns, or "none"
  summaries,               \* WitnessScan.sighash_all_summaries
  has_cobuild_witness_layout,
  start,                   \* index of the OtxStart witness, or None
  last_layout_witness_index,
  otx_entries,             \* witness indices of the collected OTX, in order
  cursor,                  \* LayoutRangeCursor: next free item of each list
  pieces                   \* the ranges taken so far, in the order taken

scanVars == <<tx, phase, error, summaries, has_cobuild_witness_layout, start,
              last_layout_witness_index, otx_entries, cursor, pieces>>
collector == <<start, last_layout_witness_index, otx_entries>>
layout == <<cursor, pieces>>

None == -1
Phase == {"witnesses", "layout", "none", "complete", "rejected"}

WitnessAt(i) == tx.witnesses[i + 1]
witness_count == Len(summaries)

(***************************************************************************)
(* witness.rs: the summary kept of a witness, and whether it makes the     *)
(* transaction one that carries Cobuild witnesses.                         *)
(***************************************************************************)
OtherCobuildLayout == [kind |-> "other_cobuild_layout"]
Summary(w) == IF w.kind \in {"otx_start", "otx"} THEN OtherCobuildLayout ELSE w
IsCobuildLayout(summary) == summary.kind \notin {"empty", "legacy"}

(***************************************************************************)
(* layout.rs: validate_otx_view.                                           *)
(***************************************************************************)
\* Fault: only the last segment is looked at.
AppendedDims_LastOnly(view) ==
  {d \in Dim : view.segments # <<>> /\ view.segments[Len(view.segments)].counts[d] > 0}
AppendedDims(view) ==
  {d \in Dim : \E s \in 1..Len(view.segments) : view.segments[s].counts[d] > 0}

ValidOtxView(view) ==
  /\ view.base["inputs"] # 0
  /\ PermissionsParse(view.append_permissions)
  /\ \A s \in 1..Len(view.segments) :
       /\ FlagsParse(view.segments[s].flags)
       /\ s # Len(view.segments) => "allow_more_after" \in view.segments[s].flags
  /\ AppendedDims(view) \subseteq view.append_permissions
  /\ view.masks_fit

(***************************************************************************)
(* A piece is one call of take_range in each dimension: segment 0 is the   *)
(* base of OTX number otx, segment s > 0 its append segment s - 1.         *)
(***************************************************************************)
Piece == [otx : Nat, segment : Nat, span : [Dim -> Span]]

OtxViewAt(k) == WitnessAt(otx_entries[k + 1]).view

TakeRange(counts) == [d \in Dim |-> [start |-> cursor[d], count |-> counts[d]]]
\* Fault: the cursor has no position in the dep lists.
Advance_CellsOnly(counts) == [d \in {"inputs", "outputs"} |-> cursor[d] + counts[d]]
\* Fault: the outputs taken stay free.
Advance_InputsOnly(counts) ==
  [d \in Dim |-> IF d = "inputs" THEN cursor[d] + counts[d] ELSE cursor[d]]
Advance(counts) == [d \in Dim |-> cursor[d] + counts[d]]

\* Where the two nested loops of finish and take_layout are.
LastPiece == pieces[Len(pieces)]
SegmentsLeft ==
  /\ pieces # <<>>
  /\ LastPiece.segment < Len(OtxViewAt(LastPiece.otx).segments)
NextOtx == IF pieces = <<>> THEN 0 ELSE LastPiece.otx + 1
-----------------------------------------------------------------------------
Init ==
  /\ tx \in Transactions
  /\ phase = "witnesses"
  /\ error = "none"
  /\ summaries = <<>>
  /\ has_cobuild_witness_layout = FALSE
  /\ start = None
  /\ last_layout_witness_index = None
  /\ otx_entries = <<>>
  /\ cursor = [d \in Dim |-> 0]
  /\ pieces = <<>>

Reject(e) == phase' = "rejected" /\ error' = e
KeepScanning == UNCHANGED <<phase, error>>

RecordSummary(w) ==
  /\ summaries' = Append(summaries, Summary(w))
  /\ has_cobuild_witness_layout' =
       (has_cobuild_witness_layout \/ IsCobuildLayout(Summary(w)))

Scanning == phase = "witnesses" /\ witness_count < Len(tx.witnesses)

\* A witness that parses as no Cobuild layout though it carries a reserved id.
PushMalformed ==
  /\ Scanning
  /\ LET w == WitnessAt(witness_count) IN
       /\ w.kind = "malformed"
       /\ Reject(w.error)
  /\ UNCHANGED <<tx, summaries, has_cobuild_witness_layout, collector, layout>>

\* Witnesses the OTX collector ignores.
PushTxLevel ==
  /\ Scanning
  /\ LET w == WitnessAt(witness_count) IN
       /\ w.kind \in {"empty", "legacy", "sighash_all", "sighash_all_only"}
       /\ RecordSummary(w)
  /\ KeepScanning
  /\ UNCHANGED <<tx, collector, layout>>

PushOtxStart ==
  /\ Scanning
  /\ LET w == WitnessAt(witness_count) IN
       /\ w.kind = "otx_start"
       /\ RecordSummary(w)
  /\ \/ /\ start # None
        /\ Reject("InvalidOtxLayout")
        /\ UNCHANGED collector
     \/ /\ start = None
        /\ start' = witness_count
        /\ last_layout_witness_index' = witness_count
        /\ KeepScanning
        /\ UNCHANGED otx_entries
  /\ UNCHANGED <<tx, layout>>

\* Nothing may stand between the OtxStart and the OTX that follow it.
\* Fault: an OTX may come anywhere behind the OtxStart.
FollowsLayout_Anywhere(index) == last_layout_witness_index # None /\ index > 0
FollowsLayout(index) ==
  /\ last_layout_witness_index # None
  /\ last_layout_witness_index + 1 = index

PushOtx ==
  /\ Scanning
  /\ LET w == WitnessAt(witness_count) IN
       /\ w.kind = "otx"
       /\ RecordSummary(w)
  /\ \/ /\ ~FollowsLayout(witness_count)
        /\ Reject("InvalidOtxLayout")
        /\ UNCHANGED collector
     \/ /\ FollowsLayout(witness_count)
        /\ last_layout_witness_index' = witness_count
        /\ otx_entries' = Append(otx_entries, witness_count)
        /\ KeepScanning
        /\ UNCHANGED start
  /\ UNCHANGED <<tx, layout>>

\* finish, up to its loop over the collected OTX.
FinishScan ==
  /\ phase = "witnesses"
  /\ witness_count = Len(tx.witnesses)
  /\ \/ /\ start = None
        /\ phase' = "none"
        /\ UNCHANGED <<error, cursor>>
     \/ /\ start # None
        /\ last_layout_witness_index = start
        /\ Reject("InvalidOtxLayout")
        /\ UNCHANGED cursor
     \/ /\ start # None
        /\ last_layout_witness_index # start
        /\ phase' = "layout"
        /\ cursor' = WitnessAt(start).start
        /\ UNCHANGED error
  /\ UNCHANGED <<tx, summaries, has_cobuild_witness_layout, collector, pieces>>

\* One OTX of finish's loop: validate it, then take its base ranges.
TakeBase ==
  /\ phase = "layout"
  /\ ~SegmentsLeft
  /\ NextOtx < Len(otx_entries)
  /\ LET view == OtxViewAt(NextOtx) IN
       \/ /\ ~ValidOtxView(view)
          /\ Reject("InvalidOtxLayout")
          /\ UNCHANGED layout
       \/ /\ ValidOtxView(view)
          /\ pieces' = Append(pieces, [otx |-> NextOtx, segment |-> 0,
                                       span |-> TakeRange(view.base)])
          /\ cursor' = Advance(view.base)
          /\ KeepScanning
  /\ UNCHANGED <<tx, summaries, has_cobuild_witness_layout, collector>>

\* One append segment of take_layout's loop; its flags were parsed in TakeBase.
TakeSegment ==
  /\ phase = "layout"
  /\ SegmentsLeft
  /\ LET s == LastPiece.segment + 1
         counts == OtxViewAt(LastPiece.otx).segments[s].counts
     IN  /\ pieces' = Append(pieces, [otx |-> LastPiece.otx, segment |-> s,
                                      span |-> TakeRange(counts)])
         /\ cursor' = Advance(counts)
  /\ KeepScanning
  /\ UNCHANGED <<tx, summaries, has_cobuild_witness_layout, collector>>

\* The aggregate must end inside the transaction (ensure_within).
\* Fault: off by one.
WithinTransaction_OneMore == \A d \in Dim : cursor[d] <= tx.counts[d] + 1
WithinTransaction == \A d \in Dim : cursor[d] <= tx.counts[d]

FinishLayout ==
  /\ phase = "layout"
  /\ ~SegmentsLeft
  /\ NextOtx = Len(otx_entries)
  /\ \/ /\ pieces # <<>> /\ WithinTransaction
        /\ phase' = "complete"
        /\ UNCHANGED error
     \/ /\ ~(pieces # <<>> /\ WithinTransaction)
        /\ Reject("InvalidOtxLayout")
  /\ UNCHANGED <<tx, summaries, has_cobuild_witness_layout, collector, layout>>

Push == PushMalformed \/ PushTxLevel \/ PushOtxStart \/ PushOtx
Finish == FinishScan \/ TakeBase \/ TakeSegment \/ FinishLayout
Next == Push \/ Finish

Spec == Init /\ [][Next]_scanVars
-----------------------------------------------------------------------------
(***************************************************************************)
(* BuiltLayout: what a complete scan hands to the planners.                *)
(***************************************************************************)
StartCounts == WitnessAt(start).start
AggregateRange(d) == [start |-> StartCounts[d], count |-> cursor[d] - StartCounts[d]]

PiecesOf(k) == {i \in 1..Len(pieces) : pieces[i].otx = k}
BaseSpan(k, d) ==
  pieces[CHOOSE i \in PiecesOf(k) : pieces[i].segment = 0].span[d]

\* Fault: the append range ends where the last OTX ends.
AppendSpan_ToCursor(k, d) ==
  [start |-> End(BaseSpan(k, d)), count |-> cursor[d] - End(BaseSpan(k, d))]
\* OtxLayout.append_*: from the end of the base to the end of the last segment.
AppendSpan(k, d) ==
  LET first == End(BaseSpan(k, d))
      last == pieces[CHOOSE i \in PiecesOf(k) : \A j \in PiecesOf(k) : j <= i]
  IN  [start |-> first, count |-> End(last.span[d]) - first]

\* OtxMessageLayout.inputs(), outputs(), ...: base and append merged.
MergedSpan(k, d) ==
  [start |-> BaseSpan(k, d).start,
   count |-> BaseSpan(k, d).count + AppendSpan(k, d).count]
-----------------------------------------------------------------------------
(***************************************************************************)
(* Properties.                                                             *)
(***************************************************************************)
\* The values the scanner's variables range over.
TypeOK ==
  /\ tx \in Transaction
  /\ phase \in Phase
  /\ error \in {"none", "MalformedCobuild", "InvalidOtxLayout"}
  /\ summaries \in Seq(Witness \cup {OtherCobuildLayout})
  /\ has_cobuild_witness_layout \in BOOLEAN
  /\ start \in Nat \cup {None}
  /\ last_layout_witness_index \in Nat \cup {None}
  /\ otx_entries \in Seq(Nat)
  /\ cursor \in Counts
  /\ pieces \in Seq(Piece)

Scanned == phase \in {"none", "complete"}

\* layout.rs take_range: when the scan succeeds, the pieces tile the aggregate
\* range of every list: no item belongs to two pieces, a later piece lies after
\* an earlier one, every item between the OtxStart position and the end of the
\* last piece belongs to one, and the whole lies inside the transaction.
Tiling ==
  phase = "complete" =>
    \A d \in Dim :
      /\ End(AggregateRange(d)) <= tx.counts[d]
      /\ \A i, j \in 1..Len(pieces) :
           i < j => End(pieces[i].span[d]) <= pieces[j].span[d].start
      /\ \A x \in 0..tx.counts[d] :
           InSpan(x, AggregateRange(d)) <=>
             \E i \in 1..Len(pieces) : InSpan(x, pieces[i].span[d])

\* plan.rs merge_adjacent_ranges: the merged window an OTX's message is read in
\* is made of exactly that OTX's pieces, so no item of a neighbour is in it.
MergedWindow ==
  phase = "complete" =>
    \A k \in 0..(Len(otx_entries) - 1), d \in Dim :
      \A x \in 0..tx.counts[d] :
        InSpan(x, MergedSpan(k, d)) <=> \E i \in PiecesOf(k) : InSpan(x, pieces[i].span[d])

\* layout.rs push_otx_start, push_otx: a scan that succeeds has seen at most one
\* OtxStart, and its OTX witnesses are all the OTX witnesses of the transaction
\* and stand right behind the OtxStart, in witness order.
OtxRun ==
  Scanned =>
    LET at(kind) == {i \in 0..(Len(tx.witnesses) - 1) : WitnessAt(i).kind = kind}
    IN  /\ at("otx_start") = IF phase = "none" THEN {} ELSE {start}
        /\ at("otx") = (start + 1)..(start + Len(otx_entries))
        /\ \A k \in 1..Len(otx_entries) : otx_entries[k] = start + k

\* layout.rs validate_otx_view: in a transaction that is not rejected, items are
\* appended only to the lists the OTX's permissions open, and only a segment
\* that allows more segments after it is followed by another one.
AppendsAuthorised ==
  phase = "complete" =>
    \A i \in 1..Len(pieces) : pieces[i].segment > 0 =>
      LET p == pieces[i]
          view == OtxViewAt(p.otx)
      IN  /\ \A d \in Dim : p.span[d].count > 0 => d \in view.append_permissions
          /\ (i < Len(pieces) /\ pieces[i + 1].otx = p.otx)
               => "allow_more_after" \in view.segments[p.segment].flags
-----------------------------------------------------------------------------
(***************************************************************************)
(* OtxScan implements ScanRules.                                           *)
(***************************************************************************)
ScanPromise == INSTANCE ScanRules
  WITH verdict <- IF phase \in {"witnesses", "layout"} THEN "pending" ELSE phase

\* engine.rs build: the scan, with its collector, cursor and loops, ends with
\* the verdict the rules give to the transaction, and never changes it.
ImplementsScanRules == ScanPromise!Spec
=============================================================================
