----------------------------- MODULE OtxScanInv -----------------------------
(***************************************************************************)
(* The inductive invariants behind OtxScan's Tiling and OtxRun.            *)
(***************************************************************************)
EXTENDS OtxScan

\* While witnesses are pushed nothing is taken; the summaries are one per
\* witness read, and what the collector holds are positions read.
CollectorInv ==
  /\ witness_count <= Len(tx.witnesses)
  /\ \A i \in 0..(witness_count - 1) : summaries[i + 1] = Summary(WitnessAt(i))
  /\ phase = "witnesses" => pieces = <<>>
  /\ start = None <=> last_layout_witness_index = None
  /\ start # None =>
       /\ start < witness_count
       /\ WitnessAt(start).kind = "otx_start"
       /\ last_layout_witness_index = start + Len(otx_entries)
       /\ last_layout_witness_index < witness_count
  /\ start = None => otx_entries = <<>>
  /\ \A k \in 1..Len(otx_entries) :
       /\ otx_entries[k] = start + k
       /\ WitnessAt(otx_entries[k]).kind = "otx"
  /\ phase \in {"layout", "complete"} => start # None
  /\ phase = "none" => start = None

\* Unless it was rejected, the collector has every OTX layout read so far.
CollectedInv ==
  /\ phase # "rejected" =>
       \A i \in 0..(witness_count - 1) :
         /\ WitnessAt(i).kind = "otx_start" => i = start
         /\ WitnessAt(i).kind = "otx" => \E k \in 1..Len(otx_entries) : i = start + k
  /\ phase \notin {"witnesses", "rejected"} => witness_count = Len(tx.witnesses)

\* The pieces taken so far tile what lies between the OtxStart position and the
\* cursor, in each list.
CursorInv ==
  /\ pieces # <<>> => start # None
  /\ \A i \in 1..Len(pieces) : pieces[i].otx < Len(otx_entries)
  /\ phase \in {"layout", "complete"} =>
       \A d \in Dim :
         /\ StartCounts[d] <= cursor[d]
         /\ \A i \in 1..Len(pieces) :
              /\ StartCounts[d] <= pieces[i].span[d].start
              /\ End(pieces[i].span[d]) <= cursor[d]
         /\ \A i, j \in 1..Len(pieces) :
              i < j => End(pieces[i].span[d]) <= pieces[j].span[d].start
         /\ \A x \in StartCounts[d]..(cursor[d] - 1) :
              \E i \in 1..Len(pieces) : InSpan(x, pieces[i].span[d])
  /\ phase = "complete" => WithinTransaction

\* Pieces are taken scope by scope: the base of an OTX, its append segments, the
\* next OTX.  Each is of an OTX that was found valid and as long as its view says,
\* and none of the scopes up to the last piece's is left out.
SegmentCount(k) == Len(OtxViewAt(k).segments)
CountsOf(k, s) == IF s = 0 THEN OtxViewAt(k).base ELSE OtxViewAt(k).segments[s].counts
Precedes(p, q) == p.otx < q.otx \/ (p.otx = q.otx /\ p.segment < q.segment)
Reached(k, s) ==
  /\ pieces # <<>>
  /\ k < LastPiece.otx \/ (k = LastPiece.otx /\ s <= LastPiece.segment)

PieceIsScope ==
  \A i \in 1..Len(pieces) :
    /\ pieces[i].segment <= SegmentCount(pieces[i].otx)
    /\ ValidOtxView(OtxViewAt(pieces[i].otx))
    /\ \A d \in Dim :
         pieces[i].span[d].count = CountsOf(pieces[i].otx, pieces[i].segment)[d]

TakenInOrder == \A i, j \in 1..Len(pieces) : i < j => Precedes(pieces[i], pieces[j])

NoneLeftOut ==
  \A k \in 0..(Len(otx_entries) - 1) : \A s \in 0..SegmentCount(k) :
    Reached(k, s) => \E i \in 1..Len(pieces) : pieces[i].otx = k /\ pieces[i].segment = s

AllTaken ==
  phase = "complete" =>
    /\ pieces # <<>>
    /\ LastPiece.otx + 1 = Len(otx_entries)
    /\ LastPiece.segment = SegmentCount(LastPiece.otx)

OtxIsCobuild == start # None => has_cobuild_witness_layout

OrderInv == PieceIsScope /\ TakenInOrder /\ NoneLeftOut /\ AllTaken /\ OtxIsCobuild

IInv == TypeOK /\ CollectorInv /\ CollectedInv /\ CursorInv
-----------------------------------------------------------------------------
(***************************************************************************)
(* The inductive invariant behind ImplementsScanRules.                     *)
(***************************************************************************)
\* A scan that goes on has read no malformed witness.
NoneMalformed ==
  phase # "rejected" => \A i \in 0..(witness_count - 1) : WitnessAt(i).kind # "malformed"

\* A piece begins where the OtxStart says plus what the pieces before it took; so does
\* what is free.
Took(taken, n, d) == ScanPromise!MapThenSumSet(LAMBDA q : taken[q].span[d].count, 1..n)
CursorSums ==
  phase \in {"layout", "complete"} => \A d \in Dim :
    /\ cursor[d] = StartCounts[d] + Took(pieces, Len(pieces), d)
    /\ \A p \in 1..Len(pieces) : pieces[p].span[d].start = StartCounts[d] + Took(pieces, p - 1, d)

\* A scan that ends gives the rules' verdict.
VerdictGiven == phase \notin {"witnesses", "layout"} => phase = ScanPromise!Verdict(tx)

SumInv == NoneMalformed /\ CursorSums /\ VerdictGiven
=============================================================================
