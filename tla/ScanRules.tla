----------------------------- MODULE ScanRules -----------------------------
(***************************************************************************)
(* What the witness scan promises, in one step: the verdict on a           *)
(* transaction is a condition on its witnesses and counts alone.  OtxScan  *)
(* reaches it with a collector, a cursor and three loops.                  *)
(***************************************************************************)
EXTENDS CobuildTx, FiniteSetsExt

VARIABLES tx, verdict

Positions(t) == 0..(Len(t.witnesses) - 1)
At(t, kind) == {i \in Positions(t) : t.witnesses[i + 1].kind = kind}
Views(t) == {t.witnesses[i + 1].view : i \in At(t, "otx")}

\* One OtxStart, and the OTX witnesses are one run that begins right after it.
OneRun(t) ==
  \E s \in Positions(t) :
    /\ At(t, "otx_start") = {s}
    /\ At(t, "otx") # {}
    /\ At(t, "otx") = (s + 1)..(s + Cardinality(At(t, "otx")))

SegmentsOf(view) == {view.segments[s] : s \in 1..Len(view.segments)}

\* A base that spends something; known flags only; appends only where the base
\* permits them; every segment but the last leaves room for the next.
WellFormed(view) ==
  /\ view.base["inputs"] > 0
  /\ view.masks_fit
  /\ "reserved" \notin view.append_permissions
  /\ \A segment \in SegmentsOf(view) :
       /\ "reserved" \notin segment.flags
       /\ \A d \in Dim : segment.counts[d] = 0 \/ d \in view.append_permissions
  /\ \A s \in 1..(Len(view.segments) - 1) :
       "allow_more_after" \in view.segments[s].flags

Taken(view, d) ==
  view.base[d] + MapThenSumSet(LAMBDA s : view.segments[s].counts[d],
                               1..Len(view.segments))

TakenByAll(t, d) ==
  MapThenSumSet(LAMBDA i : Taken(t.witnesses[i + 1].view, d), At(t, "otx"))

\* What the OTX take, on top of where the OtxStart begins, is in the transaction.
Fits(t) ==
  LET first == t.witnesses[(CHOOSE s \in At(t, "otx_start") : TRUE) + 1].start
  IN  \A d \in Dim : first[d] + TakenByAll(t, d) <= t.counts[d]

Verdict(t) ==
  IF At(t, "malformed") = {} /\ At(t, "otx_start") = {} /\ At(t, "otx") = {}
    THEN "none"
  ELSE IF /\ At(t, "malformed") = {}
          /\ OneRun(t)
          /\ \A view \in Views(t) : WellFormed(view)
          /\ Fits(t)
    THEN "complete"
  ELSE "rejected"

Init == tx \in Transaction /\ verdict = "pending"
Decide == verdict = "pending" /\ verdict' = Verdict(tx) /\ UNCHANGED tx

Spec == Init /\ [][Decide]_<<tx, verdict>>
=============================================================================
