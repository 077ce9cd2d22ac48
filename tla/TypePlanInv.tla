---------------------------- MODULE TypePlanInv ----------------------------
(***************************************************************************)
(* The inductive invariant behind TypePlan's safety properties.            *)
(***************************************************************************)
EXTENDS TypePlan, OtxScanInv

\* Planning starts when the scan is over, with the first OTX, and leaves the loop
\* when all are visited.
ProgressInv ==
  /\ stage \notin {"scan", "rejected"} => Scanned
  /\ stage = "scan" \/ phase = "none" => otx_index = 0
  /\ stage \in {"tx_level", "planned"} /\ phase = "complete" => otx_index = Len(otx_entries)

\* The messages read so far passed their checks.
CheckedInv ==
  stage # "rejected" =>
    /\ phase = "complete" => \A k \in 0..(otx_index - 1) : OtxError(k) = "none"
    /\ stage = "planned" => TxLevelError = "none"

\* What is related so far is what the visited OTX, and then the tx-level message,
\* address to the type script; nothing while the scan runs.
RelatedInv ==
  stage # "rejected" =>
    /\ stage = "scan" => related_actions = {}
    /\ \A related \in related_actions :
         \/ \E k \in 0..(otx_index - 1) : phase = "complete" /\ related \in OtxRelated(k)
         \/ stage = "planned" /\ SighashAlls # {} /\ related \in TxRelated
    /\ phase = "complete" => \A k \in 0..(otx_index - 1) : OtxRelated(k) \subseteq related_actions
    /\ stage = "planned" /\ SighashAlls # {} => TxRelated \subseteq related_actions

PlanIInv == /\ IInv /\ OrderInv
            /\ PlanTypeOK /\ ProgressInv /\ CheckedInv /\ RelatedInv
=============================================================================
