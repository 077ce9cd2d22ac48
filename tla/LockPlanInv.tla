---------------------------- MODULE LockPlanInv ----------------------------
(***************************************************************************)
(* The inductive invariant behind LockPlan's safety properties.            *)
(***************************************************************************)
EXTENDS LockPlan, OtxScanInv

\* The planner has visited this piece's scope.
Past(p) == p.otx < otx_index \/ (p.otx = otx_index /\ p.segment < segment_index)

\* The group that runs has an input, and planning starts when the scan is over.
GroupInv ==
  /\ lock \in {tx.input_locks[i] : i \in 1..Len(tx.input_locks)}
  /\ stage \notin {"scan", "rejected"} => Scanned

\* The loop over the OTX starts at the first one, stays inside it and, when the
\* planner leaves it, has visited all.
PositionInv ==
  /\ stage \in {"scan", "tx_requirement", "tx_actions"} \/ phase = "none"
       => otx_index = 0 /\ segment_index = 0
  /\ otx_index <= Len(otx_entries)
  /\ segment_index > 0 =>
       /\ phase = "complete"
       /\ otx_index < Len(otx_entries)
       /\ segment_index <= SegmentCount(otx_index)
  /\ stage \in {"coverage", "verify", "accepted"} =>
       phase = "none" \/ otx_index = Len(otx_entries)

\* Every input of the group in a visited scope has that scope's requirement.
ScopesPlanned ==
  \A i \in CurrentLockInputs, p \in 1..Len(pieces) :
    Past(pieces[p]) /\ InPiece(i, p) =>
      \E r \in 1..Len(required_signatures) : ForPiece(required_signatures[r], pieces[p])

\* So have those outside all OTX, once the tx-level stage is over.
TxLevelPlanned ==
  stage \notin {"scan", "tx_requirement", "rejected"}
    /\ has_cobuild_witness_layout /\ NeedsTxLevelSignature =>
      \E r \in 1..Len(required_signatures) : ForTxLevel(required_signatures[r])

\* A requirement is there for an input of the group, in a scope visited or outside
\* all OTX.
Justified(r) ==
  \/ ForTxLevel(r) /\ Scanned /\ NeedsTxLevelSignature
  \/ \E i \in CurrentLockInputs, p \in 1..Len(pieces) :
       Past(pieces[p]) /\ InPiece(i, p) /\ ForPiece(r, pieces[p])

RequirementsInv ==
  /\ stage \in {"scan", "tx_requirement"} => required_signatures = <<>>
  /\ required_signatures # <<>> => has_cobuild_witness_layout
  /\ \A r \in 1..Len(required_signatures) : Justified(required_signatures[r])
  /\ \A r, q \in 1..Len(required_signatures) : r # q =>
       ~SameScope(required_signatures[r], required_signatures[q])

\* Verification starts when the plan is complete, and what it has passed verifies.
VerifiedInv ==
  /\ stage \notin {"verify", "accepted", "rejected"} => verified = 0
  /\ \A r \in 1..verified :
       Verifies(required_signatures[r].seal, required_signatures[r].signing_message_hash)
  /\ stage = "accepted" =>
       verified = Len(required_signatures) /\ required_signatures # <<>>

LockIInv ==
  /\ IInv /\ OrderInv
  /\ LockTypeOK /\ CoverageGuardRedundant
  /\ GroupInv /\ PositionInv
  /\ ScopesPlanned /\ TxLevelPlanned /\ RequirementsInv /\ VerifiedInv
-----------------------------------------------------------------------------
(***************************************************************************)
(* The inductive invariant behind RelatedActionsChecked.                   *)
(***************************************************************************)
\* The planner has read the tx-level message for actions; it has entered OTX k.
TxLevelRead == stage \notin {"scan", "tx_requirement", "tx_actions", "rejected"}
Entered(k) == k < otx_index \/ (k = otx_index /\ segment_index > 0)

\* The related actions are those of the messages read so far, message by message.
RelatedInv ==
  stage # "rejected" =>
    related_actions =
      (IF TxLevelRead /\ SighashAlls # {} THEN TxRelatedActions ELSE {})
        \cup UNION {OtxRelatedActions(k) :
                      k \in {n \in 0..(Len(otx_entries) - 1) : Entered(n)}}

\* A cached result is about the one tx-level message, and what it says was checked
\* holds of that message.
CacheInv ==
  /\ stage \in {"scan", "tx_requirement"} => tx_level_action_cache = NoCache
  /\ tx_level_action_cache.targets_checked => SighashAlls # {} /\ TargetsPresent(TxMessage)

\* A message read names only scripts of the transaction if the lock signs for it or
\* is addressed by it.
TxTargetsInv ==
  /\ TxLevelRead =>
       /\ ~DuplicateSighashAll
       /\ SighashAlls # {} /\ LockActions(TxMessage) # {} => TargetsPresent(TxMessage)
  /\ \A r \in Requirements :
       r.origin = "tx_level" /\ SighashAlls # {} =>
         ~DuplicateSighashAll /\ TargetsPresent(TxMessage)
OtxTargetsInv ==
  \A k \in 0..(Len(otx_entries) - 1) :
    Entered(k) /\ (NeedsSignature(k) \/ LockActions(OtxViewAt(k).message) # {}) =>
      TargetsPresent(OtxViewAt(k).message)

ActionsInv == RelatedInv /\ CacheInv /\ TxTargetsInv /\ OtxTargetsInv
-----------------------------------------------------------------------------
(***************************************************************************)
(* The inductive invariant behind ImplementsLockRules.                     *)
(***************************************************************************)
\* The transaction carries a Cobuild layout exactly if a witness read so far does.
LayoutSeen ==
  has_cobuild_witness_layout <=> \E i \in 1..Len(summaries) : IsCobuildLayout(summaries[i])

\* What the planner went past, it found no error in: the tx-level requirement, the
\* tx-level message, the OTX and the append segments.
SignsTxLevel == has_cobuild_witness_layout /\ NeedsTxLevelSignature
TxCheckedInv ==
  /\ stage \notin {"scan", "tx_requirement", "rejected"} /\ SignsTxLevel => TxLevelError = "none"
  /\ tx_level_action_cache.witness_index # None => SighashAlls # {} /\ Parses(TxMessage)
  /\ TxLevelRead /\ SighashAlls # {} => Parses(TxMessage)
OtxCheckedInv ==
  \A k \in 0..(Len(otx_entries) - 1) : Entered(k) => EnterOtxError(k) = "none"
SegmentsCheckedInv ==
  \A p \in 1..Len(pieces) :
    LET k == pieces[p].otx
        s == pieces[p].segment
    IN  Past(pieces[p]) /\ s > 0 /\ SegmentSignature(k, s) =>
          UniqueSealError(OtxViewAt(k).segments[s].seals) = "none"

\* The seals of a scope; a requirement asks for the one of the lock.
SealsAt(k, s) ==
  IF s = 0 THEN OtxViewAt(k).base_seals ELSE OtxViewAt(k).segments[s].seals
RequirementOf(k, s) == IF s = 0 THEN BaseRequirement(k) ELSE SegmentRequirement(k, s)
Asked(r) ==
  \/ SignsTxLevel /\ r = TxLevelRequirement
  \/ \E p \in 1..Len(pieces) :
       /\ Past(pieces[p]) /\ ContainsCurrentLock(pieces[p].span["inputs"])
       /\ r = RequirementOf(pieces[p].otx, pieces[p].segment)
AskedInv == \A r \in 1..Len(required_signatures) : Asked(required_signatures[r])

PlannedInv == LayoutSeen /\ TxCheckedInv /\ OtxCheckedInv /\ SegmentsCheckedInv /\ AskedInv
=============================================================================
