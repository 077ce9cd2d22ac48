--------------------------- MODULE LockPlanProofs ---------------------------
(***************************************************************************)
(* Proofs about LockPlan: what the lock script accepts is signed for, and  *)
(* it plans and accepts what LockRules does.                               *)
(***************************************************************************)
EXTENDS LockPlanInv, ScriptContextProofs
-----------------------------------------------------------------------------
(***************************************************************************)
(* The scopes, the pieces and the inputs of the group.                     *)
(***************************************************************************)
\* context.rs push_input_lock_hash: a group that runs has an input, hence a first
\* one, which carries its tx-level witness.
LEMMA GroupFacts ==
  ASSUME TypeOK, GroupInv
  PROVE  /\ CurrentLockInputs # {} /\ CurrentLockInputs \subseteq Nat
         /\ Carrier \in CurrentLockInputs
<1>1. Len(tx.input_locks) \in Nat
  BY DEF TypeOK, Transaction
<1>2. PICK i \in 1..Len(tx.input_locks) : tx.input_locks[i] = lock
  BY DEF GroupInv
<1>3. i - 1 \in 0..(Len(tx.input_locks) - 1) /\ (i - 1) + 1 = i
  BY <1>1, <1>2
<1>4. i - 1 \in CurrentLockInputs
  BY <1>2, <1>3 DEF CurrentLockInputs
<1>5. CurrentLockInputs \subseteq Nat
  BY <1>1 DEF CurrentLockInputs
<1>6. \E j \in CurrentLockInputs : \A m \in CurrentLockInputs : j <= m
  BY <1>4, <1>5, LeastNatural
<1>7. Carrier \in CurrentLockInputs
  BY <1>6 DEF Carrier
<1>8. QED
  BY <1>4, <1>5, <1>7

\* layout.rs: a scope has one piece.
LEMMA PieceUnique ==
  ASSUME IInv, OrderInv, NEW p \in 1..Len(pieces), NEW q \in 1..Len(pieces),
         pieces[p].otx = pieces[q].otx, pieces[p].segment = pieces[q].segment
  PROVE  p = q
<1>1. /\ p \in Int /\ q \in Int
      /\ pieces[p].otx \in Int /\ pieces[p].segment \in Int
  BY PieceFacts
<1>2. ~Precedes(pieces[p], pieces[q]) /\ ~Precedes(pieces[q], pieces[p])
  BY <1>1 DEF Precedes
<1>3. ~(p < q) /\ ~(q < p)
  BY <1>2 DEF OrderInv, TakenInOrder
<1>4. QED
  BY <1>1, <1>3

\* The input range of a piece's scope is that piece's.
LEMMA InputSpanOfPiece ==
  ASSUME IInv, OrderInv, NEW p \in 1..Len(pieces)
  PROVE  InputSpan(pieces[p].otx, pieces[p].segment) = pieces[p].span["inputs"]
<1> DEFINE k == pieces[p].otx
           s == pieces[p].segment
           q == CHOOSE i \in 1..Len(pieces) : pieces[i].otx = k /\ pieces[i].segment = s
<1>1. q \in 1..Len(pieces) /\ pieces[q].otx = k /\ pieces[q].segment = s
  OBVIOUS
<1>2. q = p
  BY <1>1, PieceUnique
<1>3. QED
  BY <1>2 DEF InputSpan

\* context.rs input_range_contains_current_lock, of a scope: its piece holds an
\* input of the group.
LEMMA ScopeHoldsInput ==
  ASSUME IInv, OrderInv, phase = "complete",
         NEW k \in 0..(Len(otx_entries) - 1), NEW s \in 0..SegmentCount(k)
  PROVE  \E p \in 1..Len(pieces) :
           /\ pieces[p].otx = k /\ pieces[p].segment = s
           /\ ContainsCurrentLock(InputSpan(k, s)) <=>
                \E i \in CurrentLockInputs : InPiece(i, p)
<1>1. PICK p \in PiecesOf(k) : pieces[p].segment = s
  BY EveryScopeTaken
<1>2. p \in 1..Len(pieces) /\ pieces[p].otx = k
  BY DEF PiecesOf
<1>3. InputSpan(k, s) = pieces[p].span["inputs"]
  BY <1>1, <1>2, InputSpanOfPiece
<1>4. QED
  BY <1>1, <1>2, <1>3 DEF ContainsCurrentLock, InPiece

\* engine.rs current_lock_needs_tx_level_signature: it is needed exactly when an
\* input of the group lies in no OTX.
LEMMA OutsideRange ==
  ASSUME IInv, phase = "complete", NEW i \in Nat
  PROVE  InSpan(i, InputRange) <=> \E p \in 1..Len(pieces) : InPiece(i, p)
BY AggregateIsPieces DEF InputRange, InPiece, Dim

(***************************************************************************)
(* Steps that leave the scan as it is.                                     *)
(***************************************************************************)
LEMMA ScanKept ==
  ASSUME UNCHANGED <<scanVars, lock>>
  PROVE  /\ IInv /\ OrderInv => IInv' /\ OrderInv'
         /\ CurrentLockInputs' = CurrentLockInputs
         /\ Scanned' <=> Scanned
         /\ NeedsTxLevelSignature' <=> NeedsTxLevelSignature
         /\ \A r : ForTxLevel(r)' <=> ForTxLevel(r)
         /\ \A r, p : ForPiece(r, p)' <=> ForPiece(r, p)
         /\ \A i, p : InPiece(i, p)' <=> InPiece(i, p)
         /\ \A k : SegmentCount(k)' = SegmentCount(k)
<1>1. /\ tx' = tx /\ phase' = phase /\ summaries' = summaries /\ start' = start
      /\ otx_entries' = otx_entries /\ cursor' = cursor /\ pieces' = pieces /\ lock' = lock
      /\ has_cobuild_witness_layout' = has_cobuild_witness_layout
  BY DEF scanVars
<1>2. IInv /\ OrderInv => IInv' /\ OrderInv'
  BY ScanStepInv, ScanStepOrder
<1>3. CurrentLockInputs' = CurrentLockInputs
  BY <1>1 DEF CurrentLockInputs
<1>4. NeedsTxLevelSignature' <=> NeedsTxLevelSignature
  BY <1>1, <1>3 DEF NeedsTxLevelSignature, InputRange, AggregateRange, StartCounts, WitnessAt
<1>5. \A r : ForTxLevel(r)' <=> ForTxLevel(r)
  BY <1>1 DEF ForTxLevel, SighashAlls, SummaryKind, TxMessage, MessageIndex
<1>6. \A r, p : ForPiece(r, p)' <=> ForPiece(r, p)
  <2>1. \A k : OtxViewAt(k)' = OtxViewAt(k)
    BY <1>1 DEF OtxViewAt, WitnessAt
  <2> QED
    BY <1>1, <2>1 DEF ForPiece
<1>7. \A i, p : InPiece(i, p)' <=> InPiece(i, p)
  BY <1>1 DEF InPiece
<1>8. \A k : SegmentCount(k)' = SegmentCount(k)
  BY <1>1 DEF SegmentCount, OtxViewAt, WitnessAt
<1>9. Scanned' <=> Scanned
  BY <1>1 DEF Scanned
<1>10. QED
  BY <1>2, <1>3, <1>4, <1>5, <1>6, <1>7, <1>8, <1>9
-----------------------------------------------------------------------------
(***************************************************************************)
(* One lemma per action.                                                   *)
(***************************************************************************)
LEMMA LockInitInv == LockInit => LockIInv
<1> SUFFICES ASSUME LockInit PROVE LockIInv
  OBVIOUS
<1>1. IInv /\ OrderInv
  BY InitInv, InitOrder DEF LockInit
<1>2. /\ tx.input_locks \in Seq(Script)
      /\ Len(otx_entries) \in Nat
      /\ pieces = <<>>
  BY <1>1 DEF IInv, TypeOK, Transaction, LockInit, Init
<1>3. /\ lock \in {tx.input_locks[i] : i \in 1..Len(tx.input_locks)}
      /\ stage = "scan" /\ lock_error = "none" /\ required_signatures = <<>>
      /\ related_actions = {} /\ tx_level_action_cache = NoCache
      /\ otx_index = 0 /\ segment_index = 0 /\ verified = 0
  BY DEF LockInit, InitLock
<1>4. LockTypeOK /\ CoverageGuardRedundant
  BY <1>2, <1>3 DEF LockTypeOK, CoverageGuardRedundant, Stage, LockError, NoCache, None
<1>5. GroupInv /\ PositionInv
  BY <1>2, <1>3 DEF GroupInv, PositionInv
<1>6. ScopesPlanned /\ TxLevelPlanned
  BY <1>2, <1>3 DEF ScopesPlanned, TxLevelPlanned
<1>7. RequirementsInv /\ VerifiedInv
  BY <1>3 DEF RequirementsInv, VerifiedInv
<1>8. QED
  BY <1>1, <1>4, <1>5, <1>6, <1>7 DEF LockIInv

\* engine.rs build: while the scan runs nothing is planned.
LEMMA ScanStepLockInv ==
  ASSUME LockIInv, ScanStep
  PROVE  LockIInv'
<1>1. /\ stage = "scan" /\ stage' = "scan" /\ Next
      /\ UNCHANGED <<lock, lock_error, required_signatures, related_actions,
                     tx_level_action_cache, otx_index, segment_index, verified>>
  BY DEF ScanStep, lockVars, plan, position
<1>2. IInv' /\ OrderInv'
  BY <1>1, ScanStepInv, ScanStepOrder DEF LockIInv
<1>3. LockTypeOK' /\ CoverageGuardRedundant'
  BY <1>1 DEF LockIInv, LockTypeOK, CoverageGuardRedundant
<1>4. tx' = tx
  BY <1>1 DEF Next, Push, Finish, PushMalformed, PushTxLevel, PushOtxStart, PushOtx, FinishScan,
              TakeBase, TakeSegment, FinishLayout
<1>5. GroupInv'
  BY <1>1, <1>4 DEF LockIInv, GroupInv
<1>6. otx_index' = 0 /\ segment_index' = 0 /\ required_signatures' = <<>> /\ verified' = 0
  BY <1>1 DEF LockIInv, PositionInv, RequirementsInv, VerifiedInv
<1>7. /\ Len(otx_entries') \in Nat
      /\ \A p \in 1..Len(pieces') : pieces'[p].otx \in Nat /\ pieces'[p].segment \in Nat
  <2>1. pieces' \in Seq(Piece) /\ otx_entries' \in Seq(Nat)
    BY <1>2 DEF IInv, TypeOK
  <2>2. \A p \in 1..Len(pieces') : pieces'[p] \in Piece
    BY ONLY <2>1
  <2>3. QED
    BY <2>1, <2>2 DEF Piece
<1>8. PositionInv'
  BY <1>1, <1>6, <1>7 DEF PositionInv
<1>9. ScopesPlanned'
  BY <1>6, <1>7 DEF ScopesPlanned, Past
<1>10. TxLevelPlanned' /\ RequirementsInv' /\ VerifiedInv'
  BY <1>1, <1>6 DEF TxLevelPlanned, RequirementsInv, VerifiedInv
<1>11. QED
  BY <1>2, <1>3, <1>5, <1>8, <1>9, <1>10 DEF LockIInv

\* A step that plans nothing and does not move in the loops over the OTX.
LEMMA PlanKept ==
  ASSUME LockIInv, UNCHANGED <<scanVars, lock, required_signatures, otx_index, segment_index>>
  PROVE  /\ IInv' /\ OrderInv'
         /\ GroupInv' <=> (stage' \notin {"scan", "rejected"} => Scanned)
         /\ ScopesPlanned'
         /\ (stage' \in {"scan", "tx_requirement"} => required_signatures = <<>>)
               => RequirementsInv'
         /\ TxLevelPlanned' <=>
              (stage' \notin {"scan", "tx_requirement", "rejected"}
                 /\ has_cobuild_witness_layout /\ NeedsTxLevelSignature =>
                   \E r \in 1..Len(required_signatures) : ForTxLevel(required_signatures[r]))
<1>1. /\ tx' = tx /\ lock' = lock /\ pieces' = pieces
      /\ required_signatures' = required_signatures
      /\ otx_index' = otx_index /\ segment_index' = segment_index
      /\ has_cobuild_witness_layout' = has_cobuild_witness_layout
  BY DEF scanVars
<1>2. IInv' /\ OrderInv'
  BY ScanKept DEF LockIInv
<1>3. GroupInv' <=> (stage' \notin {"scan", "rejected"} => Scanned)
  BY <1>1, ScanKept DEF LockIInv, GroupInv
<1>4. \A p : Past(p)' <=> Past(p)
  BY <1>1 DEF Past
<1>5. ScopesPlanned'
  BY <1>1, <1>4, ScanKept DEF LockIInv, ScopesPlanned
<1>6. \A r : Justified(r) => Justified(r)'
  BY <1>1, <1>4, ScanKept DEF Justified
<1>7. (stage' \in {"scan", "tx_requirement"} => required_signatures = <<>>) => RequirementsInv'
  BY <1>1, <1>6 DEF LockIInv, RequirementsInv
<1>8. TxLevelPlanned' <=>
        (stage' \notin {"scan", "tx_requirement", "rejected"}
           /\ has_cobuild_witness_layout /\ NeedsTxLevelSignature =>
             \E r \in 1..Len(required_signatures) : ForTxLevel(required_signatures[r]))
  BY <1>1, ScanKept DEF TxLevelPlanned
<1>9. QED
  BY <1>2, <1>3, <1>5, <1>7, <1>8

\* engine.rs build: the planner starts with an empty plan, or not at all.
LEMMA BeginPlanInv ==
  ASSUME LockIInv, BeginPlan
  PROVE  LockIInv'
<1>1. /\ stage = "scan"
      /\ UNCHANGED <<scanVars, lock, required_signatures, related_actions,
                     tx_level_action_cache, otx_index, segment_index, verified>>
      /\ \/ stage' = "tx_requirement" /\ lock_error' = lock_error /\ Scanned
         \/ stage' = "rejected" /\ lock_error' = error
  BY DEF BeginPlan, plan, position, LockFails, Scanned
<1>2. required_signatures = <<>> /\ otx_index = 0 /\ segment_index = 0 /\ verified = 0
  BY <1>1 DEF LockIInv, RequirementsInv, PositionInv, VerifiedInv
<1>3. /\ IInv' /\ OrderInv' /\ GroupInv' /\ ScopesPlanned' /\ RequirementsInv' /\ TxLevelPlanned'
  BY <1>1, <1>2, PlanKept
<1>4. LockTypeOK' /\ CoverageGuardRedundant'
  BY <1>1 DEF LockIInv, IInv, TypeOK, LockTypeOK, CoverageGuardRedundant, Stage, LockError
<1>5. PositionInv'
  <2>1. phase' = phase /\ otx_entries' = otx_entries
    BY <1>1 DEF scanVars
  <2>2. Len(otx_entries) \in Nat
    BY DEF LockIInv, IInv, TypeOK
  <2>3. QED
    BY <1>1, <1>2, <2>1, <2>2 DEF PositionInv
<1>6. VerifiedInv'
  BY <1>1, <1>2 DEF VerifiedInv
<1>7. QED
  BY <1>3, <1>4, <1>5, <1>6 DEF LockIInv

\* engine.rs add_tx_level_requirement: the requirement signs the whole transaction.
LEMMA TxLevelRequirementFacts ==
  ASSUME TypeOK, GroupInv, GroupWitnessesOk
  PROVE  TxLevelRequirement \in SigningRequirement /\ ForTxLevel(TxLevelRequirement)
<1> DEFINE hash == IF SighashAlls = {} THEN TxWithoutMessageHash ELSE TxWithMessageHash(TxMessage)
<1>1. Carrier \in Nat
  BY GroupFacts
<1>2. summaries[Carrier + 1].seal \in Seal
  BY <1>1, SummaryFacts DEF GroupWitnessesOk
<1>3. hash \in [domain : {"ckbcb_twm_core1"}, message : Message] \cup [domain : {"ckbcb_tnm_core1"}]
  BY MessageFacts DEF TxWithoutMessageHash, TxWithMessageHash
<1>4. TxLevelRequirement \in SigningRequirement
  <2> HIDE DEF hash
  <2>1. TxLevelRequirement = Requirement("tx_level", Carrier, 0, summaries[Carrier + 1].seal, hash)
    BY DEF TxLevelRequirement, hash
  <2>2. QED
    BY <1>1, <1>2, <1>3, <2>1 DEF Requirement, SigningRequirement
<1>5. ForTxLevel(TxLevelRequirement)
  BY DEF ForTxLevel, TxLevelRequirement, Requirement
<1>6. QED
  BY <1>4, <1>5

\* The tx-level stages fail with other errors than the coverage guard.
LEMMA TxLevelErrorType ==
  /\ TxLevelError \in LockError \ {"MissingLockGroupCoverage"}
  /\ TxActionsError \in LockError \ {"MissingLockGroupCoverage"}
BY DEF TxLevelError, TxActionsError, LockError

\* engine.rs add_tx_level_requirement: the plan gets its first requirement, or none.
LEMMA AddTxLevelRequirementInv ==
  ASSUME LockIInv, AddTxLevelRequirement
  PROVE  LockIInv'
<1>1. /\ stage = "tx_requirement"
      /\ UNCHANGED <<scanVars, lock, related_actions, otx_index, segment_index, verified>>
  BY DEF AddTxLevelRequirement, position
<1>2. /\ required_signatures = <<>> /\ otx_index = 0 /\ segment_index = 0 /\ verified = 0
      /\ Scanned
  BY <1>1 DEF LockIInv, RequirementsInv, PositionInv, VerifiedInv, GroupInv
<1>3. phase' = phase /\ otx_entries' = otx_entries /\ Len(otx_entries) \in Nat
      /\ has_cobuild_witness_layout' = has_cobuild_witness_layout
  BY <1>1 DEF scanVars, LockIInv, IInv, TypeOK
<1>4. stage' \in {"tx_actions", "rejected"}
  BY DEF AddTxLevelRequirement, LockFails
<1>5. PositionInv'
  BY <1>1, <1>2, <1>3, <1>4 DEF PositionInv
<1>6. CASE UNCHANGED required_signatures
  <2>1. /\ tx_level_action_cache' = tx_level_action_cache
        /\ \/ /\ ~(has_cobuild_witness_layout /\ NeedsTxLevelSignature)
              /\ stage' = "tx_actions" /\ lock_error' = lock_error
           \/ stage' = "rejected" /\ lock_error' = TxLevelError
    BY <1>2, <1>6 DEF AddTxLevelRequirement, LockFails
  <2>2. IInv' /\ OrderInv' /\ GroupInv' /\ ScopesPlanned' /\ RequirementsInv' /\ TxLevelPlanned'
    BY <1>1, <1>2, <1>6, <2>1, PlanKept
  <2>3. LockTypeOK' /\ CoverageGuardRedundant'
    BY <1>1, <1>6, <2>1, TxLevelErrorType
       DEF LockIInv, LockTypeOK, CoverageGuardRedundant, Stage
  <2>4. VerifiedInv'
    BY <1>1, <1>2, <1>4, <1>6 DEF VerifiedInv
  <2>5. QED
    BY <1>5, <2>2, <2>3, <2>4 DEF LockIInv
<1>7. CASE /\ has_cobuild_witness_layout /\ NeedsTxLevelSignature
           /\ TxLevelError = "none"
           /\ stage' = "tx_actions"
           /\ required_signatures' = Append(required_signatures, TxLevelRequirement)
           /\ tx_level_action_cache' =
                IF SighashAlls = {} THEN tx_level_action_cache
                ELSE [witness_index |-> MessageIndex, targets_checked |-> TRUE]
           /\ lock_error' = lock_error
  <2>1. GroupWitnessesOk
    BY <1>7 DEF TxLevelError
  <2>2. PICK new \in SigningRequirement : new = TxLevelRequirement /\ ForTxLevel(new)
    BY <2>1, TxLevelRequirementFacts DEF LockIInv, IInv
  <2>3. /\ required_signatures' = <<new>>
        /\ Len(required_signatures') = 1 /\ required_signatures'[1] = new
    BY <1>2, <1>7, <2>2
  <2>4. IInv' /\ OrderInv'
    BY <1>1, ScanKept DEF LockIInv
  <2>5. /\ Scanned' /\ NeedsTxLevelSignature' /\ ForTxLevel(new)'
        /\ has_cobuild_witness_layout'
    BY <1>1, <1>2, <1>3, <1>7, <2>2, ScanKept
  <2>6. LockTypeOK' /\ CoverageGuardRedundant'
    <3>1. tx_level_action_cache' \in [witness_index : Nat \cup {None}, targets_checked : BOOLEAN]
      BY <1>7, MessageFacts DEF LockIInv, IInv, LockTypeOK
    <3>2. required_signatures' \in Seq(SigningRequirement) /\ verified' \in 0..1
      BY <1>1, <1>2, <2>2, <2>3
    <3>3. QED
      BY <1>1, <1>7, <2>3, <3>1, <3>2 DEF LockIInv, LockTypeOK, CoverageGuardRedundant, Stage
  <2>7. GroupInv'
    BY <1>1, <2>5 DEF LockIInv, GroupInv, scanVars
  <2>8. ScopesPlanned'
    <3>1. \A p \in 1..Len(pieces') : pieces'[p].otx \in Nat /\ pieces'[p].segment \in Nat
      <4>1. pieces' \in Seq(Piece)
        BY <2>4 DEF IInv, TypeOK
      <4>2. \A p \in 1..Len(pieces') : pieces'[p] \in Piece
        BY ONLY <4>1
      <4>3. QED
        BY <4>2 DEF Piece
    <3>2. QED
      BY <1>1, <1>2, <3>1 DEF ScopesPlanned, Past
  <2>9. TxLevelPlanned'
    BY <2>3, <2>5 DEF TxLevelPlanned
  <2>10. RequirementsInv'
    BY <1>7, <2>3, <2>5 DEF RequirementsInv, Justified
  <2>11. VerifiedInv'
    BY <1>1, <1>2, <1>7 DEF VerifiedInv
  <2>12. QED
    BY <1>5, <2>4, <2>6, <2>7, <2>8, <2>9, <2>10, <2>11 DEF LockIInv
<1>8. QED
  BY <1>6, <1>7 DEF AddTxLevelRequirement

\* engine.rs add_tx_level_actions: relates actions and fills the cache.
LEMMA AddTxLevelActionsInv ==
  ASSUME LockIInv, AddTxLevelActions
  PROVE  LockIInv'
<1>1. /\ stage = "tx_actions"
      /\ UNCHANGED <<scanVars, lock, required_signatures, otx_index, segment_index, verified>>
      /\ \/ stage' = "rejected" /\ lock_error' = TxActionsError
         \/ stage' = "otx" /\ lock_error' = lock_error
  BY DEF AddTxLevelActions, position, LockFails
<1>2. otx_index = 0 /\ segment_index = 0 /\ verified = 0 /\ Scanned
  BY <1>1 DEF LockIInv, PositionInv, VerifiedInv, GroupInv
<1>3. phase' = phase /\ otx_entries' = otx_entries /\ Len(otx_entries) \in Nat
  BY <1>1 DEF scanVars, LockIInv, IInv, TypeOK
<1>4. IInv' /\ OrderInv' /\ GroupInv' /\ ScopesPlanned' /\ RequirementsInv' /\ TxLevelPlanned'
  BY <1>1, <1>2, PlanKept DEF LockIInv, TxLevelPlanned
<1>5. LockTypeOK' /\ CoverageGuardRedundant'
  <2>1. /\ related_actions' \subseteq ActionRef
        /\ tx_level_action_cache' \in [witness_index : Nat \cup {None}, targets_checked : BOOLEAN]
    <3>1. CASE UNCHANGED <<related_actions, tx_level_action_cache>>
      BY <3>1 DEF LockIInv, LockTypeOK
    <3>2. CASE /\ SighashAlls # {}
               /\ related_actions' = related_actions \cup TxRelatedActions
               /\ tx_level_action_cache' =
                    [witness_index |-> MessageIndex,
                     targets_checked |-> CheckedBefore \/ LockActions(TxMessage) # {}]
      <4>1. MessageIndex \in Nat /\ TxMessage \in Message
        BY <3>2, MessageFacts DEF LockIInv, IInv
      <4>2. \A a \in LockActions(TxMessage) : a - 1 \in Nat
        BY <4>1 DEF LockActions, Message
      <4>3. TxRelatedActions \subseteq ActionRef
        BY <4>1, <4>2 DEF TxRelatedActions, TxRef, ActionRef
      <4>4. (CheckedBefore \/ LockActions(TxMessage) # {}) \in BOOLEAN
        OBVIOUS
      <4>5. QED
        BY <3>2, <4>1, <4>3, <4>4 DEF LockIInv, LockTypeOK
    <3>3. QED
      BY <3>1, <3>2 DEF AddTxLevelActions
  <2>2. QED
    BY <1>1, <2>1, TxLevelErrorType DEF LockIInv, LockTypeOK, CoverageGuardRedundant, Stage
<1>6. PositionInv'
  BY <1>1, <1>2, <1>3 DEF PositionInv
<1>7. VerifiedInv'
  BY <1>1, <1>2 DEF VerifiedInv
<1>8. QED
  BY <1>4, <1>5, <1>6, <1>7 DEF LockIInv

\* engine.rs add_otx_requirements: the loops visit one scope at a time, in order.
LEMMA MoveOnFacts ==
  ASSUME LockIInv, stage = "otx", stage' = "otx", phase = "complete",
         otx_index < Len(otx_entries), MoveOn(otx_index, segment_index),
         UNCHANGED <<scanVars, lock>>
  PROVE  /\ PositionInv' /\ otx_index' \in Nat /\ segment_index' \in Nat
         /\ otx_index \in 0..(Len(otx_entries) - 1)
         /\ segment_index \in 0..SegmentCount(otx_index)
         /\ \A p \in 1..Len(pieces) : Past(pieces[p])' <=>
              \/ Past(pieces[p])
              \/ pieces[p].otx = otx_index /\ pieces[p].segment = segment_index
<1>1. otx_index \in Nat /\ segment_index \in Nat /\ Len(otx_entries) \in Nat
  BY DEF LockIInv, LockTypeOK, IInv, TypeOK
<1>2. otx_index \in 0..(Len(otx_entries) - 1)
  BY <1>1
<1>3. SegmentCount(otx_index) \in Nat
  BY <1>2, PieceFacts DEF LockIInv
<1>4. segment_index \in 0..SegmentCount(otx_index)
  BY <1>1, <1>3 DEF LockIInv, PositionInv
<1>5. \/ /\ segment_index < SegmentCount(otx_index)
         /\ otx_index' = otx_index /\ segment_index' = segment_index + 1
      \/ /\ segment_index = SegmentCount(otx_index)
         /\ otx_index' = otx_index + 1 /\ segment_index' = 0
  BY <1>1, <1>3, <1>4 DEF MoveOn, SegmentCount
<1>6. /\ phase' = phase /\ otx_entries' = otx_entries /\ pieces' = pieces
      /\ \A k : SegmentCount(k)' = SegmentCount(k)
  BY ScanKept DEF scanVars
<1>7. PositionInv'
  <2>1. segment_index' > 0 => otx_index' = otx_index /\ segment_index' <= SegmentCount(otx_index)
    BY <1>1, <1>3, <1>4, <1>5
  <2>2. SegmentCount(otx_index)' = SegmentCount(otx_index')
    BY <1>6 DEF SegmentCount, OtxViewAt, WitnessAt, scanVars
  <2>3. segment_index' > 0 => segment_index' <= SegmentCount(otx_index)'
    BY <2>1, <2>2
  <2>4. otx_index' <= Len(otx_entries)
    BY <1>1, <1>5
  <2>5. QED
    BY <1>6, <2>1, <2>3, <2>4 DEF PositionInv
<1>8. ASSUME NEW p \in 1..Len(pieces)
      PROVE  Past(pieces[p])' <=>
               \/ Past(pieces[p])
               \/ pieces[p].otx = otx_index /\ pieces[p].segment = segment_index
  <2>1. /\ pieces[p].otx \in Int /\ pieces[p].segment \in Int
        /\ pieces[p].segment <= SegmentCount(pieces[p].otx)
    BY PieceFacts DEF LockIInv, OrderInv, PieceIsScope
  <2>2. Past(pieces[p])' <=>
          pieces[p].otx < otx_index' \/ (pieces[p].otx = otx_index' /\ pieces[p].segment < segment_index')
    BY <1>6 DEF Past
  <2>3. pieces[p].segment >= 0
    BY PieceFacts DEF LockIInv
  <2>4. QED
    BY <1>1, <1>3, <1>4, <1>5, <2>1, <2>2, <2>3 DEF Past
<1>9. QED
  BY <1>1, <1>2, <1>3, <1>4, <1>5, <1>7, <1>8

\* engine.rs add_otx_signatures: a requirement's carrier and segment say which scope it
\* is for.
LEMMA ScopeIsPiece ==
  ASSUME IInv, OrderInv, NEW r, NEW q, NEW a \in 1..Len(pieces), NEW b \in 1..Len(pieces),
         ForPiece(r, pieces[a]), ForPiece(q, pieces[b]), SameScope(r, q)
  PROVE  a = b
<1>1. /\ pieces[a].otx \in 0..(Len(otx_entries) - 1) /\ pieces[b].otx \in 0..(Len(otx_entries) - 1)
      /\ Len(otx_entries) \in Nat
  BY PieceFacts
<1>2. r.origin # "tx_level"
  BY DEF ForPiece
<1>3. /\ otx_entries[pieces[a].otx + 1] = otx_entries[pieces[b].otx + 1]
      /\ pieces[a].segment = pieces[b].segment
  BY <1>2 DEF ForPiece, SameScope
<1>4. /\ otx_entries[pieces[a].otx + 1] = start + (pieces[a].otx + 1)
      /\ otx_entries[pieces[b].otx + 1] = start + (pieces[b].otx + 1)
  <2>1. pieces[a].otx + 1 \in 1..Len(otx_entries) /\ pieces[b].otx + 1 \in 1..Len(otx_entries)
    BY <1>1
  <2> QED
    BY <2>1 DEF IInv, CollectorInv
<1>5. start \in Int
  BY DEF IInv, TypeOK, None
<1>6. pieces[a].otx = pieces[b].otx
  <2>1. \A i, j \in Int : start + (i + 1) = start + (j + 1) => i = j
    BY <1>5
  <2>2. pieces[a].otx \in Int /\ pieces[b].otx \in Int
    BY <1>1
  <2>3. start + (pieces[a].otx + 1) = start + (pieces[b].otx + 1)
    BY <1>3, <1>4
  <2> QED
    BY <2>1, <2>2, <2>3
<1> QED
  BY <1>3, <1>6, PieceUnique

\* hash/mod.rs: what a signature over a scope of an OTX is over.
LEMMA ScopeHashType ==
  ASSUME IInv, NEW k \in 0..(Len(otx_entries) - 1)
  PROVE  /\ OtxBaseHash(OtxViewAt(k)) \in BaseHash
         /\ \A s \in 1..SegmentCount(k) :
              OtxAppendSegmentHash(OtxViewAt(k), s)
                \in [domain : {"ckbcb_ots_core1"}, base_hash : BaseHash,
                     previous : Seq(Entities), segment : Entities]
<1> DEFINE view == OtxViewAt(k)
<1>1. view \in OtxView
  BY CollectedViews
<1> HIDE DEF view
<1>2. view.segments \in Seq(SegmentView)
  BY <1>1 DEF OtxView
<1>3. OtxBaseHash(view) \in BaseHash
  BY <1>1 DEF OtxView, OtxBaseHash, BaseHash
<1>4. \A p \in 1..Len(view.segments) : SegmentEntities(view.segments[p]) \in Entities
  <2>1. \A p \in 1..Len(view.segments) : view.segments[p] \in SegmentView
    BY <1>2
  <2> QED
    BY <2>1 DEF SegmentView, SegmentEntities, Entities
<1>5. ASSUME NEW s \in 1..Len(view.segments)
      PROVE  OtxAppendSegmentHash(view, s)
               \in [domain : {"ckbcb_ots_core1"}, base_hash : BaseHash,
                    previous : Seq(Entities), segment : Entities]
  <2> DEFINE n == PreviousCovered(view, s)
             previous == [p \in 1..n |-> SegmentEntities(view.segments[p])]
  <2>1. s \in Nat /\ Len(view.segments) \in Nat
    BY <1>2
  <2>2. n \in Nat /\ n < s
    BY <1>5, <2>1 DEF PreviousCovered
  <2> HIDE DEF n
  <2>3. \A p \in 1..n : SegmentEntities(view.segments[p]) \in Entities
    BY <1>4, <1>5, <2>1, <2>2
  <2>4. previous \in Seq(Entities)
    BY <2>2, <2>3
  <2> HIDE DEF previous
  <2>5. OtxAppendSegmentHash(view, s) =
          [domain |-> "ckbcb_ots_core1", base_hash |-> OtxBaseHash(view),
           previous |-> previous, segment |-> SegmentEntities(view.segments[s])]
    BY DEF OtxAppendSegmentHash, previous, n
  <2> QED
    BY <1>3, <1>4, <1>5, <2>4, <2>5
<1> QED
  BY <1>3, <1>5 DEF view, SegmentCount

\* engine.rs add_otx_signatures: a scope without an input of the group is passed.
LEMMA VisitUnsigned ==
  ASSUME LockIInv, stage = "otx", stage' = "otx", phase = "complete",
         otx_index < Len(otx_entries), MoveOn(otx_index, segment_index),
         ~ContainsCurrentLock(InputSpan(otx_index, segment_index)),
         UNCHANGED <<scanVars, lock, required_signatures>>
  PROVE  ScopesPlanned' /\ TxLevelPlanned' /\ RequirementsInv'
<1>1. PICK c \in 1..Len(pieces) :
        /\ pieces[c].otx = otx_index /\ pieces[c].segment = segment_index
        /\ ~\E i \in CurrentLockInputs : InPiece(i, c)
  BY MoveOnFacts, ScopeHoldsInput DEF LockIInv
<1>2. \A p \in 1..Len(pieces) : Past(pieces[p])' <=> Past(pieces[p]) \/ p = c
  BY <1>1, MoveOnFacts, PieceUnique DEF LockIInv
<1>3. /\ pieces' = pieces /\ required_signatures' = required_signatures
      /\ has_cobuild_witness_layout' = has_cobuild_witness_layout
  BY DEF scanVars
<1>4. ScopesPlanned'
  BY <1>1, <1>2, <1>3, ScanKept DEF LockIInv, ScopesPlanned
<1>5. TxLevelPlanned'
  BY <1>3, ScanKept DEF LockIInv, TxLevelPlanned
<1>6. \A r : Justified(r) => Justified(r)'
  BY <1>2, <1>3, ScanKept DEF Justified
<1>7. RequirementsInv'
  BY <1>3, <1>6 DEF LockIInv, RequirementsInv
<1>8. QED
  BY <1>4, <1>5, <1>7

\* A scope with an input of the group gets its requirement.
LEMMA VisitSigned ==
  ASSUME LockIInv, stage = "otx", stage' = "otx", phase = "complete",
         otx_index < Len(otx_entries), MoveOn(otx_index, segment_index),
         ContainsCurrentLock(InputSpan(otx_index, segment_index)),
         UNCHANGED <<scanVars, lock>>,
         NEW new \in SigningRequirement,
         required_signatures' = Append(required_signatures, new),
         \A p \in 1..Len(pieces) :
           pieces[p].otx = otx_index /\ pieces[p].segment = segment_index
             => ForPiece(new, pieces[p])
  PROVE  ScopesPlanned' /\ TxLevelPlanned' /\ RequirementsInv'
<1> DEFINE n == Len(required_signatures)
<1>1. PICK c \in 1..Len(pieces) :
        /\ pieces[c].otx = otx_index /\ pieces[c].segment = segment_index
        /\ \E i \in CurrentLockInputs : InPiece(i, c)
  BY MoveOnFacts, ScopeHoldsInput DEF LockIInv
<1>2. ForPiece(new, pieces[c])
  BY <1>1
<1>3. /\ \A p \in 1..Len(pieces) : Past(pieces[p])' <=> Past(pieces[p]) \/ p = c
      /\ Past(pieces[c])'
  BY <1>1, MoveOnFacts, PieceUnique DEF LockIInv
<1>4. ~Past(pieces[c])
  BY <1>1, MoveOnFacts DEF Past, LockIInv, LockTypeOK
<1>5. /\ n \in Nat /\ Len(required_signatures') = n + 1
      /\ \A r \in 1..n : required_signatures'[r] = required_signatures[r]
      /\ required_signatures'[n + 1] = new
  BY DEF LockIInv, LockTypeOK
<1>6. \A r \in 1..Len(required_signatures') : r \in 1..n \/ r = n + 1
  BY <1>5
<1>7. \A r \in 1..n : r \in 1..Len(required_signatures')
  BY <1>5
<1>8. n + 1 \in 1..Len(required_signatures')
  BY <1>5
<1>9. pieces' = pieces /\ has_cobuild_witness_layout' = has_cobuild_witness_layout
  BY DEF scanVars
<1>10. ScopesPlanned'
  <2>1. ASSUME NEW i \in CurrentLockInputs, NEW p \in 1..Len(pieces),
               Past(pieces[p])', InPiece(i, p)
        PROVE  \E r \in 1..Len(required_signatures') : ForPiece(required_signatures'[r], pieces[p])
    <3>1. CASE p = c
      BY <1>2, <1>5, <1>8, <3>1
    <3>2. CASE Past(pieces[p])
      <4>1. PICK r \in 1..n : ForPiece(required_signatures[r], pieces[p])
        BY <2>1, <3>2 DEF LockIInv, ScopesPlanned
      <4>2. QED
        BY <1>5, <1>7, <4>1
    <3>3. QED
      BY <1>3, <2>1, <3>1, <3>2
  <2>2. QED
    BY <1>9, <2>1, ScanKept DEF ScopesPlanned
<1>11. TxLevelPlanned'
  <2>1. ASSUME has_cobuild_witness_layout, NeedsTxLevelSignature
        PROVE  \E r \in 1..Len(required_signatures') : ForTxLevel(required_signatures'[r])
    <3>1. PICK r \in 1..n : ForTxLevel(required_signatures[r])
      BY <2>1 DEF LockIInv, TxLevelPlanned
    <3>2. QED
      BY <1>5, <1>7, <3>1
  <2>2. QED
    BY <1>9, <2>1, ScanKept DEF TxLevelPlanned
<1>12. \A r : Justified(r) => Justified(r)'
  BY <1>3, <1>9, ScanKept DEF Justified
<1>13. Justified(new)'
  <2>1. \E i \in CurrentLockInputs, p \in 1..Len(pieces) :
          Past(pieces[p])' /\ InPiece(i, p) /\ ForPiece(new, pieces[p])
    BY <1>1, <1>2, <1>3
  <2>2. QED
    BY <1>9, <2>1, ScanKept DEF Justified
<1>14. ASSUME NEW r \in 1..n
       PROVE  ~SameScope(required_signatures[r], new) /\ ~SameScope(new, required_signatures[r])
  <2> DEFINE old == required_signatures[r]
  <2>1. new.origin # "tx_level"
    BY <1>2 DEF ForPiece
  <2>2. CASE ForTxLevel(old)
    BY <2>1, <2>2 DEF ForTxLevel, SameScope
  <2>3. CASE \E p \in 1..Len(pieces) : Past(pieces[p]) /\ ForPiece(old, pieces[p])
    <3>1. PICK p \in 1..Len(pieces) : Past(pieces[p]) /\ ForPiece(old, pieces[p])
      BY <2>3
    <3>2. p # c
      BY <1>4, <3>1
    <3> HIDE DEF old
    <3>3. ~SameScope(old, new)
      BY <1>2, <3>1, <3>2, ScopeIsPiece DEF LockIInv
    <3>4. ~SameScope(new, old)
      BY <1>2, <3>1, <3>2, ScopeIsPiece DEF LockIInv
    <3>5. QED
      BY <3>3, <3>4 DEF old
  <2>4. Justified(old)
    BY DEF LockIInv, RequirementsInv
  <2>5. QED
    BY <2>2, <2>3, <2>4 DEF Justified
<1>15. has_cobuild_witness_layout
  BY CompleteFacts DEF LockIInv
<1>16. RequirementsInv'
  <2>1. (\A r \in 1..Len(required_signatures) : Justified(required_signatures[r]))'
    <3>1. ASSUME NEW r \in 1..Len(required_signatures')
          PROVE  Justified(required_signatures[r])'
      <4>1. CASE r \in 1..n
        <5>1. PICK old : old = required_signatures[r] /\ Justified(old)
          BY <4>1 DEF LockIInv, RequirementsInv
        <5>2. required_signatures'[r] = old
          BY <1>5, <4>1, <5>1
        <5>3. QED
          BY <1>12, <5>1, <5>2
      <4>2. CASE r = n + 1
        BY <1>5, <1>13, <4>2
      <4>3. QED
        BY <1>6, <4>1, <4>2
    <3>2. QED
      BY <3>1
  <2>2. ASSUME NEW r \in 1..Len(required_signatures'), NEW q \in 1..Len(required_signatures'),
               r # q
        PROVE  ~SameScope(required_signatures'[r], required_signatures'[q])
    <3>1. CASE r \in 1..n /\ q \in 1..n
      BY <1>5, <2>2, <3>1 DEF LockIInv, RequirementsInv
    <3>2. CASE r \in 1..n /\ q = n + 1
      BY <1>5, <1>14, <3>2
    <3>3. CASE r = n + 1 /\ q \in 1..n
      BY <1>5, <1>14, <3>3
    <3>4. QED
      BY <1>6, <2>2, <3>1, <3>2, <3>3
  <2>3. QED
    BY <1>9, <1>15, <2>1, <2>2 DEF RequirementsInv
<1>17. QED
  BY <1>10, <1>11, <1>16

\* A failure leaves what was planned as it is.
LEMMA FailureInv ==
  ASSUME LockIInv, NEW e \in LockError \ {"MissingLockGroupCoverage"}, LockFails(e),
         UNCHANGED <<scanVars, lock, plan, position, verified>>
  PROVE  LockIInv'
<1>1. /\ stage' = "rejected" /\ lock_error' = e
      /\ UNCHANGED <<scanVars, lock, required_signatures, related_actions,
                     tx_level_action_cache, otx_index, segment_index, verified>>
  BY DEF LockFails, plan, position
<1>2. IInv' /\ OrderInv' /\ GroupInv' /\ ScopesPlanned' /\ RequirementsInv' /\ TxLevelPlanned'
  BY <1>1, PlanKept
<1>3. LockTypeOK' /\ CoverageGuardRedundant'
  BY <1>1 DEF LockIInv, LockTypeOK, CoverageGuardRedundant, Stage
<1>4. PositionInv'
  <2>1. /\ phase' = phase /\ otx_entries' = otx_entries
        /\ \A k : SegmentCount(k)' = SegmentCount(k)
    BY <1>1, ScanKept DEF scanVars
  <2>2. SegmentCount(otx_index)' = SegmentCount(otx_index)
    BY <1>1 DEF SegmentCount, OtxViewAt, WitnessAt, scanVars
  <2>3. QED
    BY <1>1, <2>1, <2>2 DEF LockIInv, PositionInv
<1>5. VerifiedInv'
  BY <1>1 DEF LockIInv, VerifiedInv, Verifies
<1>6. QED
  BY <1>2, <1>3, <1>4, <1>5 DEF LockIInv

\* seal.rs unique_lock_seal.
LEMMA UniqueSealFacts ==
  ASSUME NEW seals \in Seq(LockSeal)
  PROVE  /\ UniqueSealError(seals) \in LockError \ {"MissingLockGroupCoverage"}
         /\ UniqueSealError(seals) = "none" => UniqueSeal(seals) \in Seal
<1>1. UniqueSealError(seals) \in LockError \ {"MissingLockGroupCoverage"}
  BY DEF UniqueSealError, LockError
<1>2. ASSUME UniqueSealError(seals) = "none"
      PROVE  UniqueSeal(seals) \in Seal
  <2>1. (CHOOSE i \in Matching(seals) : TRUE) \in Matching(seals)
    BY <1>2 DEF UniqueSealError
  <2>2. PICK i \in 1..Len(seals) : UniqueSeal(seals) = seals[i].seal
    BY <2>1 DEF Matching, UniqueSeal
  <2>3. seals[i] \in LockSeal
    BY <2>2
  <2>4. QED
    BY <2>2, <2>3 DEF LockSeal
<1>3. QED
  BY <1>1, <1>2

\* engine.rs add_otx_requirement, add_otx_signatures: the base of one OTX.
LEMMA EnterOtxInv ==
  ASSUME LockIInv, EnterOtx
  PROVE  LockIInv'
<1> DEFINE k == otx_index
           view == OtxViewAt(k)
<1>1. /\ stage = "otx" /\ phase = "complete" /\ k < Len(otx_entries) /\ segment_index = 0
      /\ UNCHANGED <<scanVars, lock, tx_level_action_cache, verified>>
  BY DEF EnterOtx
<1>2. k \in 0..(Len(otx_entries) - 1) /\ otx_entries[k + 1] \in Nat
  <2>1. k \in Nat /\ otx_entries \in Seq(Nat) /\ Len(otx_entries) \in Nat
    BY DEF LockIInv, LockTypeOK, IInv, TypeOK
  <2>2. k + 1 \in 1..Len(otx_entries)
    BY <1>1, <2>1
  <2>3. QED
    BY <1>1, <2>1, <2>2
<1>3. view.message \in Message /\ view.base_seals \in Seq(LockSeal)
  BY <1>2, CollectedViews DEF LockIInv, OtxView
<1>4. CASE /\ LockFails(EnterOtxError(k))
           /\ UNCHANGED <<required_signatures, related_actions, position>>
  <2>1. EnterOtxError(k) \in LockError \ {"MissingLockGroupCoverage"}
    BY <1>3, UniqueSealFacts DEF EnterOtxError, LockError
  <2>2. QED
    BY <1>1, <1>4, <2>1, FailureInv DEF plan
<1>5. CASE /\ EnterOtxError(k) = "none"
           /\ related_actions' = related_actions \cup OtxRelatedActions(k)
           /\ IF BaseSignature(k)
                THEN required_signatures' = Append(required_signatures, BaseRequirement(k))
                ELSE UNCHANGED required_signatures
           /\ MoveOn(k, 0)
           /\ UNCHANGED <<stage, lock_error>>
  <2>1. MoveOn(otx_index, segment_index) /\ stage' = "otx"
    BY <1>1, <1>5
  <2>2. BaseSignature(k) <=> ContainsCurrentLock(InputSpan(otx_index, segment_index))
    BY <1>1 DEF BaseSignature
  <2>3. ASSUME BaseSignature(k)
        PROVE  BaseRequirement(k) \in SigningRequirement
    <3>1. UniqueSeal(view.base_seals) \in Seal
      BY <1>3, <1>5, <2>3, UniqueSealFacts DEF EnterOtxError
    <3>2. OtxBaseHash(view) \in BaseHash
      BY <1>2, ScopeHashType DEF LockIInv
    <3>3. QED
      BY <1>2, <3>1, <3>2 DEF BaseRequirement, Requirement, SigningRequirement
  <2>4. \A p \in 1..Len(pieces) :
          pieces[p].otx = otx_index /\ pieces[p].segment = segment_index
            => ForPiece(BaseRequirement(k), pieces[p])
    BY <1>1 DEF ForPiece, BaseRequirement, Requirement
  <2>5. ScopesPlanned' /\ TxLevelPlanned' /\ RequirementsInv'
    <3>1. CASE BaseSignature(k)
      BY <1>1, <1>5, <2>1, <2>2, <2>3, <2>4, <3>1, VisitSigned
    <3>2. CASE ~BaseSignature(k)
      BY <1>1, <1>5, <2>1, <2>2, <3>2, VisitUnsigned
    <3>3. QED
      BY <3>1, <3>2
  <2>6. PositionInv' /\ otx_index' \in Nat /\ segment_index' \in Nat
    BY <1>1, <2>1, MoveOnFacts
  <2>7. required_signatures' \in Seq(SigningRequirement) /\ Len(required_signatures') \in Nat
    BY <1>5, <2>3 DEF LockIInv, LockTypeOK
  <2>8. related_actions' \subseteq ActionRef
    <3>1. \A a \in LockActions(view.message) : a - 1 \in Nat
      BY <1>3 DEF LockActions, Message
    <3>2. OtxRelatedActions(k) \subseteq ActionRef
      BY <1>2, <1>3, <3>1 DEF OtxRelatedActions, OtxRef, ActionRef
    <3>3. QED
      BY <1>5, <3>2 DEF LockIInv, LockTypeOK
  <2>9. verified = 0 /\ Scanned
    BY <1>1 DEF LockIInv, VerifiedInv, GroupInv
  <2>10. LockTypeOK' /\ CoverageGuardRedundant'
    BY <1>1, <1>5, <2>6, <2>7, <2>8, <2>9 DEF LockIInv, LockTypeOK, CoverageGuardRedundant
  <2>11. VerifiedInv'
    BY <1>1, <2>1, <2>9 DEF VerifiedInv
  <2>12. IInv' /\ OrderInv' /\ GroupInv'
    BY <1>1, <2>9, ScanKept DEF LockIInv, GroupInv, scanVars
  <2>13. QED
    BY <2>5, <2>6, <2>10, <2>11, <2>12 DEF LockIInv
<1>6. QED
  BY <1>4, <1>5 DEF EnterOtx

\* engine.rs add_otx_signatures: one append segment.
LEMMA VisitSegmentInv ==
  ASSUME LockIInv, VisitSegment
  PROVE  LockIInv'
<1> DEFINE k == otx_index
           s == segment_index
           seals == OtxViewAt(k).segments[s].seals
<1>1. /\ stage = "otx" /\ s > 0
      /\ UNCHANGED <<scanVars, lock, related_actions, tx_level_action_cache, verified>>
  BY DEF VisitSegment
<1>2. phase = "complete" /\ k < Len(otx_entries) /\ s <= SegmentCount(k)
  BY <1>1 DEF LockIInv, PositionInv
<1>3. k \in Nat /\ s \in Nat /\ otx_entries \in Seq(Nat) /\ Len(otx_entries) \in Nat
  BY DEF LockIInv, LockTypeOK, IInv, TypeOK
<1>4. k \in 0..(Len(otx_entries) - 1) /\ otx_entries[k + 1] \in Nat
  BY <1>2, <1>3
<1>5. seals \in Seq(LockSeal)
  <2>1. OtxViewAt(k).segments \in Seq(SegmentView)
    BY <1>4, CollectedViews DEF LockIInv, OtxView
  <2>2. OtxViewAt(k).segments[s] \in SegmentView
    BY <1>1, <1>2, <1>3, <2>1 DEF SegmentCount
  <2>3. QED
    BY <2>2 DEF SegmentView
<1>6. SegmentSignature(k, s) <=> ContainsCurrentLock(InputSpan(otx_index, segment_index))
  BY DEF SegmentSignature
<1>7. CASE LockFails(UniqueSealError(seals)) /\ UNCHANGED <<required_signatures, position>>
  BY <1>1, <1>5, <1>7, UniqueSealFacts, FailureInv DEF plan
<1>8. CASE /\ MoveOn(k, s)
           /\ UNCHANGED <<stage, lock_error>>
           /\ \/ ~SegmentSignature(k, s) /\ UNCHANGED required_signatures
              \/ /\ SegmentSignature(k, s)
                 /\ UniqueSealError(seals) = "none"
                 /\ required_signatures' = Append(required_signatures, SegmentRequirement(k, s))
  <2>1. MoveOn(otx_index, segment_index) /\ stage' = "otx"
    BY <1>1, <1>8
  <2>2. ASSUME UniqueSealError(seals) = "none"
        PROVE  SegmentRequirement(k, s) \in SigningRequirement
    <3>1. UniqueSeal(seals) \in Seal
      BY <1>5, <2>2, UniqueSealFacts
    <3>2. OtxAppendSegmentHash(OtxViewAt(k), s)
            \in [domain : {"ckbcb_ots_core1"}, base_hash : BaseHash,
                 previous : Seq(Entities), segment : Entities]
      BY <1>1, <1>2, <1>3, <1>4, ScopeHashType DEF LockIInv, SegmentCount
    <3>3. QED
      BY <1>3, <1>4, <3>1, <3>2 DEF SegmentRequirement, Requirement, SigningRequirement
  <2>3. \A p \in 1..Len(pieces) :
          pieces[p].otx = otx_index /\ pieces[p].segment = segment_index
            => ForPiece(SegmentRequirement(k, s), pieces[p])
    BY <1>1 DEF ForPiece, SegmentRequirement, Requirement
  <2>4. ScopesPlanned' /\ TxLevelPlanned' /\ RequirementsInv'
    <3>1. CASE SegmentSignature(k, s)
      BY <1>1, <1>2, <1>6, <1>8, <2>1, <2>2, <2>3, <3>1, VisitSigned
    <3>2. CASE ~SegmentSignature(k, s)
      BY <1>1, <1>2, <1>6, <1>8, <2>1, <3>2, VisitUnsigned
    <3>3. QED
      BY <3>1, <3>2
  <2>5. PositionInv' /\ otx_index' \in Nat /\ segment_index' \in Nat
    BY <1>1, <1>2, <2>1, MoveOnFacts
  <2>6. required_signatures' \in Seq(SigningRequirement) /\ Len(required_signatures') \in Nat
    BY <1>8, <2>2 DEF LockIInv, LockTypeOK
  <2>7. verified = 0 /\ Scanned
    BY <1>1 DEF LockIInv, VerifiedInv, GroupInv
  <2>8. LockTypeOK' /\ CoverageGuardRedundant'
    BY <1>1, <1>8, <2>5, <2>6, <2>7 DEF LockIInv, LockTypeOK, CoverageGuardRedundant
  <2>9. VerifiedInv'
    BY <1>1, <2>1, <2>7 DEF VerifiedInv
  <2>10. IInv' /\ OrderInv' /\ GroupInv'
    BY <1>1, <2>7, ScanKept DEF LockIInv, GroupInv, scanVars
  <2>11. QED
    BY <2>4, <2>5, <2>8, <2>9, <2>10 DEF LockIInv
<1>9. QED
  BY <1>7, <1>8 DEF VisitSegment

\* A step that only goes on to another stage of the plan, or verifies.
LEMMA StageInv ==
  ASSUME LockIInv, stage \in {"otx", "coverage", "verify"},
         stage' \in {"coverage", "verify", "accepted"},
         phase = "none" \/ otx_index = Len(otx_entries),
         UNCHANGED <<scanVars, lock, lock_error, plan, position>>,
         verified' \in 0..Len(required_signatures), VerifiedInv'
  PROVE  LockIInv'
<1>1. UNCHANGED <<scanVars, lock, lock_error, required_signatures, related_actions,
                  tx_level_action_cache, otx_index, segment_index>>
  BY DEF plan, position
<1>2. Scanned
  BY DEF LockIInv, GroupInv
<1>3. IInv' /\ OrderInv' /\ GroupInv' /\ ScopesPlanned' /\ RequirementsInv' /\ TxLevelPlanned'
  BY <1>1, <1>2, PlanKept DEF LockIInv, TxLevelPlanned
<1>4. LockTypeOK' /\ CoverageGuardRedundant'
  BY <1>1 DEF LockIInv, LockTypeOK, CoverageGuardRedundant, Stage
<1>5. PositionInv'
  <2>1. /\ phase' = phase /\ otx_entries' = otx_entries
        /\ SegmentCount(otx_index)' = SegmentCount(otx_index)
    BY <1>1 DEF scanVars, SegmentCount, OtxViewAt, WitnessAt
  <2>2. QED
    BY <1>1, <2>1 DEF LockIInv, PositionInv
<1>6. QED
  BY <1>3, <1>4, <1>5 DEF LockIInv

\* engine.rs add_otx_requirements: the loop over the OTX ends.
LEMMA AllOtxVisitedInv ==
  ASSUME LockIInv, AllOtxVisited
  PROVE  LockIInv'
<1>1. /\ stage = "otx" /\ stage' = "coverage"
      /\ phase = "none" \/ otx_index = Len(otx_entries)
      /\ UNCHANGED <<scanVars, lock, lock_error, plan, position, verified>>
  BY DEF AllOtxVisited
<1>2. verified = 0 /\ verified \in 0..Len(required_signatures)
  BY <1>1 DEF LockIInv, LockTypeOK, VerifiedInv
<1>3. VerifiedInv'
  BY <1>1, <1>2 DEF VerifiedInv
<1>4. QED
  BY <1>1, <1>2, <1>3, StageInv

\* engine.rs ensure_otx_lock_group_coverage: the guard does not fire, for the
\* tx-level requirement it misses is there.
LEMMA GuardDoesNotFire ==
  ASSUME LockIInv, stage = "coverage"
  PROVE  ~UncoveredByOtx
<1> SUFFICES ASSUME UncoveredByOtx PROVE FALSE
  OBVIOUS
<1>1. phase = "complete" /\ NeedsTxLevelSignature /\ ~Planned({"tx_level"})
  BY DEF UncoveredByOtx, NeedsTxLevelSignature
<1>2. has_cobuild_witness_layout
  BY <1>1, CompleteFacts DEF LockIInv
<1>3. PICK r \in 1..Len(required_signatures) : ForTxLevel(required_signatures[r])
  BY <1>1, <1>2 DEF LockIInv, TxLevelPlanned
<1>4. QED
  BY <1>1, <1>3 DEF Planned, ForTxLevel

\* engine.rs ensure_otx_lock_group_coverage: lets the plan through.
LEMMA EnsureCoverageInv ==
  ASSUME LockIInv, EnsureCoverage
  PROVE  LockIInv'
<1>1. /\ stage = "coverage" /\ stage' = "verify"
      /\ UNCHANGED <<scanVars, lock, lock_error, plan, position, verified>>
  BY GuardDoesNotFire DEF EnsureCoverage
<1>2. /\ verified = 0 /\ verified \in 0..Len(required_signatures)
      /\ phase = "none" \/ otx_index = Len(otx_entries)
  BY <1>1 DEF LockIInv, LockTypeOK, VerifiedInv, PositionInv
<1>3. VerifiedInv'
  BY <1>1, <1>2 DEF VerifiedInv
<1>4. QED
  BY <1>1, <1>2, <1>3, StageInv

\* entry.rs main: the loop over the requirements.
LEMMA VerifyNextInv ==
  ASSUME LockIInv, VerifyNext
  PROVE  LockIInv'
<1> DEFINE r == required_signatures[verified + 1]
<1>1. /\ stage = "verify" /\ verified < Len(required_signatures)
      /\ UNCHANGED <<scanVars, lock, plan, position>>
  BY DEF VerifyNext
<1>2. CASE LockFails("VerifyFailure") /\ UNCHANGED verified
  BY <1>1, <1>2, FailureInv DEF LockError
<1>3. CASE /\ Verifies(r.seal, r.signing_message_hash)
           /\ verified' = verified + 1
           /\ UNCHANGED <<stage, lock_error>>
  <2>1. verified \in Nat /\ Len(required_signatures) \in Nat
    BY DEF LockIInv, LockTypeOK
  <2>2. verified' \in 0..Len(required_signatures) /\ stage' = "verify"
    BY <1>1, <1>3, <2>1
  <2>3. ASSUME NEW q \in 1..verified'
        PROVE  Verifies(required_signatures[q].seal, required_signatures[q].signing_message_hash)
    <3>1. q \in 1..verified \/ q = verified + 1
      BY <1>3, <2>1
    <3>2. QED
      BY <1>3, <3>1 DEF LockIInv, VerifiedInv
  <2>4. required_signatures' = required_signatures /\ lock' = lock
    BY <1>1 DEF plan
  <2>5. VerifiedInv'
    BY <2>2, <2>3, <2>4 DEF VerifiedInv, Verifies
  <2>6. phase = "none" \/ otx_index = Len(otx_entries)
    BY <1>1 DEF LockIInv, PositionInv
  <2>7. QED
    BY <1>1, <1>3, <2>2, <2>5, <2>6, StageInv
<1>4. QED
  BY <1>2, <1>3 DEF VerifyNext

\* entry.rs main: the script exits when all requirements are verified.
LEMMA ExitInv ==
  ASSUME LockIInv, Exit
  PROVE  LockIInv'
<1>1. /\ stage = "verify" /\ verified = Len(required_signatures)
      /\ UNCHANGED <<scanVars, lock, plan, position, verified>>
  BY DEF Exit
<1>2. CASE LockFails("LockSemanticFailure")
  BY <1>1, <1>2, FailureInv DEF LockError
<1>3. CASE required_signatures # <<>> /\ stage' = "accepted" /\ UNCHANGED lock_error
  <2>1. verified' \in 0..Len(required_signatures)
    BY <1>1 DEF LockIInv, LockTypeOK
  <2>2. VerifiedInv'
    BY <1>1, <1>3 DEF LockIInv, VerifiedInv, Verifies, plan
  <2>3. phase = "none" \/ otx_index = Len(otx_entries)
    BY <1>1 DEF LockIInv, PositionInv
  <2>4. QED
    BY <1>1, <1>3, <2>1, <2>2, <2>3, StageInv
<1>4. QED
  BY <1>2, <1>3 DEF Exit

\* A stuttering step keeps the invariant.
LEMMA LockStutterInv ==
  ASSUME LockIInv, UNCHANGED vars
  PROVE  LockIInv'
<1>1. UNCHANGED <<scanVars, lock, stage, lock_error, required_signatures, related_actions,
                  tx_level_action_cache, otx_index, segment_index, verified>>
  BY DEF vars, lockVars, plan, position
<1>2. IInv' /\ OrderInv' /\ GroupInv' /\ ScopesPlanned' /\ RequirementsInv' /\ TxLevelPlanned'
  BY <1>1, PlanKept DEF LockIInv, GroupInv, RequirementsInv, TxLevelPlanned
<1>3. LockTypeOK' /\ CoverageGuardRedundant'
  BY <1>1 DEF LockIInv, LockTypeOK, CoverageGuardRedundant
<1>4. PositionInv'
  <2>1. /\ phase' = phase /\ otx_entries' = otx_entries
        /\ SegmentCount(otx_index)' = SegmentCount(otx_index)
    BY <1>1 DEF scanVars, SegmentCount, OtxViewAt, WitnessAt
  <2>2. QED
    BY <1>1, <2>1 DEF LockIInv, PositionInv
<1>5. VerifiedInv'
  BY <1>1 DEF LockIInv, VerifiedInv, Verifies
<1>6. QED
  BY <1>2, <1>3, <1>4, <1>5 DEF LockIInv

\* entry.rs main, engine.rs build: LockIInv holds in every state of the script.
THEOREM LockInvariant == LockSpec => []LockIInv
<1>1. ASSUME LockIInv, [LockNext]_vars
      PROVE  LockIInv'
  <2>1. CASE ScanStep
    BY <1>1, <2>1, ScanStepLockInv
  <2>2. CASE BeginPlan
    BY <1>1, <2>2, BeginPlanInv
  <2>3. CASE AddTxLevelRequirement
    BY <1>1, <2>3, AddTxLevelRequirementInv
  <2>4. CASE AddTxLevelActions
    BY <1>1, <2>4, AddTxLevelActionsInv
  <2>5. CASE EnterOtx
    BY <1>1, <2>5, EnterOtxInv
  <2>6. CASE VisitSegment
    BY <1>1, <2>6, VisitSegmentInv
  <2>7. CASE AllOtxVisited
    BY <1>1, <2>7, AllOtxVisitedInv
  <2>8. CASE EnsureCoverage
    BY <1>1, <2>8, EnsureCoverageInv
  <2>9. CASE VerifyNext
    BY <1>1, <2>9, VerifyNextInv
  <2>10. CASE Exit
    BY <1>1, <2>10, ExitInv
  <2>11. CASE UNCHANGED vars
    BY <1>1, <2>11, LockStutterInv
  <2>12. QED
    BY <1>1, <2>1, <2>2, <2>3, <2>4, <2>5, <2>6, <2>7, <2>8, <2>9, <2>10, <2>11 DEF LockNext
<1>2. LockIInv /\ [LockNext]_vars => LockIInv'
  BY <1>1
<1>3. QED
  BY LockInitInv, <1>2, PTL DEF LockSpec
-----------------------------------------------------------------------------
(***************************************************************************)
(* What the invariant gives.                                               *)
(***************************************************************************)
\* engine.rs, entry.rs: the planner's variables keep their types.
THEOREM LockTypeCorrect == LockSpec => []LockTypeOK
BY LockInvariant, PTL DEF LockIInv

\* engine.rs ensure_otx_lock_group_coverage is a second line of defence only.
THEOREM LockGuardRedundant == LockSpec => []CoverageGuardRedundant
BY LockInvariant, PTL DEF LockIInv

\* An input is outside all OTX exactly if that is what makes the tx-level
\* signature necessary.
LEMMA OutsideOtxFacts ==
  ASSUME LockIInv, Scanned, NEW i \in CurrentLockInputs
  PROVE  /\ OutsideOtx(i) => NeedsTxLevelSignature
         /\ phase = "complete" =>
              (OutsideOtx(i) <=> ~InSpan(i, InputRange))
<1>1. i \in Nat
  BY GroupFacts DEF LockIInv, IInv
<1>2. phase = "complete" => (OutsideOtx(i) <=> ~InSpan(i, InputRange))
  BY <1>1, OutsideRange DEF LockIInv, OutsideOtx
<1>3. QED
  BY <1>2 DEF Scanned, NeedsTxLevelSignature

\* engine.rs: once the planner is done, every input of the group is in a scope with a
\* requirement, if the transaction has a Cobuild layout.
LEMMA InputsSignedFor ==
  ASSUME LockIInv, stage \notin Planning \cup {"rejected"}, has_cobuild_witness_layout,
         NEW i \in CurrentLockInputs
  PROVE  \E r \in 1..Len(required_signatures) : SignsFor(required_signatures[r], i)
<1>1. /\ Scanned /\ stage \in {"coverage", "verify", "accepted"}
      /\ phase = "none" \/ otx_index = Len(otx_entries)
  BY DEF LockIInv, LockTypeOK, Stage, GroupInv, PositionInv, Planning
<1>2. CASE OutsideOtx(i)
  <2>1. PICK r \in 1..Len(required_signatures) : ForTxLevel(required_signatures[r])
    BY <1>1, <1>2, OutsideOtxFacts DEF LockIInv, TxLevelPlanned
  <2> QED
    BY <1>2, <2>1 DEF SignsFor
<1>3. CASE ~OutsideOtx(i)
  <2>1. PICK p \in 1..Len(pieces) : InPiece(i, p)
    BY <1>3 DEF OutsideOtx
  <2>2. otx_index = Len(otx_entries)
    BY <1>1, <1>3 DEF OutsideOtx
  <2>3. Past(pieces[p])
    BY <2>2, PieceFacts DEF LockIInv, Past
  <2>4. PICK r \in 1..Len(required_signatures) : ForPiece(required_signatures[r], pieces[p])
    BY <2>1, <2>3 DEF LockIInv, ScopesPlanned
  <2> QED
    BY <2>1, <2>4 DEF SignsFor
<1> QED
  BY <1>2, <1>3

\* entry.rs main: when the lock script succeeds, every input of its group is under
\* a verified signature of the scope it lies in.
THEOREM LockAuthorises == LockSpec => []AuthorisedInputs
<1>1. LockIInv => AuthorisedInputs
  <2> SUFFICES ASSUME LockIInv, stage = "accepted", NEW i \in CurrentLockInputs
               PROVE  \E r \in Requirements :
                        SignsFor(r, i) /\ Verifies(r.seal, r.signing_message_hash)
    BY DEF AuthorisedInputs
  <2>1. has_cobuild_witness_layout
    BY DEF LockIInv, RequirementsInv, VerifiedInv
  <2>2. \A r \in 1..Len(required_signatures) :
          /\ required_signatures[r] \in Requirements
          /\ Verifies(required_signatures[r].seal, required_signatures[r].signing_message_hash)
    BY DEF LockIInv, VerifiedInv, Requirements
  <2>3. PICK r \in 1..Len(required_signatures) : SignsFor(required_signatures[r], i)
    BY <2>1, InputsSignedFor DEF Planning
  <2> QED
    BY <2>2, <2>3
<1>2. QED
  BY <1>1, LockInvariant, PTL

\* engine.rs: a finished plan has one requirement for each scope that spends an input of
\* the group, whatever scopes have equal content, and none for a scope that spends none.
THEOREM LockAsksOnce == LockSpec => []OneRequirementPerScope
<1>1. LockIInv => OneRequirementPerScope
  <2> SUFFICES ASSUME LockIInv, stage \notin Planning \cup {"rejected"}
               PROVE  OneRequirementPerScope
    BY DEF OneRequirementPerScope
  <2>1. Scanned /\ CurrentLockInputs # {}
    BY GroupFacts DEF LockIInv, IInv, GroupInv, Planning
  <2>2. ASSUME NEW r \in Requirements
        PROVE  \E i \in CurrentLockInputs : SignsFor(r, i)
    <3>1. Justified(r)
      BY <2>2 DEF Requirements, LockIInv, RequirementsInv
    <3>2. CASE ForTxLevel(r) /\ NeedsTxLevelSignature
      <4>1. \E i \in CurrentLockInputs : OutsideOtx(i)
        BY <2>1, <3>2, OutsideOtxFacts DEF NeedsTxLevelSignature, OutsideOtx
      <4>2. QED
        BY <3>2, <4>1 DEF SignsFor
    <3>3. CASE \E i \in CurrentLockInputs, p \in 1..Len(pieces) :
                 InPiece(i, p) /\ ForPiece(r, pieces[p])
      BY <3>3 DEF SignsFor
    <3>4. QED
      BY <3>1, <3>2, <3>3 DEF Justified
  <2>3. ASSUME has_cobuild_witness_layout, NEW i \in CurrentLockInputs
        PROVE  \E r \in Requirements : SignsFor(r, i)
    BY <2>3, InputsSignedFor DEF Requirements
  <2>4. QED
    BY <2>2, <2>3 DEF LockIInv, RequirementsInv, OneRequirementPerScope
<1>2. QED
  BY <1>1, LockInvariant, PTL
-----------------------------------------------------------------------------
(***************************************************************************)
(* What the plan relates: ActionsInv, on top of LockIInv.                  *)
(***************************************************************************)
\* The planner changes nothing that messages, their actions and their checks are
\* read from.
LEMMA MessagesKept ==
  ASSUME UNCHANGED <<scanVars, lock>>
  PROVE  /\ otx_entries' = otx_entries
         /\ SighashAlls' = SighashAlls /\ TxMessage' = TxMessage
         /\ DuplicateSighashAll' <=> DuplicateSighashAll
         /\ TxRelatedActions' = TxRelatedActions
         /\ \A m : LockActions(m)' = LockActions(m)
         /\ \A m : TargetsPresent(m)' <=> TargetsPresent(m)
         /\ \A k : OtxViewAt(k)' = OtxViewAt(k)
         /\ \A k : OtxRelatedActions(k)' = OtxRelatedActions(k)
         /\ \A k : NeedsSignature(k)' <=> NeedsSignature(k)
<1>1. /\ tx' = tx /\ summaries' = summaries /\ otx_entries' = otx_entries
      /\ pieces' = pieces /\ lock' = lock
  BY DEF scanVars
<1>2. /\ SighashAlls' = SighashAlls /\ MessageIndex' = MessageIndex /\ TxMessage' = TxMessage
      /\ DuplicateSighashAll' <=> DuplicateSighashAll
  BY <1>1 DEF SighashAlls, SummaryKind, MessageIndex, TxMessage, DuplicateSighashAll
<1>3. /\ \A m : LockActions(m)' = LockActions(m)
      /\ \A m : TargetsPresent(m)' <=> TargetsPresent(m)
  BY <1>1 DEF LockActions, TargetsPresent, Scripts
<1>4. TxRelatedActions' = TxRelatedActions
  BY <1>2, <1>3 DEF TxRelatedActions
<1>5. \A k : OtxViewAt(k)' = OtxViewAt(k)
  BY <1>1 DEF OtxViewAt, WitnessAt
<1>6. \A k : OtxRelatedActions(k)' = OtxRelatedActions(k)
  BY <1>1, <1>3, <1>5 DEF OtxRelatedActions
<1>7. \A k, s : ContainsCurrentLock(InputSpan(k, s))' <=> ContainsCurrentLock(InputSpan(k, s))
  BY <1>1 DEF ContainsCurrentLock, InputSpan, CurrentLockInputs
<1>8. \A k : NeedsSignature(k)' <=> NeedsSignature(k)
  BY <1>5, <1>7 DEF NeedsSignature
<1>9. QED
  BY <1>1, <1>2, <1>3, <1>4, <1>5, <1>6, <1>8

\* A step that relates and plans nothing keeps ActionsInv.
LEMMA ActionsKept ==
  ASSUME ActionsInv,
         UNCHANGED <<scanVars, lock, required_signatures, related_actions,
                     tx_level_action_cache, otx_index, segment_index>>,
         \/ stage' = "rejected"
         \/ /\ stage # "rejected" /\ (TxLevelRead' <=> TxLevelRead)
            /\ stage' \in {"scan", "tx_requirement"} => stage \in {"scan", "tx_requirement"}
  PROVE  ActionsInv'
<1>1. /\ required_signatures' = required_signatures /\ related_actions' = related_actions
      /\ tx_level_action_cache' = tx_level_action_cache
      /\ \A k : Entered(k)' <=> Entered(k)
      /\ Requirements' = Requirements
  BY DEF Entered, Requirements
<1>2. stage' = "rejected" => ~TxLevelRead'
  BY DEF TxLevelRead
<1>3. RelatedInv'
  BY <1>1, MessagesKept DEF ActionsInv, RelatedInv
<1>4. CacheInv'
  BY <1>1, MessagesKept DEF ActionsInv, CacheInv, NoCache
<1>5. TxTargetsInv'
  BY <1>1, <1>2, MessagesKept DEF ActionsInv, TxTargetsInv
<1>6. OtxTargetsInv'
  BY <1>1, MessagesKept DEF ActionsInv, OtxTargetsInv
<1>7. QED
  BY <1>3, <1>4, <1>5, <1>6 DEF ActionsInv

\* Before the loop over the OTX none is entered.
LEMMA NoneEntered ==
  ASSUME otx_index = 0, segment_index = 0
  PROVE  \A n \in 0..(Len(otx_entries) - 1) : ~Entered(n)
BY DEF Entered

\* At the start no message was read and no action is related.
LEMMA LockInitActions == LockInit => ActionsInv
<1> SUFFICES ASSUME LockInit PROVE ActionsInv
  OBVIOUS
<1>1. /\ stage = "scan" /\ required_signatures = <<>> /\ related_actions = {}
      /\ tx_level_action_cache = NoCache /\ otx_index = 0 /\ segment_index = 0
  BY DEF LockInit, InitLock
<1>2. ~TxLevelRead /\ Requirements = {}
  BY <1>1 DEF TxLevelRead, Requirements
<1>3. \A n \in 0..(Len(otx_entries) - 1) : ~Entered(n)
  BY <1>1, NoneEntered
<1>4. QED
  BY <1>1, <1>2, <1>3
     DEF ActionsInv, RelatedInv, CacheInv, TxTargetsInv, OtxTargetsInv, NoCache

\* engine.rs build: while the scan runs nothing is related.
LEMMA ScanStepActions ==
  ASSUME LockIInv, ActionsInv, ScanStep
  PROVE  ActionsInv'
<1>1. /\ stage = "scan" /\ stage' = "scan"
      /\ UNCHANGED <<required_signatures, related_actions, tx_level_action_cache,
                     otx_index, segment_index>>
  BY DEF ScanStep, lockVars, plan, position
<1>2. required_signatures = <<>> /\ otx_index = 0 /\ segment_index = 0
  BY <1>1 DEF LockIInv, RequirementsInv, PositionInv
<1>3. ~TxLevelRead /\ ~TxLevelRead' /\ Requirements' = {}
  BY <1>1, <1>2 DEF TxLevelRead, Requirements
<1>4. /\ \A n \in 0..(Len(otx_entries) - 1) : ~Entered(n)
      /\ \A n \in 0..(Len(otx_entries') - 1) : ~Entered(n)'
  BY <1>1, <1>2 DEF Entered
<1>5. related_actions = {} /\ tx_level_action_cache = NoCache
  BY <1>1, <1>3, <1>4 DEF ActionsInv, RelatedInv, CacheInv
<1>6. QED
  BY <1>1, <1>3, <1>4, <1>5
     DEF ActionsInv, RelatedInv, CacheInv, TxTargetsInv, OtxTargetsInv, NoCache

\* engine.rs add_tx_level_requirement: what the requirement rests on was checked, and
\* the cache says so of the message it is about.
LEMMA AddTxLevelRequirementActions ==
  ASSUME LockIInv, ActionsInv, AddTxLevelRequirement
  PROVE  ActionsInv'
<1>1. /\ stage = "tx_requirement" /\ stage' \in {"tx_actions", "rejected"}
      /\ UNCHANGED <<scanVars, lock, related_actions, otx_index, segment_index>>
  BY DEF AddTxLevelRequirement, position, LockFails
<1>2. required_signatures = <<>> /\ ~TxLevelRead /\ ~TxLevelRead'
  BY <1>1 DEF LockIInv, RequirementsInv, TxLevelRead
<1>3. CASE UNCHANGED <<required_signatures, tx_level_action_cache>>
  BY <1>1, <1>2, <1>3, ActionsKept
<1>4. CASE /\ TxLevelError = "none"
           /\ required_signatures' = Append(required_signatures, TxLevelRequirement)
           /\ stage' = "tx_actions"
           /\ tx_level_action_cache' =
                IF SighashAlls = {} THEN tx_level_action_cache
                ELSE [witness_index |-> MessageIndex, targets_checked |-> TRUE]
  <2>1. SighashAlls # {} => ~DuplicateSighashAll /\ TargetsPresent(TxMessage)
    BY <1>4 DEF TxLevelError
  <2>2. \A k : Entered(k)' <=> Entered(k)
    BY <1>1 DEF Entered
  <2>3. RelatedInv' /\ OtxTargetsInv'
    BY <1>1, <1>2, <2>2, MessagesKept DEF ActionsInv, RelatedInv, OtxTargetsInv
  <2>4. CacheInv'
    BY <1>1, <1>4, <2>1, MessagesKept DEF ActionsInv, CacheInv
  <2>5. TxTargetsInv'
    BY <1>1, <1>2, <2>1, MessagesKept DEF TxTargetsInv
  <2>6. QED
    BY <2>3, <2>4, <2>5 DEF ActionsInv
<1>5. QED
  BY <1>3, <1>4 DEF AddTxLevelRequirement

\* engine.rs add_tx_level_actions: the message is related, checked now or before.
LEMMA AddTxLevelActionsActions ==
  ASSUME LockIInv, ActionsInv, AddTxLevelActions
  PROVE  ActionsInv'
<1>1. /\ stage = "tx_actions"
      /\ UNCHANGED <<scanVars, lock, required_signatures, otx_index, segment_index>>
  BY DEF AddTxLevelActions, position
<1>2. ~TxLevelRead
  BY <1>1 DEF TxLevelRead
<1>3. CASE stage' = "rejected" /\ UNCHANGED <<related_actions, tx_level_action_cache>>
  BY <1>1, <1>3, ActionsKept
<1>4. CASE /\ TxActionsError = "none" /\ stage' = "otx"
           /\ IF SighashAlls = {}
                THEN UNCHANGED <<related_actions, tx_level_action_cache>>
                ELSE /\ related_actions' = related_actions \cup TxRelatedActions
                     /\ tx_level_action_cache' =
                          [witness_index |-> MessageIndex,
                           targets_checked |-> CheckedBefore \/ LockActions(TxMessage) # {}]
  <2>1. /\ ~DuplicateSighashAll
        /\ SighashAlls # {} /\ LockActions(TxMessage) # {} => TargetsPresent(TxMessage)
    BY <1>4 DEF TxActionsError, CheckedBefore, ActionsInv, CacheInv
  <2>2. /\ \A k : Entered(k)' <=> Entered(k)
        /\ Requirements' = Requirements
    BY <1>1 DEF Entered, Requirements
  <2>3. RelatedInv'
    <3> DEFINE entered == UNION {OtxRelatedActions(k) :
                                   k \in {n \in 0..(Len(otx_entries) - 1) : Entered(n)}}
    <3>1. related_actions = entered
      BY <1>1, <1>2 DEF ActionsInv, RelatedInv
    <3>2. entered' = entered
      BY <1>1, <2>2, MessagesKept
    <3>3. related_actions' = (IF SighashAlls # {} THEN TxRelatedActions ELSE {}) \cup entered
      BY <1>4, <3>1
    <3>4. TxLevelRead' /\ SighashAlls' = SighashAlls /\ TxRelatedActions' = TxRelatedActions
      BY <1>1, <1>4, MessagesKept DEF TxLevelRead
    <3>5. related_actions' =
            (IF TxLevelRead' /\ SighashAlls' # {} THEN TxRelatedActions' ELSE {}) \cup entered'
      BY <3>2, <3>3, <3>4
    <3>6. QED
      BY <3>5 DEF RelatedInv
  <2>4. CacheInv'
    <3>1. tx_level_action_cache'.targets_checked => SighashAlls # {} /\ TargetsPresent(TxMessage)
      <4>1. CASE SighashAlls = {}
        BY <1>4, <4>1 DEF ActionsInv, CacheInv
      <4>2. CASE SighashAlls # {}
        <5>1. tx_level_action_cache'.targets_checked = (CheckedBefore \/ LockActions(TxMessage) # {})
          <6> DEFINE checked == CheckedBefore \/ LockActions(TxMessage) # {}
          <6>1. tx_level_action_cache' = [witness_index |-> MessageIndex, targets_checked |-> checked]
            BY <1>4, <4>2
          <6> HIDE DEF checked
          <6>2. tx_level_action_cache'.targets_checked = checked
            BY <6>1
          <6>3. QED
            BY <6>2 DEF checked
        <5>2. CheckedBefore => TargetsPresent(TxMessage)
          BY DEF CheckedBefore, ActionsInv, CacheInv
        <5>3. QED
          BY <2>1, <4>2, <5>1, <5>2
      <4>3. QED
        BY <4>1, <4>2
    <3>2. QED
      BY <1>1, <1>4, <3>1, MessagesKept DEF CacheInv
  <2>5. TxTargetsInv'
    BY <1>1, <2>1, <2>2, MessagesKept DEF ActionsInv, TxTargetsInv
  <2>6. OtxTargetsInv'
    BY <1>1, <2>2, MessagesKept DEF ActionsInv, OtxTargetsInv
  <2>7. QED
    BY <2>3, <2>4, <2>5, <2>6 DEF ActionsInv
<1>5. QED
  BY <1>3, <1>4 DEF AddTxLevelActions, LockFails

\* A requirement of an OTX leaves what is known of the tx-level one.
LEMMA OtxRequirementAdded ==
  ASSUME LockIInv, ActionsInv, UNCHANGED <<scanVars, lock, stage>>,
         NEW new, new.origin # "tx_level",
         required_signatures' \in {required_signatures, Append(required_signatures, new)}
  PROVE  TxTargetsInv'
<1>1. \A r \in Requirements' : r \in Requirements \/ r.origin # "tx_level"
  <2> DEFINE n == Len(required_signatures)
  <2>1. required_signatures \in Seq(SigningRequirement) /\ n \in Nat
    BY DEF LockIInv, LockTypeOK
  <2>2. CASE required_signatures' = required_signatures
    BY <2>2 DEF Requirements
  <2>3. CASE required_signatures' = Append(required_signatures, new)
    <3>1. /\ Len(required_signatures') = n + 1 /\ required_signatures'[n + 1] = new
          /\ \A r \in 1..n : required_signatures'[r] = required_signatures[r]
      BY <2>1, <2>3
    <3>2. \A r \in 1..Len(required_signatures') : r \in 1..n \/ r = n + 1
      BY <2>1, <3>1
    <3>3. QED
      BY <3>1, <3>2 DEF Requirements
  <2>4. QED
    BY <2>2, <2>3
<1>2. TxLevelRead' <=> TxLevelRead
  BY DEF TxLevelRead
<1>3. QED
  BY <1>1, <1>2, MessagesKept DEF ActionsInv, TxTargetsInv

\* engine.rs push_otx_actions: the message of the OTX entered is related, and checked
\* if the lock signs for it or is addressed by it.
LEMMA EnterOtxActions ==
  ASSUME LockIInv, ActionsInv, EnterOtx
  PROVE  ActionsInv'
<1> DEFINE k == otx_index
<1>1. /\ stage = "otx" /\ phase = "complete" /\ k < Len(otx_entries) /\ segment_index = 0
      /\ UNCHANGED <<scanVars, lock, tx_level_action_cache>>
  BY DEF EnterOtx
<1>2. CASE /\ stage' = "rejected"
           /\ UNCHANGED <<required_signatures, related_actions, position>>
  BY <1>1, <1>2, ActionsKept DEF position
<1>3. CASE /\ EnterOtxError(k) = "none"
           /\ related_actions' = related_actions \cup OtxRelatedActions(k)
           /\ IF BaseSignature(k)
                THEN required_signatures' = Append(required_signatures, BaseRequirement(k))
                ELSE UNCHANGED required_signatures
           /\ MoveOn(k, 0)
           /\ UNCHANGED <<stage, lock_error>>
  <2>1. k \in Nat /\ Len(otx_entries) \in Nat /\ k \in 0..(Len(otx_entries) - 1)
    BY <1>1 DEF LockIInv, LockTypeOK, IInv, TypeOK
  <2>2. \/ otx_index' = k /\ segment_index' = 1
        \/ otx_index' = k + 1 /\ segment_index' = 0
    BY <1>3 DEF MoveOn
  <2>3. \A n \in 0..(Len(otx_entries) - 1) : Entered(n)' <=> Entered(n) \/ n = k
    BY <1>1, <2>1, <2>2 DEF Entered
  <2>4. TxLevelRead /\ TxLevelRead'
    BY <1>1, <1>3 DEF TxLevelRead
  <2>5. RelatedInv'
    <3> DEFINE entered == {n \in 0..(Len(otx_entries) - 1) : Entered(n)}
               tx_level == IF SighashAlls # {} THEN TxRelatedActions ELSE {}
    <3>1. related_actions = tx_level \cup UNION {OtxRelatedActions(n) : n \in entered}
      BY <1>1, <2>4 DEF ActionsInv, RelatedInv
    <3>2. entered' = entered \cup {k}
      BY <1>1, <2>1, <2>3, MessagesKept
    <3>3. tx_level' = tx_level /\ \A n : OtxRelatedActions(n)' = OtxRelatedActions(n)
      BY <1>1, MessagesKept
    <3> HIDE DEF entered, tx_level
    <3>4. ASSUME NEW ref
          PROVE  (\E n \in entered' : ref \in OtxRelatedActions(n)') <=>
                   (\E n \in entered : ref \in OtxRelatedActions(n)) \/ ref \in OtxRelatedActions(k)
      BY <3>2, <3>3
    <3>5. related_actions' = tx_level' \cup UNION {OtxRelatedActions(n)' : n \in entered'}
      <4>1. \A ref : ref \in related_actions' <=>
              ref \in tx_level' \/ \E n \in entered' : ref \in OtxRelatedActions(n)'
        BY <1>3, <3>1, <3>3, <3>4
      <4>2. QED
        BY <4>1
    <3>6. QED
      BY <2>4, <3>5 DEF RelatedInv, entered, tx_level
  <2>6. CacheInv'
    BY <1>1, <1>3, MessagesKept DEF ActionsInv, CacheInv
  <2>7. TxTargetsInv'
    <3>1. BaseRequirement(k).origin # "tx_level"
      BY DEF BaseRequirement, Requirement
    <3>2. QED
      BY <1>1, <1>3, <3>1, OtxRequirementAdded
  <2>8. OtxTargetsInv'
    <3>1. NeedsSignature(k) \/ LockActions(OtxViewAt(k).message) # {} =>
            TargetsPresent(OtxViewAt(k).message)
      BY <1>3 DEF EnterOtxError
    <3>2. QED
      BY <1>1, <2>3, <3>1, MessagesKept DEF ActionsInv, OtxTargetsInv
  <2>9. QED
    BY <2>5, <2>6, <2>7, <2>8 DEF ActionsInv
<1>4. QED
  BY <1>2, <1>3 DEF EnterOtx, LockFails

\* engine.rs add_otx_signatures: a segment of an OTX that was entered.
LEMMA VisitSegmentActions ==
  ASSUME LockIInv, ActionsInv, VisitSegment
  PROVE  ActionsInv'
<1> DEFINE k == otx_index
           s == segment_index
<1>1. /\ stage = "otx" /\ s > 0
      /\ UNCHANGED <<scanVars, lock, related_actions, tx_level_action_cache>>
  BY DEF VisitSegment
<1>2. k \in Nat /\ s \in Nat /\ Len(otx_entries) \in Nat
  BY DEF LockIInv, LockTypeOK, IInv, TypeOK
<1>3. CASE stage' = "rejected" /\ UNCHANGED <<required_signatures, position>>
  BY <1>1, <1>3, ActionsKept DEF position
<1>4. CASE /\ MoveOn(k, s) /\ UNCHANGED <<stage, lock_error>>
           /\ required_signatures' \in
                {required_signatures, Append(required_signatures, SegmentRequirement(k, s))}
  <2>1. \/ otx_index' = k /\ segment_index' = s + 1
        \/ otx_index' = k + 1 /\ segment_index' = 0
    BY <1>4 DEF MoveOn
  <2>2. \A n \in 0..(Len(otx_entries) - 1) : Entered(n)' <=> Entered(n)
    BY <1>1, <1>2, <2>1 DEF Entered
  <2>3. TxLevelRead /\ TxLevelRead'
    BY <1>1, <1>4 DEF TxLevelRead
  <2>4. RelatedInv'
    <3> DEFINE entered == {n \in 0..(Len(otx_entries) - 1) : Entered(n)}
               tx_level == IF SighashAlls # {} THEN TxRelatedActions ELSE {}
    <3>1. related_actions = tx_level \cup UNION {OtxRelatedActions(n) : n \in entered}
      BY <1>1, <2>3 DEF ActionsInv, RelatedInv
    <3>2. entered' = entered
      BY <1>1, <2>2, MessagesKept
    <3>3. tx_level' = tx_level /\ \A n : OtxRelatedActions(n)' = OtxRelatedActions(n)
      BY <1>1, MessagesKept
    <3> HIDE DEF entered, tx_level
    <3>4. related_actions' = tx_level' \cup UNION {OtxRelatedActions(n)' : n \in entered'}
      BY <1>1, <3>1, <3>2, <3>3
    <3>5. QED
      BY <2>3, <3>4 DEF RelatedInv, entered, tx_level
  <2>5. CacheInv'
    BY <1>1, <1>4, MessagesKept DEF ActionsInv, CacheInv
  <2>6. TxTargetsInv'
    <3>1. SegmentRequirement(k, s).origin # "tx_level"
      BY DEF SegmentRequirement, Requirement
    <3>2. QED
      BY <1>1, <1>4, <3>1, OtxRequirementAdded
  <2>7. OtxTargetsInv'
    BY <1>1, <2>2, MessagesKept DEF ActionsInv, OtxTargetsInv
  <2>8. QED
    BY <2>4, <2>5, <2>6, <2>7 DEF ActionsInv
<1>5. QED
  BY <1>3, <1>4 DEF VisitSegment, LockFails

\* engine.rs, entry.rs: ActionsInv holds in every state of the script.
THEOREM LockActionsInvariant == LockSpec => []ActionsInv
<1>1. ASSUME LockIInv, ActionsInv, [LockNext]_vars
      PROVE  ActionsInv'
  <2>1. CASE ScanStep
    BY <1>1, <2>1, ScanStepActions
  <2>2. CASE AddTxLevelRequirement
    BY <1>1, <2>2, AddTxLevelRequirementActions
  <2>3. CASE AddTxLevelActions
    BY <1>1, <2>3, AddTxLevelActionsActions
  <2>4. CASE EnterOtx
    BY <1>1, <2>4, EnterOtxActions
  <2>5. CASE VisitSegment
    BY <1>1, <2>5, VisitSegmentActions
  <2>6. CASE BeginPlan
    <3>1. /\ stage = "scan" /\ stage' \in {"tx_requirement", "rejected"}
          /\ UNCHANGED <<scanVars, lock, required_signatures, related_actions,
                         tx_level_action_cache, otx_index, segment_index>>
      BY <2>6 DEF BeginPlan, LockFails, plan, position
    <3>2. ~TxLevelRead /\ ~TxLevelRead'
      BY <3>1 DEF TxLevelRead
    <3>3. QED
      BY <1>1, <3>1, <3>2, ActionsKept
  <2>7. CASE AllOtxVisited \/ EnsureCoverage \/ VerifyNext \/ Exit
    <3>1. /\ stage \in {"otx", "coverage", "verify"}
          /\ stage' \in {"coverage", "verify", "accepted", "rejected"}
          /\ UNCHANGED <<scanVars, lock, required_signatures, related_actions,
                         tx_level_action_cache, otx_index, segment_index>>
      BY <2>7 DEF AllOtxVisited, EnsureCoverage, VerifyNext, Exit, LockFails, plan, position
    <3>2. TxLevelRead /\ (stage' # "rejected" => TxLevelRead')
      BY <3>1 DEF TxLevelRead
    <3>3. QED
      BY <1>1, <3>1, <3>2, ActionsKept
  <2>8. CASE UNCHANGED vars
    <3>1. UNCHANGED <<scanVars, lock, stage, required_signatures, related_actions,
                      tx_level_action_cache, otx_index, segment_index>>
      BY <2>8 DEF vars, lockVars, plan, position
    <3>2. TxLevelRead' <=> TxLevelRead
      BY <3>1 DEF TxLevelRead
    <3>3. QED
      BY <1>1, <3>1, <3>2, ActionsKept
  <2>9. QED
    BY <1>1, <2>1, <2>2, <2>3, <2>4, <2>5, <2>6, <2>7, <2>8 DEF LockNext
<1>2. LockIInv /\ ActionsInv /\ [LockNext]_vars => ActionsInv'
  BY <1>1
<1>3. QED
  BY LockInvariant, LockInitActions, <1>2, PTL DEF LockSpec

\* layout.rs, witness.rs: the witnesses that hold a message are those of the collected
\* OTX, numbered in witness order, and those the summaries hold a tx-level message of.
LEMMA MessageWitnessFacts ==
  ASSUME IInv, Scanned
  PROVE  /\ OtxWitnesses = {otx_entries[k + 1] : k \in 0..(Len(otx_entries) - 1)}
         /\ \A k \in 0..(Len(otx_entries) - 1) :
              /\ WitnessAt(otx_entries[k + 1]).kind = "otx"
              /\ Cardinality({v \in OtxWitnesses : v < otx_entries[k + 1]}) = k
         /\ \A w \in SighashAlls :
              /\ WitnessAt(w).kind = "sighash_all"
              /\ WitnessAt(w).message = summaries[w + 1].message
         /\ MessageWitnesses = OtxWitnesses \cup SighashAlls
<1> DEFINE n == Len(otx_entries)
           at(kind) == {i \in 0..(Len(tx.witnesses) - 1) : WitnessAt(i).kind = kind}
<1>1. n \in Nat /\ Len(tx.witnesses) \in Nat /\ start \in Int
  BY DEF IInv, TypeOK, Transaction, None
<1>2. OtxWitnesses = (start + 1)..(start + n)
  BY OneRun DEF OtxRun, OtxWitnesses
<1>3. \A k \in 0..(n - 1) : /\ start \in Nat /\ k \in Nat
                           /\ otx_entries[k + 1] = start + (k + 1)
                           /\ WitnessAt(otx_entries[k + 1]).kind = "otx"
  BY EntryFacts
<1>4. OtxWitnesses = {otx_entries[k + 1] : k \in 0..(n - 1)}
  <2>1. ASSUME NEW w \in OtxWitnesses
        PROVE  \E k \in 0..(n - 1) : w = otx_entries[k + 1]
    <3>1. w - start - 1 \in 0..(n - 1) /\ w = start + ((w - start - 1) + 1)
      BY <1>1, <1>2
    <3>2. QED
      BY <1>3, <3>1
  <2>2. \A k \in 0..(n - 1) : otx_entries[k + 1] \in OtxWitnesses
    BY <1>1, <1>2, <1>3
  <2>3. QED
    BY <2>1, <2>2
<1>5. ASSUME NEW k \in 0..(n - 1)
      PROVE  Cardinality({v \in OtxWitnesses : v < otx_entries[k + 1]}) = k
  <2>1. {v \in OtxWitnesses : v < otx_entries[k + 1]} = (start + 1)..(start + k)
    BY <1>1, <1>2, <1>3
  <2>2. start + 1 \in Int /\ start + k \in Int /\ k \in Nat
    BY <1>3
  <2>3. Cardinality((start + 1)..(start + k))
          = IF start + 1 > start + k THEN 0 ELSE (start + k) - (start + 1) + 1
    BY <2>2, FS_Interval
  <2>4. Cardinality((start + 1)..(start + k)) = k
    <3> DEFINE size == Cardinality((start + 1)..(start + k))
    <3>1. size = IF start + 1 > start + k THEN 0 ELSE (start + k) - (start + 1) + 1
      BY <2>3
    <3> HIDE DEF size
    <3>2. size = k
      BY <1>1, <2>2, <3>1
    <3>3. QED
      BY <3>2 DEF size
  <2>5. QED
    BY <2>1, <2>4
<1>6. \A w \in SighashAlls : /\ WitnessAt(w).kind = "sighash_all"
                             /\ WitnessAt(w) = summaries[w + 1]
  BY SighashAllFacts
<1>7. SighashAlls = at("sighash_all")
  <2>1. witness_count = Len(tx.witnesses)
    BY DEF IInv, CollectedInv, Scanned
  <2>2. ASSUME NEW w \in at("sighash_all")
        PROVE  w \in SighashAlls
    <3>1. summaries[w + 1] = Summary(WitnessAt(w)) /\ WitnessAt(w).kind = "sighash_all"
      BY <2>1 DEF IInv, CollectorInv
    <3>2. summaries[w + 1].kind = "sighash_all"
      BY <3>1 DEF Summary
    <3>3. QED
      BY <1>1, <2>1, <3>2 DEF SighashAlls, SummaryKind, witness_count
  <2>3. \A w \in SighashAlls : w \in 0..(Len(tx.witnesses) - 1)
    BY <2>1 DEF SighashAlls, witness_count
  <2>4. QED
    BY <1>6, <2>2, <2>3
<1>8. MessageWitnesses = OtxWitnesses \cup SighashAlls
  BY <1>7 DEF MessageWitnesses, OtxWitnesses
<1>9. QED
  BY <1>3, <1>4, <1>5, <1>6, <1>8

\* engine.rs checked_tx_level_message_actions, push_otx_actions: a finished plan
\* relates exactly the actions addressed to the lock, each by its place, and every
\* message it relates one of or asks a signature for was checked.
THEOREM LockRelatesActions == LockSpec => []RelatedActionsChecked
<1>1. LockIInv /\ ActionsInv => RelatedActionsChecked
  <2> SUFFICES ASSUME LockIInv, ActionsInv, stage \notin Planning \cup {"rejected"}
               PROVE  RelatedActionsChecked
    BY DEF RelatedActionsChecked
  <2> DEFINE n == Len(otx_entries)
  <2>1. /\ IInv /\ OrderInv /\ Scanned /\ TxLevelRead
        /\ phase = "none" \/ otx_index = n
        /\ n \in Nat /\ otx_index \in Nat
    BY DEF LockIInv, GroupInv, PositionInv, LockTypeOK, Planning, Stage, TxLevelRead, IInv, TypeOK
  <2>2. \A k \in 0..(n - 1) : Entered(k)
    <3>1. phase = "none" => n = 0
      BY <2>1 DEF IInv, CollectorInv
    <3>2. QED
      BY <2>1, <3>1 DEF Entered
  <2>3. ~DuplicateSighashAll
    BY <2>1 DEF ActionsInv, TxTargetsInv
  <2>4. ASSUME NEW w \in SighashAlls
        PROVE  /\ w = MessageIndex /\ WitnessAt(w).kind = "sighash_all"
               /\ MessageAt(w) = TxMessage
    <3>1. w = MessageIndex
      BY <2>3, <2>4 DEF MessageIndex, DuplicateSighashAll
    <3>2. QED
      BY <2>1, <3>1, MessageWitnessFacts DEF MessageAt, TxMessage
  <2>5. ASSUME NEW k \in 0..(n - 1)
        PROVE  MessageAt(otx_entries[k + 1]) = OtxViewAt(k).message
    BY <2>1, MessageWitnessFacts DEF MessageAt, OtxViewAt
  <2> DEFINE RefsAt(w) == {IF WitnessAt(w).kind = "otx"
                             THEN OtxRef(w, Cardinality({v \in OtxWitnesses : v < w}), a - 1)
                             ELSE TxRef(w, a - 1) : a \in LockActions(MessageAt(w))}
             tx_level == IF SighashAlls # {} THEN TxRelatedActions ELSE {}
  <2>6. related_actions = tx_level \cup UNION {OtxRelatedActions(k) : k \in 0..(n - 1)}
    <3>1. {m \in 0..(n - 1) : Entered(m)} = 0..(n - 1)
      BY <2>2
    <3>2. QED
      BY <2>1, <3>1 DEF ActionsInv, RelatedInv, TxLevelRead
  <2>7. ASSUME NEW k \in 0..(n - 1)
        PROVE  RefsAt(otx_entries[k + 1]) = OtxRelatedActions(k)
    <3> DEFINE w == otx_entries[k + 1]
               number == Cardinality({v \in OtxWitnesses : v < w})
    <3>1. WitnessAt(w).kind = "otx" /\ number = k
      BY <2>1, MessageWitnessFacts
    <3>2. MessageAt(w) = OtxViewAt(k).message
      BY <2>5
    <3>3. RefsAt(w) = {OtxRef(w, number, a - 1) : a \in LockActions(MessageAt(w))}
      BY <3>1
    <3> HIDE DEF number, RefsAt
    <3>4. QED
      BY <3>1, <3>2, <3>3 DEF OtxRelatedActions
  <2>8. ASSUME NEW w \in SighashAlls
        PROVE  RefsAt(w) = TxRelatedActions
    BY <2>4 DEF TxRelatedActions
  <2>9. related_actions = UNION {RefsAt(w) : w \in MessageWitnesses}
    <3>1. MessageWitnesses = {otx_entries[k + 1] : k \in 0..(n - 1)} \cup SighashAlls
      BY <2>1, MessageWitnessFacts
    <3> HIDE DEF RefsAt
    <3>2. UNION {RefsAt(w) : w \in SighashAlls} = tx_level
      BY <2>8
    <3>3. UNION {RefsAt(w) : w \in {otx_entries[k + 1] : k \in 0..(n - 1)}}
            = UNION {OtxRelatedActions(k) : k \in 0..(n - 1)}
      BY <2>7
    <3>4. QED
      BY <2>6, <3>1, <3>2, <3>3
  <2>10. ASSUME NEW action \in related_actions
         PROVE  TargetsPresent(MessageAt(action.witness_index))
    <3>1. CASE SighashAlls # {} /\ action \in TxRelatedActions
      <4>1. action.witness_index = MessageIndex /\ LockActions(TxMessage) # {}
        BY <3>1 DEF TxRelatedActions, TxRef
      <4>2. MessageAt(MessageIndex) = TxMessage
        BY <2>4, <3>1
      <4>3. QED
        BY <2>1, <3>1, <4>1, <4>2 DEF ActionsInv, TxTargetsInv
    <3>2. CASE \E k \in 0..(n - 1) : action \in OtxRelatedActions(k)
      <4>1. PICK k \in 0..(n - 1) : action \in OtxRelatedActions(k)
        BY <3>2
      <4>2. /\ action.witness_index = otx_entries[k + 1]
            /\ LockActions(OtxViewAt(k).message) # {}
        BY <4>1 DEF OtxRelatedActions, OtxRef
      <4>3. QED
        BY <2>2, <2>5, <4>2 DEF ActionsInv, OtxTargetsInv
    <3>3. QED
      BY <2>6, <3>1, <3>2
  <2>11. ASSUME NEW r \in Requirements, r.origin = "tx_level", NEW w \in SighashAlls
         PROVE  TargetsPresent(MessageAt(w))
    BY <2>4, <2>11 DEF ActionsInv, TxTargetsInv
  <2>12. ASSUME NEW r \in Requirements, r.origin # "tx_level"
         PROVE  TargetsPresent(MessageAt(r.carrier_witness_index))
    <3>1. Justified(r)
      BY DEF Requirements, LockIInv, RequirementsInv
    <3>2. PICK i \in CurrentLockInputs, p \in 1..Len(pieces) : InPiece(i, p) /\ ForPiece(r, pieces[p])
      BY <2>12, <3>1 DEF Justified, ForTxLevel
    <3>3. PICK k \in 0..(n - 1) : k = pieces[p].otx
      BY <2>1, PieceFacts
    <3>4. pieces[p].segment \in 0..SegmentCount(k)
      <4>1. pieces[p].segment \in Nat /\ pieces[p].segment <= SegmentCount(k)
        BY <2>1, <3>3, PieceFacts DEF OrderInv, PieceIsScope
      <4>2. SegmentCount(k) \in Nat
        BY <2>1, PieceFacts
      <4>3. QED
        BY <4>1, <4>2
    <3>5. ContainsCurrentLock(InputSpan(k, pieces[p].segment))
      BY <2>1, <3>2, <3>3, InputSpanOfPiece DEF ContainsCurrentLock, InPiece
    <3>6. NeedsSignature(k)
      BY <3>4, <3>5 DEF NeedsSignature, SegmentCount
    <3>7. TargetsPresent(OtxViewAt(k).message)
      BY <2>2, <3>6 DEF ActionsInv, OtxTargetsInv
    <3>8. QED
      BY <2>5, <3>2, <3>3, <3>7 DEF ForPiece
  <2>13. QED
    BY <2>9, <2>10, <2>11, <2>12 DEF RelatedActionsChecked
<1>2. QED
  BY <1>1, LockInvariant, LockActionsInvariant, PTL

(***************************************************************************)
(* What the planner went past: PlannedInv, on top of LockIInv and          *)
(* ActionsInv.                                                             *)
(***************************************************************************)
\* The planner changes nothing that its checks and requirements are made of.
LEMMA ChecksKept ==
  ASSUME UNCHANGED <<scanVars, lock>>
  PROVE  /\ SignsTxLevel' <=> SignsTxLevel
         /\ TxLevelError' = TxLevelError
         /\ TxLevelRequirement' = TxLevelRequirement
         /\ LayoutSeen' <=> LayoutSeen
         /\ \A m : Parses(m)' <=> Parses(m)
         /\ \A span : ContainsCurrentLock(span)' <=> ContainsCurrentLock(span)
         /\ \A seals : UniqueSealError(seals)' = UniqueSealError(seals)
         /\ \A k, s : SegmentSignature(k, s)' <=> SegmentSignature(k, s)
         /\ \A k : EnterOtxError(k)' = EnterOtxError(k)
         /\ \A k, s : RequirementOf(k, s)' = RequirementOf(k, s)
<1>1. /\ tx' = tx /\ summaries' = summaries /\ otx_entries' = otx_entries
      /\ pieces' = pieces /\ lock' = lock
      /\ has_cobuild_witness_layout' = has_cobuild_witness_layout
  BY DEF scanVars
<1>2. /\ SighashAlls' = SighashAlls /\ TxMessage' = TxMessage
      /\ DuplicateSighashAll' <=> DuplicateSighashAll
      /\ \A m : LockActions(m)' = LockActions(m)
      /\ \A m : TargetsPresent(m)' <=> TargetsPresent(m)
      /\ \A k : OtxViewAt(k)' = OtxViewAt(k)
      /\ \A k : NeedsSignature(k)' <=> NeedsSignature(k)
  BY MessagesKept
<1>3. SignsTxLevel' <=> SignsTxLevel
  BY <1>1, ScanKept DEF SignsTxLevel
<1>4. \A m : Parses(m)' <=> Parses(m)
  BY DEF Parses
<1>5. CurrentLockInputs' = CurrentLockInputs /\ Carrier' = Carrier
  BY <1>1 DEF CurrentLockInputs, Carrier
<1>6. TxLevelError' = TxLevelError
  <2>1. GroupWitnessesOk' <=> GroupWitnessesOk
    BY <1>1, <1>5 DEF GroupWitnessesOk, SummaryKind
  <2> QED
    BY <1>2, <1>4, <2>1 DEF TxLevelError
<1>7. TxLevelRequirement' = TxLevelRequirement
  BY <1>1, <1>2, <1>5 DEF TxLevelRequirement, Requirement, TxWithoutMessageHash, TxWithMessageHash
<1>8. LayoutSeen' <=> LayoutSeen
  BY <1>1 DEF LayoutSeen, IsCobuildLayout
<1>9. \A span : ContainsCurrentLock(span)' <=> ContainsCurrentLock(span)
  BY <1>5 DEF ContainsCurrentLock
<1>10. \A seals : /\ Matching(seals)' = Matching(seals)
                  /\ UniqueSealError(seals)' = UniqueSealError(seals)
                  /\ UniqueSeal(seals)' = UniqueSeal(seals)
  BY <1>1 DEF UniqueSealError, UniqueSeal, Matching
<1>11. \A k, s : SegmentSignature(k, s)' <=> SegmentSignature(k, s)
  BY <1>1, <1>5 DEF SegmentSignature, ContainsCurrentLock, InputSpan
<1>12. \A k : BaseSignature(k)' <=> BaseSignature(k)
  BY <1>1, <1>5 DEF BaseSignature, ContainsCurrentLock, InputSpan
<1>13. \A k : EnterOtxError(k)' = EnterOtxError(k)
  BY <1>2, <1>4, <1>10, <1>12 DEF EnterOtxError
<1>14. \A k, s : RequirementOf(k, s)' = RequirementOf(k, s)
  <2>1. \A k : BaseRequirement(k)' = BaseRequirement(k)
    BY <1>1, <1>2, <1>10 DEF BaseRequirement, Requirement
  <2>2. \A k, s : SegmentRequirement(k, s)' = SegmentRequirement(k, s)
    BY <1>1, <1>2, <1>10 DEF SegmentRequirement, Requirement
  <2> QED
    BY <2>1, <2>2 DEF RequirementOf
<1> QED
  BY <1>3, <1>4, <1>6, <1>7, <1>8, <1>9, <1>10, <1>11, <1>13, <1>14

\* A step that goes past no scope keeps what is known of the scopes.
LEMMA ScopesChecked ==
  ASSUME PlannedInv, UNCHANGED <<scanVars, lock, otx_index, segment_index>>
  PROVE  /\ LayoutSeen' /\ OtxCheckedInv' /\ SegmentsCheckedInv'
         /\ \A r : Asked(r) => Asked(r)'
<1>1. /\ pieces' = pieces /\ otx_entries' = otx_entries
      /\ \A k : Entered(k)' <=> Entered(k)
      /\ \A p : Past(p)' <=> Past(p)
  BY DEF Entered, Past, scanVars
<1>2. \A k : OtxViewAt(k)' = OtxViewAt(k)
  BY MessagesKept
<1>3. OtxCheckedInv'
  BY <1>1, ChecksKept DEF PlannedInv, OtxCheckedInv
<1>4. SegmentsCheckedInv'
  BY <1>1, <1>2, ChecksKept DEF PlannedInv, SegmentsCheckedInv
<1>5. \A r : Asked(r) => Asked(r)'
  BY <1>1, ChecksKept DEF Asked
<1> QED
  BY <1>3, <1>4, <1>5, ChecksKept DEF PlannedInv

\* A step that plans nothing and goes past nothing keeps PlannedInv.
LEMMA PlannedKept ==
  ASSUME PlannedInv,
         UNCHANGED <<scanVars, lock, required_signatures, tx_level_action_cache,
                     otx_index, segment_index>>,
         stage' \notin {"scan", "tx_requirement", "rejected"} =>
           stage \notin {"scan", "tx_requirement", "rejected"},
         TxLevelRead' => TxLevelRead
  PROVE  PlannedInv'
<1>1. TxCheckedInv'
  BY ChecksKept, MessagesKept DEF PlannedInv, TxCheckedInv
<1>2. AskedInv'
  BY ScopesChecked DEF PlannedInv, AskedInv
<1> QED
  BY <1>1, <1>2, ScopesChecked DEF PlannedInv

\* At the start nothing is planned or gone past.
LEMMA LockInitPlanned == LockInit => PlannedInv
<1> SUFFICES ASSUME LockInit PROVE PlannedInv
  OBVIOUS
<1>1. /\ stage = "scan" /\ required_signatures = <<>> /\ otx_index = 0 /\ segment_index = 0
      /\ tx_level_action_cache = NoCache
      /\ summaries = <<>> /\ has_cobuild_witness_layout = FALSE /\ pieces = <<>>
  BY DEF LockInit, InitLock, Init
<1>2. LayoutSeen /\ AskedInv /\ SegmentsCheckedInv
  BY <1>1 DEF LayoutSeen, AskedInv, SegmentsCheckedInv
<1>3. OtxCheckedInv
  BY <1>1, NoneEntered DEF OtxCheckedInv
<1>4. TxCheckedInv
  BY <1>1 DEF TxCheckedInv, TxLevelRead, NoCache
<1> QED
  BY <1>2, <1>3, <1>4 DEF PlannedInv

\* witness.rs push_witness: has_cobuild_witness_layout is what the summaries say.
LEMMA LayoutSeenKept ==
  ASSUME IInv, LayoutSeen, Next
  PROVE  LayoutSeen'
<1>1. CASE UNCHANGED <<summaries, has_cobuild_witness_layout>>
  BY <1>1 DEF LayoutSeen, IsCobuildLayout
<1>2. CASE RecordSummary(WitnessAt(witness_count))
  <2> DEFINE n == Len(summaries)
             new == Summary(WitnessAt(witness_count))
  <2>1. summaries \in Seq(Witness \cup {OtherCobuildLayout}) /\ n \in Nat
    BY DEF IInv, TypeOK
  <2>2. /\ Len(summaries') = n + 1 /\ summaries'[n + 1] = new
        /\ \A i \in 1..n : summaries'[i] = summaries[i]
        /\ \A i \in 1..Len(summaries') : i \in 1..n \/ i = n + 1
    BY <1>2, <2>1 DEF RecordSummary
  <2>3. has_cobuild_witness_layout' <=> has_cobuild_witness_layout \/ IsCobuildLayout(new)
    BY <1>2 DEF RecordSummary
  <2> HIDE DEF new, n
  <2>4. n + 1 \in 1..Len(summaries') /\ \A i \in 1..n : i \in 1..Len(summaries')
    BY <2>1, <2>2 DEF n
  <2>5. (\E i \in 1..Len(summaries') : IsCobuildLayout(summaries'[i]))
          <=> (\E i \in 1..n : IsCobuildLayout(summaries[i])) \/ IsCobuildLayout(new)
    BY <2>2, <2>4
  <2> QED
    BY <2>3, <2>5 DEF LayoutSeen, IsCobuildLayout, n
<1> QED
  BY <1>1, <1>2
     DEF Next, Push, Finish, PushMalformed, PushTxLevel, PushOtxStart, PushOtx,
         FinishScan, TakeBase, TakeSegment, FinishLayout

\* The scan comes before the first plan.
LEMMA ScanStepPlanned ==
  ASSUME LockIInv, ActionsInv, PlannedInv, ScanStep
  PROVE  PlannedInv'
<1>1. /\ stage = "scan" /\ stage' = "scan" /\ Next
      /\ UNCHANGED <<lock, required_signatures, tx_level_action_cache, otx_index, segment_index>>
  BY DEF ScanStep, lockVars, plan, position
<1>2. /\ required_signatures = <<>> /\ otx_index = 0 /\ segment_index = 0
      /\ tx_level_action_cache = NoCache
  BY <1>1 DEF LockIInv, RequirementsInv, PositionInv, ActionsInv, CacheInv
<1>3. LayoutSeen'
  BY <1>1, LayoutSeenKept DEF LockIInv, PlannedInv
<1>4. AskedInv'
  BY <1>1, <1>2 DEF AskedInv
<1>5. OtxCheckedInv'
  BY <1>1, <1>2 DEF OtxCheckedInv, Entered
<1>6. SegmentsCheckedInv'
  <2>1. IInv'
    BY <1>1, ScanStepInv DEF LockIInv
  <2>2. pieces' \in Seq(Piece)
    BY <2>1 DEF IInv, TypeOK
  <2>3. \A p \in 1..Len(pieces') : pieces'[p] \in Piece
    BY <2>2
  <2>4. \A p \in 1..Len(pieces') : pieces'[p].otx \in Nat /\ pieces'[p].segment \in Nat
    BY <2>3 DEF Piece
  <2>5. \A p \in 1..Len(pieces') : ~Past(pieces[p])'
    BY <1>1, <1>2, <2>4 DEF Past
  <2> QED
    BY <2>5 DEF SegmentsCheckedInv
<1>7. TxCheckedInv'
  BY <1>1, <1>2 DEF TxCheckedInv, TxLevelRead, NoCache
<1> QED
  BY <1>3, <1>4, <1>5, <1>6, <1>7 DEF PlannedInv

\* A requirement is added for a scope that asks for it.
LEMMA AskedAdded ==
  ASSUME LockIInv, PlannedInv, NEW new, Asked(new)', \A r : Asked(r) => Asked(r)',
         required_signatures' \in {required_signatures, Append(required_signatures, new)}
  PROVE  AskedInv'
<1> DEFINE n == Len(required_signatures)
<1>1. required_signatures \in Seq(SigningRequirement) /\ n \in Nat
  BY DEF LockIInv, LockTypeOK
<1>2. \A r \in 1..n : Asked(required_signatures[r])'
  BY DEF PlannedInv, AskedInv
<1>3. CASE required_signatures' = required_signatures
  BY <1>2, <1>3 DEF PlannedInv, AskedInv
<1>4. CASE required_signatures' = Append(required_signatures, new)
  <2>1. /\ Len(required_signatures') = n + 1 /\ required_signatures'[n + 1] = new
        /\ \A r \in 1..n : required_signatures'[r] = required_signatures[r]
    BY <1>1, <1>4
  <2>2. \A r \in 1..Len(required_signatures') : r \in 1..n \/ r = n + 1
    BY <1>1, <2>1
  <2> QED
    BY <1>2, <2>1, <2>2 DEF AskedInv
<1> QED
  BY <1>3, <1>4

\* engine.rs add_tx_level_requirement: the requirement is added where one is due, and
\* only if nothing is wrong.
LEMMA AddTxLevelRequirementPlanned ==
  ASSUME LockIInv, ActionsInv, PlannedInv, AddTxLevelRequirement
  PROVE  PlannedInv'
<1>1. /\ stage = "tx_requirement" /\ stage' \in {"tx_actions", "rejected"}
      /\ UNCHANGED <<scanVars, lock, related_actions, otx_index, segment_index>>
  BY DEF AddTxLevelRequirement, position, LockFails
<1>2. ~TxLevelRead' /\ tx_level_action_cache = NoCache
  BY <1>1 DEF TxLevelRead, ActionsInv, CacheInv
<1>3. CASE stage' = "rejected" /\ UNCHANGED <<required_signatures, tx_level_action_cache>>
  BY <1>1, <1>2, <1>3, PlannedKept
<1>4. CASE ~SignsTxLevel /\ UNCHANGED <<required_signatures, tx_level_action_cache>>
  <2>1. TxCheckedInv'
    BY <1>1, <1>2, <1>4, ChecksKept DEF TxCheckedInv, NoCache
  <2>2. AskedInv'
    BY <1>1, <1>4, ScopesChecked DEF PlannedInv, AskedInv
  <2> QED
    BY <1>1, <2>1, <2>2, ScopesChecked DEF PlannedInv
<1>5. CASE /\ SignsTxLevel /\ TxLevelError = "none"
           /\ required_signatures' = Append(required_signatures, TxLevelRequirement)
           /\ tx_level_action_cache' =
                IF SighashAlls = {} THEN tx_level_action_cache
                ELSE [witness_index |-> MessageIndex, targets_checked |-> TRUE]
  <2>1. SighashAlls # {} => Parses(TxMessage)
    BY <1>5 DEF TxLevelError
  <2>2. tx_level_action_cache'.witness_index # None => SighashAlls # {}
    BY <1>2, <1>5 DEF NoCache
  <2>3. TxCheckedInv'
    BY <1>1, <1>2, <1>5, <2>1, <2>2, ChecksKept, MessagesKept DEF TxCheckedInv
  <2>4. Asked(TxLevelRequirement)'
    BY <1>1, <1>5, ChecksKept DEF Asked
  <2>5. AskedInv'
    <3>1. PICK new : new = TxLevelRequirement
      OBVIOUS
    <3>2. Asked(new)'
      BY <1>1, <2>4, <3>1, ChecksKept
    <3>3. required_signatures' = Append(required_signatures, new)
      BY <1>5, <3>1
    <3> QED
      BY <1>1, <3>2, <3>3, ScopesChecked, AskedAdded
  <2> QED
    BY <1>1, <2>3, <2>5, ScopesChecked DEF PlannedInv
<1> QED
  BY <1>1, <1>3, <1>4, <1>5 DEF AddTxLevelRequirement, SignsTxLevel, LockFails

\* engine.rs add_tx_level_actions: the message was parsed, now or for the cache.
LEMMA AddTxLevelActionsPlanned ==
  ASSUME LockIInv, ActionsInv, PlannedInv, AddTxLevelActions
  PROVE  PlannedInv'
<1>1. /\ stage = "tx_actions"
      /\ UNCHANGED <<scanVars, lock, required_signatures, otx_index, segment_index>>
  BY DEF AddTxLevelActions, position
<1>2. CASE stage' = "rejected" /\ UNCHANGED tx_level_action_cache
  <2>1. ~TxLevelRead'
    BY <1>2 DEF TxLevelRead
  <2> QED
    BY <1>1, <1>2, <2>1, PlannedKept
<1>3. CASE /\ TxActionsError = "none" /\ stage' = "otx"
           /\ IF SighashAlls = {}
                THEN UNCHANGED tx_level_action_cache
                ELSE tx_level_action_cache' =
                       [witness_index |-> MessageIndex,
                        targets_checked |-> CheckedBefore \/ LockActions(TxMessage) # {}]
  <2>1. SighashAlls # {} => Parses(TxMessage)
    <3> SUFFICES ASSUME SighashAlls # {} PROVE Parses(TxMessage)
      OBVIOUS
    <3>1. CASE Cached
      <4>1. MessageIndex \in Nat
        BY MessageFacts DEF LockIInv, IInv
      <4>2. MessageIndex # None
        BY <4>1 DEF None
      <4> QED
        BY <3>1, <4>2 DEF Cached, PlannedInv, TxCheckedInv
    <3>2. CASE ~Cached
      BY <1>3, <3>2 DEF TxActionsError
    <3> QED
      BY <3>1, <3>2
  <2>2. tx_level_action_cache'.witness_index # None => SighashAlls # {}
    BY <1>3 DEF PlannedInv, TxCheckedInv
  <2>3. SignsTxLevel => TxLevelError = "none"
    BY <1>1 DEF PlannedInv, TxCheckedInv
  <2>4. TxCheckedInv'
    BY <1>1, <2>1, <2>2, <2>3, ChecksKept, MessagesKept DEF TxCheckedInv
  <2>5. AskedInv'
    BY <1>1, ScopesChecked DEF PlannedInv, AskedInv
  <2> QED
    BY <1>1, <2>4, <2>5, ScopesChecked DEF PlannedInv
<1> QED
  BY <1>2, <1>3 DEF AddTxLevelActions, LockFails

\* engine.rs add_otx_requirements: a scope that was visited without an error.
LEMMA VisitPlanned ==
  ASSUME LockIInv, PlannedInv, stage = "otx", stage' = "otx", phase = "complete",
         otx_index < Len(otx_entries), MoveOn(otx_index, segment_index),
         UNCHANGED <<scanVars, lock, tx_level_action_cache>>,
         EnterOtxError(otx_index) = "none",
         segment_index > 0 /\ SegmentSignature(otx_index, segment_index) =>
           UniqueSealError(OtxViewAt(otx_index).segments[segment_index].seals) = "none",
         IF ContainsCurrentLock(InputSpan(otx_index, segment_index))
           THEN required_signatures' =
                  Append(required_signatures, RequirementOf(otx_index, segment_index))
           ELSE UNCHANGED required_signatures
  PROVE  PlannedInv'
<1> DEFINE k == otx_index
           s == segment_index
<1>1. /\ k \in Nat /\ s \in Nat /\ Len(otx_entries) \in Nat /\ k \in 0..(Len(otx_entries) - 1)
      /\ s \in 0..SegmentCount(k)
      /\ \A p \in 1..Len(pieces) : Past(pieces[p])' <=>
           Past(pieces[p]) \/ (pieces[p].otx = k /\ pieces[p].segment = s)
  BY MoveOnFacts DEF LockIInv, LockTypeOK, IInv, TypeOK
<1>2. pieces' = pieces /\ otx_entries' = otx_entries
  BY DEF scanVars
<1>3. /\ TxLevelRead' <=> TxLevelRead
      /\ \A n : OtxViewAt(n)' = OtxViewAt(n)
  BY MessagesKept DEF TxLevelRead
<1>4. TxCheckedInv'
  BY <1>3, ChecksKept, MessagesKept DEF PlannedInv, TxCheckedInv
<1>5. OtxCheckedInv'
  <2>1. \/ otx_index' = k /\ segment_index' = s + 1
        \/ otx_index' = k + 1 /\ segment_index' = 0
    BY DEF MoveOn
  <2>2. \A n \in 0..(Len(otx_entries) - 1) : Entered(n)' => Entered(n) \/ n = k
    BY <1>1, <2>1 DEF Entered
  <2> QED
    BY <1>2, <2>2, ChecksKept DEF PlannedInv, OtxCheckedInv
<1>6. SegmentsCheckedInv'
  <2>1. ASSUME NEW p \in 1..Len(pieces), Past(pieces[p])', pieces[p].segment > 0,
               SegmentSignature(pieces[p].otx, pieces[p].segment)
        PROVE  UniqueSealError(OtxViewAt(pieces[p].otx).segments[pieces[p].segment].seals) = "none"
    BY <1>1, <2>1 DEF PlannedInv, SegmentsCheckedInv
  <2> QED
    BY <1>2, <1>3, <2>1, ChecksKept DEF SegmentsCheckedInv
<1>7. \A r : Asked(r) => Asked(r)'
  BY <1>1, <1>2, ChecksKept DEF Asked
<1>8. AskedInv'
  <2>1. CASE ~ContainsCurrentLock(InputSpan(k, s))
    BY <1>7, <2>1 DEF PlannedInv, AskedInv
  <2>2. CASE ContainsCurrentLock(InputSpan(k, s))
    <3>1. PICK p \in PiecesOf(k) : pieces[p].segment = s
      BY <1>1, EveryScopeTaken DEF LockIInv
    <3>2. p \in 1..Len(pieces) /\ pieces[p].otx = k
      BY DEF PiecesOf
    <3>3. Past(pieces[p])' /\ ContainsCurrentLock(pieces[p].span["inputs"])
      BY <1>1, <2>2, <3>1, <3>2, InputSpanOfPiece DEF LockIInv
    <3>4. PICK new : new = RequirementOf(k, s)
      OBVIOUS
    <3>5. Asked(new)'
      <4>1. new = RequirementOf(pieces[p].otx, pieces[p].segment)
        BY <3>1, <3>2, <3>4
      <4>2. RequirementOf(pieces[p].otx, pieces[p].segment)' = new
        BY <1>2, <4>1, ChecksKept
      <4> QED
        BY <1>2, <3>2, <3>3, <4>2, ChecksKept DEF Asked
    <3>6. required_signatures' = Append(required_signatures, new)
      BY <2>2, <3>4
    <3> QED
      BY <1>7, <3>5, <3>6, AskedAdded
  <2> QED
    BY <2>1, <2>2
<1> QED
  BY <1>4, <1>5, <1>6, <1>8, ChecksKept DEF PlannedInv

\* engine.rs add_otx_requirement: the base of one OTX.
LEMMA EnterOtxPlanned ==
  ASSUME LockIInv, PlannedInv, EnterOtx
  PROVE  PlannedInv'
<1> DEFINE k == otx_index
<1>1. /\ stage = "otx" /\ phase = "complete" /\ k < Len(otx_entries) /\ segment_index = 0
      /\ UNCHANGED <<scanVars, lock, tx_level_action_cache>>
  BY DEF EnterOtx
<1>2. CASE /\ stage' = "rejected"
           /\ UNCHANGED <<required_signatures, position>>
  BY <1>1, <1>2, PlannedKept DEF position, TxLevelRead
<1>3. CASE /\ EnterOtxError(k) = "none"
           /\ IF BaseSignature(k)
                THEN required_signatures' = Append(required_signatures, BaseRequirement(k))
                ELSE UNCHANGED required_signatures
           /\ MoveOn(k, 0)
           /\ UNCHANGED stage
  <2>1. MoveOn(otx_index, segment_index) /\ stage' = "otx" /\ ~(segment_index > 0)
    BY <1>1, <1>3
  <2>2. /\ BaseSignature(k) <=> ContainsCurrentLock(InputSpan(otx_index, segment_index))
        /\ BaseRequirement(k) = RequirementOf(otx_index, segment_index)
    BY <1>1 DEF BaseSignature, RequirementOf
  <2> QED
    BY <1>1, <1>3, <2>1, <2>2, VisitPlanned
<1> QED
  BY <1>2, <1>3 DEF EnterOtx, LockFails

\* engine.rs add_otx_signatures: one append segment.
LEMMA VisitSegmentPlanned ==
  ASSUME LockIInv, PlannedInv, VisitSegment
  PROVE  PlannedInv'
<1> DEFINE k == otx_index
           s == segment_index
           seals == OtxViewAt(k).segments[s].seals
<1>1. /\ stage = "otx" /\ s > 0
      /\ UNCHANGED <<scanVars, lock, tx_level_action_cache>>
  BY DEF VisitSegment
<1>2. phase = "complete" /\ k < Len(otx_entries)
  BY <1>1 DEF LockIInv, PositionInv
<1>3. EnterOtxError(k) = "none"
  <2>1. k \in 0..(Len(otx_entries) - 1)
    BY <1>2 DEF LockIInv, LockTypeOK, IInv, TypeOK
  <2> QED
    BY <1>1, <2>1 DEF Entered, PlannedInv, OtxCheckedInv
<1>4. CASE stage' = "rejected" /\ UNCHANGED <<required_signatures, position>>
  BY <1>1, <1>4, PlannedKept DEF position, TxLevelRead
<1>5. CASE /\ MoveOn(k, s) /\ UNCHANGED stage
           /\ \/ ~SegmentSignature(k, s) /\ UNCHANGED required_signatures
              \/ /\ SegmentSignature(k, s)
                 /\ UniqueSealError(seals) = "none"
                 /\ required_signatures' = Append(required_signatures, SegmentRequirement(k, s))
  <2>1. /\ SegmentSignature(k, s) <=> ContainsCurrentLock(InputSpan(otx_index, segment_index))
        /\ SegmentRequirement(k, s) = RequirementOf(otx_index, segment_index)
    BY <1>1 DEF SegmentSignature, RequirementOf
  <2> QED
    BY <1>1, <1>2, <1>3, <1>5, <2>1, VisitPlanned
<1> QED
  BY <1>4, <1>5 DEF VisitSegment, LockFails

\* engine.rs, entry.rs: PlannedInv holds in every state of the script.
THEOREM LockPlannedInvariant == LockSpec => []PlannedInv
<1>1. ASSUME LockIInv, ActionsInv, PlannedInv, [LockNext]_vars
      PROVE  PlannedInv'
  <2>1. CASE ScanStep
    BY <1>1, <2>1, ScanStepPlanned
  <2>2. CASE AddTxLevelRequirement
    BY <1>1, <2>2, AddTxLevelRequirementPlanned
  <2>3. CASE AddTxLevelActions
    BY <1>1, <2>3, AddTxLevelActionsPlanned
  <2>4. CASE EnterOtx
    BY <1>1, <2>4, EnterOtxPlanned
  <2>5. CASE VisitSegment
    BY <1>1, <2>5, VisitSegmentPlanned
  <2>6. CASE BeginPlan
    <3>1. /\ stage = "scan" /\ stage' \in {"tx_requirement", "rejected"}
          /\ UNCHANGED <<scanVars, lock, required_signatures, tx_level_action_cache,
                         otx_index, segment_index>>
      BY <2>6 DEF BeginPlan, LockFails, plan, position
    <3> QED
      BY <1>1, <3>1, PlannedKept DEF TxLevelRead
  <2>7. CASE AllOtxVisited \/ EnsureCoverage \/ VerifyNext \/ Exit
    <3>1. /\ stage \in {"otx", "coverage", "verify"}
          /\ UNCHANGED <<scanVars, lock, required_signatures, tx_level_action_cache,
                         otx_index, segment_index>>
      BY <2>7 DEF AllOtxVisited, EnsureCoverage, VerifyNext, Exit, LockFails, plan, position
    <3> QED
      BY <1>1, <3>1, PlannedKept DEF TxLevelRead
  <2>8. CASE UNCHANGED vars
    BY <1>1, <2>8, PlannedKept DEF vars, lockVars, plan, position, TxLevelRead
  <2> QED
    BY <1>1, <2>1, <2>2, <2>3, <2>4, <2>5, <2>6, <2>7, <2>8 DEF LockNext
<1>2. LockIInv /\ ActionsInv /\ PlannedInv /\ [LockNext]_vars => PlannedInv'
  BY <1>1
<1> QED
  BY LockInvariant, LockActionsInvariant, LockInitPlanned, <1>2, PTL DEF LockSpec

(***************************************************************************)
(* The rules, and what the planner computes.                               *)
(***************************************************************************)
\* The lock planner's rules of scopes and messages are those of every planner.
LEMMA LockScopesAre ==
  ASSUME NEW t
  PROVE  /\ \A kind : LockPromise!At(t, kind) = Rules!At(t, kind)
         /\ LockPromise!FirstOtx(t) = Rules!FirstOtx(t)
         /\ LockPromise!OtxNumbers(t) = Rules!OtxNumbers(t)
         /\ \A k : LockPromise!ViewOf(t, k) = Rules!ViewOf(t, k)
         /\ LockPromise!Scopes(t) = Rules!Scopes(t)
         /\ \A scope, d : LockPromise!ScopeStart(t, scope, d) = Rules!ScopeStart(t, scope, d)
         /\ \A scope, d, i : LockPromise!Holds(t, scope, d, i) <=> Rules!Holds(t, scope, d, i)
         /\ \A d, i : LockPromise!Remains(t, d, i) <=> Rules!Remains(t, d, i)
<1>1. \A kind : LockPromise!At(t, kind) = Rules!At(t, kind)
  BY DEF LockPromise!At, LockPromise!Positions, Rules!At, Rules!Positions
<1>2. LockPromise!FirstOtx(t) = Rules!FirstOtx(t)
  BY DEF LockPromise!FirstOtx, Rules!FirstOtx, LockPromise!At, Rules!At,
         LockPromise!Positions, Rules!Positions
<1>3. LockPromise!OtxNumbers(t) = Rules!OtxNumbers(t)
  <2>1. \A S : LockPromise!Cardinality(S) = Rules!Cardinality(S)
    BY DEF LockPromise!Cardinality, Rules!Cardinality
  <2> QED
    BY <1>1, <2>1 DEF LockPromise!OtxNumbers, Rules!OtxNumbers
<1>4. \A k : LockPromise!ViewOf(t, k) = Rules!ViewOf(t, k)
  BY <1>2 DEF LockPromise!ViewOf, Rules!ViewOf
<1>5. LockPromise!Scopes(t) = Rules!Scopes(t)
  BY <1>3, <1>4 DEF LockPromise!Scopes, Rules!Scopes
<1>6. \A scope, d : LockPromise!ScopeStart(t, scope, d) = Rules!ScopeStart(t, scope, d)
  <2> SUFFICES ASSUME NEW scope, NEW d
               PROVE  LockPromise!ScopeStart(t, scope, d) = Rules!ScopeStart(t, scope, d)
    OBVIOUS
  <2> QED
    BY Zenon DEF LockPromise!ScopeStart, Rules!ScopeStart, LockPromise!ItemsIn, Rules!ItemsIn,
       LockPromise!Before, Rules!Before, LockPromise!Scopes, Rules!Scopes,
       LockPromise!ViewOf, Rules!ViewOf, LockPromise!OtxNumbers, Rules!OtxNumbers,
       LockPromise!Cardinality, Rules!Cardinality, LockPromise!FirstOtx, Rules!FirstOtx,
       LockPromise!At, Rules!At, LockPromise!Positions, Rules!Positions,
       LockPromise!MapThenSumSet, Rules!MapThenSumSet,
       LockPromise!MapThenFoldSet, Rules!MapThenFoldSet
<1>7. \A scope, d : LockPromise!ItemsIn(t, scope, d) = Rules!ItemsIn(t, scope, d)
  BY <1>4 DEF LockPromise!ItemsIn, Rules!ItemsIn
<1>8. \A scope, d, i : LockPromise!Holds(t, scope, d, i) <=> Rules!Holds(t, scope, d, i)
  BY <1>6, <1>7 DEF LockPromise!Holds, Rules!Holds
<1>9. \A d, i : LockPromise!Remains(t, d, i) <=> Rules!Remains(t, d, i)
  BY <1>1, <1>5, <1>8 DEF LockPromise!Remains, Rules!Remains
<1> QED
  BY <1>1, <1>2, <1>3, <1>4, <1>5, <1>6, <1>8, <1>9

\* engine.rs, plan.rs: and so are its rules of what a message and its actions must be.
LEMMA LockMessagesAre ==
  ASSUME NEW t
  PROVE  /\ LockPromise!TxMessages(t) = Rules!TxMessages(t)
         /\ \A S : LockPromise!Cardinality(S) = Rules!Cardinality(S)
         /\ \A message : LockPromise!Legible(message) <=> Rules!Legible(message)
         /\ \A message : LockPromise!OnTarget(t, message) <=> Rules!OnTarget(t, message)
         /\ LockPromise!Verdict(t) = ScanPromise!Verdict(t)
<1>1. LockPromise!TxMessages(t) = Rules!TxMessages(t)
  BY LockScopesAre DEF LockPromise!TxMessages, Rules!TxMessages
<1>2. \A S : LockPromise!Cardinality(S) = Rules!Cardinality(S)
  BY DEF LockPromise!Cardinality, Rules!Cardinality
<1>3. \A message : LockPromise!Legible(message) <=> Rules!Legible(message)
  BY DEF LockPromise!Legible, Rules!Legible, LockPromise!ActionsOf, Rules!ActionsOf
<1>4. \A message : LockPromise!OnTarget(t, message) <=> Rules!OnTarget(t, message)
  BY DEF LockPromise!OnTarget, Rules!OnTarget, LockPromise!ActionsOf, Rules!ActionsOf,
         LockPromise!KnownTargets, Rules!KnownTargets
<1>5. LockPromise!Verdict(t) = ScanPromise!Verdict(t)
  BY Zenon DEF LockPromise!Verdict, ScanPromise!Verdict, LockPromise!At, ScanPromise!At,
     LockPromise!Positions, ScanPromise!Positions, LockPromise!OneRun, ScanPromise!OneRun,
     LockPromise!Cardinality, ScanPromise!Cardinality, LockPromise!Views, ScanPromise!Views,
     LockPromise!WellFormed, ScanPromise!WellFormed, LockPromise!SegmentsOf, ScanPromise!SegmentsOf,
     LockPromise!Fits, ScanPromise!Fits, LockPromise!TakenByAll, ScanPromise!TakenByAll,
     LockPromise!Taken, ScanPromise!Taken, LockPromise!MapThenSumSet, ScanPromise!MapThenSumSet,
     LockPromise!MapThenFoldSet, ScanPromise!MapThenFoldSet, LockPromise!Dim, ScanPromise!Dim
<1> QED
  BY <1>1, <1>2, <1>3, <1>4, <1>5

\* context.rs: the inputs of the group, and the first of them.
LEMMA GroupIs ==
  /\ LockPromise!Group(tx, lock) = CurrentLockInputs
  /\ LockPromise!Carrier(tx, lock) = Carrier
BY DEF LockPromise!Group, CurrentLockInputs, LockPromise!Carrier, Carrier

\* witness.rs summary: what the summaries of a finished scan say of the witnesses.
LEMMA SummariesAre ==
  ASSUME IInv, NoneMalformed, Scanned
  PROVE  /\ Len(summaries) \in Nat /\ Len(summaries) = Len(tx.witnesses)
         /\ \A i \in 0..(Len(summaries) - 1) :
              /\ summaries[i + 1] = Summary(WitnessAt(i))
              /\ WitnessAt(i) = tx.witnesses[i + 1]
              /\ WitnessAt(i).kind \in
                   {"empty", "legacy", "sighash_all", "sighash_all_only", "otx_start", "otx"}
              /\ WitnessAt(i).kind \in {"empty", "legacy", "sighash_all", "sighash_all_only"} =>
                   SummaryKind(i) = WitnessAt(i).kind
              /\ WitnessAt(i).kind \in {"otx_start", "otx"} =>
                   SummaryKind(i) = "other_cobuild_layout"
<1>1. /\ Len(summaries) \in Nat /\ Len(summaries) = Len(tx.witnesses)
      /\ \A i \in 0..(Len(summaries) - 1) : summaries[i + 1] = Summary(WitnessAt(i))
  BY DEF IInv, TypeOK, CollectorInv, CollectedInv, Scanned, witness_count
<1>2. tx.witnesses \in Seq(Witness)
  BY DEF IInv, TypeOK, Transaction
<1> SUFFICES ASSUME NEW i \in 0..(Len(summaries) - 1)
             PROVE  /\ WitnessAt(i).kind \in
                        {"empty", "legacy", "sighash_all", "sighash_all_only", "otx_start", "otx"}
                    /\ WitnessAt(i).kind \in {"empty", "legacy", "sighash_all", "sighash_all_only"}
                         => SummaryKind(i) = WitnessAt(i).kind
                    /\ WitnessAt(i).kind \in {"otx_start", "otx"} =>
                         SummaryKind(i) = "other_cobuild_layout"
  BY <1>1 DEF WitnessAt
<1>3. WitnessAt(i) \in Witness
  BY <1>1, <1>2 DEF WitnessAt
<1>4. WitnessAt(i).kind # "malformed"
  BY <1>1 DEF NoneMalformed, Scanned, witness_count
<1>5. SummaryKind(i) = Summary(WitnessAt(i)).kind
  BY <1>1 DEF SummaryKind
<1> HIDE DEF WitnessAt
<1>6. WitnessAt(i).kind \in {"empty", "legacy", "malformed", "sighash_all", "sighash_all_only",
                            "otx_start", "otx"}
  BY <1>3 DEF Witness
<1> QED
  BY <1>4, <1>5, <1>6 DEF Summary, OtherCobuildLayout

\* witness.rs has_cobuild_witness_layout.
LEMMA HasLayoutIs ==
  ASSUME IInv, OrderInv, NoneMalformed, LayoutSeen, Scanned
  PROVE  LockPromise!HasLayout(tx) <=> has_cobuild_witness_layout
<1> DEFINE n == Len(summaries)
<1>1. /\ n \in Nat
      /\ \A kind : LockPromise!At(tx, kind) = {i \in 0..(n - 1) : WitnessAt(i).kind = kind}
  BY SummariesAre DEF LockPromise!At, LockPromise!Positions, WitnessAt
<1>2. \A i \in 1..n : IsCobuildLayout(summaries[i]) <=>
        WitnessAt(i - 1).kind \in {"sighash_all", "sighash_all_only", "otx_start", "otx"}
  <2> SUFFICES ASSUME NEW i \in 1..n
               PROVE  IsCobuildLayout(summaries[i]) <=>
                        WitnessAt(i - 1).kind \in
                          {"sighash_all", "sighash_all_only", "otx_start", "otx"}
    OBVIOUS
  <2>1. i - 1 \in 0..(n - 1) /\ (i - 1) + 1 = i
    BY <1>1
  <2>2. SummaryKind(i - 1) = summaries[i].kind
    BY <1>1, <2>1 DEF SummaryKind
  <2> QED
    BY <2>1, <2>2, SummariesAre DEF IsCobuildLayout
<1>3. (\E i \in 1..n : IsCobuildLayout(summaries[i]))
        <=> \E kind \in {"sighash_all", "sighash_all_only", "otx_start", "otx"} :
              LockPromise!At(tx, kind) # {}
  <2>1. ASSUME NEW i \in 1..n, IsCobuildLayout(summaries[i])
        PROVE  \E kind \in {"sighash_all", "sighash_all_only", "otx_start", "otx"} :
                 LockPromise!At(tx, kind) # {}
    <3>1. i - 1 \in 0..(n - 1)
      BY <1>1
    <3>2. i - 1 \in LockPromise!At(tx, WitnessAt(i - 1).kind)
      BY <1>1, <3>1
    <3> QED
      BY <1>2, <2>1, <3>2
  <2>2. ASSUME NEW kind \in {"sighash_all", "sighash_all_only", "otx_start", "otx"},
               NEW j \in LockPromise!At(tx, kind)
        PROVE  \E i \in 1..n : IsCobuildLayout(summaries[i])
    <3>1. j \in 0..(n - 1) /\ WitnessAt(j).kind = kind
      BY <1>1
    <3>2. j + 1 \in 1..n /\ (j + 1) - 1 = j
      BY <1>1, <3>1
    <3>3. IsCobuildLayout(summaries[j + 1])
      BY <1>2, <3>1, <3>2
    <3> QED
      BY <3>2, <3>3
  <2> QED
    BY <2>1, <2>2
<1>4. LockPromise!At(tx, "otx_start") # {} => LockPromise!At(tx, "otx") # {}
  <2>1. CASE phase = "none"
    <3>1. LockPromise!At(tx, "otx_start") = {}
      BY <2>1, NoneCollected, PositionsAre, SamePositions, LockScopesAre
    <3> QED
      BY <3>1
  <2>2. CASE phase = "complete"
    BY <2>2, SomeOtx, LockScopesAre
  <2> QED
    BY <2>1, <2>2 DEF Scanned
<1> HIDE DEF n
<1>5. LayoutSeen <=> (has_cobuild_witness_layout <=> \E i \in 1..n : IsCobuildLayout(summaries[i]))
  BY DEF LayoutSeen, n
<1> QED
  BY <1>3, <1>4, <1>5 DEF LockPromise!HasLayout

\* engine.rs current_lock_needs_tx_level_signature.
LEMMA SignedAtTxLevelIs ==
  ASSUME IInv, OrderInv, CursorSums, NoneMalformed, LayoutSeen, Scanned, GroupInv
  PROVE  LockPromise!SignedAtTxLevel(tx, lock) <=> SignsTxLevel
<1>1. CurrentLockInputs # {} /\ CurrentLockInputs \subseteq Nat
  BY GroupFacts DEF IInv
<1>2. \A i \in CurrentLockInputs :
        LockPromise!Remains(tx, "inputs", i) <=> (phase = "none" \/ ~InSpan(i, InputRange))
  BY <1>1, RemainsIsOutside, LockScopesAre DEF InputRange, Dim
<1>3. LockPromise!TxLevelInputs(tx, lock) # {} <=> NeedsTxLevelSignature
  BY <1>1, <1>2, GroupIs DEF LockPromise!TxLevelInputs, NeedsTxLevelSignature, Scanned
<1> QED
  BY <1>3, HasLayoutIs DEF LockPromise!SignedAtTxLevel, SignsTxLevel

\* engine.rs ensure_non_carrier_witnesses_empty, tx_level_carrier_view.
LEMMA GroupWitnessesAre ==
  ASSUME IInv, NoneMalformed, Scanned, GroupInv
  PROVE  LockPromise!GroupWitnesses(tx, lock) <=> GroupWitnessesOk
<1>1. CurrentLockInputs \subseteq Nat /\ Carrier \in CurrentLockInputs
  BY GroupFacts DEF IInv
<1>2. /\ Len(summaries) \in Nat
      /\ LockPromise!Positions(tx) = 0..(Len(summaries) - 1)
      /\ \A kind : LockPromise!At(tx, kind)
                     = {i \in 0..(Len(summaries) - 1) : WitnessAt(i).kind = kind}
  BY SummariesAre DEF LockPromise!At, LockPromise!Positions, WitnessAt
<1>3. ASSUME NEW i \in Nat
      PROVE  /\ SummaryKind(i) \in {"sighash_all", "sighash_all_only"} <=>
                   i \in LockPromise!At(tx, "sighash_all") \cup LockPromise!At(tx, "sighash_all_only")
             /\ SummaryKind(i) \in {"empty", "absent"} <=>
                   (i \in LockPromise!Positions(tx) => i \in LockPromise!At(tx, "empty"))
  <2>1. CASE i \in 0..(Len(summaries) - 1)
    BY <1>2, <2>1, SummariesAre
  <2>2. CASE i \notin 0..(Len(summaries) - 1)
    <3>1. SummaryKind(i) = "absent"
      BY <1>2, <2>2 DEF SummaryKind
    <3> QED
      BY <1>2, <2>2, <3>1
  <2> QED
    BY <2>1, <2>2
<1> QED
  BY <1>1, <1>3, GroupIs DEF LockPromise!GroupWitnesses, GroupWitnessesOk

\* engine.rs input_range_contains_current_lock: the scopes that spend an input of the group
\* are the pieces that hold one.
LEMMA SpendingIs ==
  ASSUME IInv, OrderInv, CursorSums, phase = "complete"
  PROVE  /\ \A p \in 1..Len(pieces) :
              <<pieces[p].otx, pieces[p].segment>> \in LockPromise!Spending(tx, lock)
                <=> ContainsCurrentLock(pieces[p].span["inputs"])
         /\ \A scope \in LockPromise!Spending(tx, lock) :
              \E p \in 1..Len(pieces) : scope = <<pieces[p].otx, pieces[p].segment>>
<1>1. LockPromise!OtxScopes(tx) = Rules!Scopes(tx)
  BY SomeOtx, LockScopesAre DEF LockPromise!OtxScopes
<1>2. LockPromise!Spending(tx, lock)
        = {scope \in Rules!Scopes(tx) :
             \E i \in CurrentLockInputs : Rules!Holds(tx, scope, "inputs", i)}
  BY <1>1, GroupIs, LockScopesAre DEF LockPromise!Spending
<1>3. ASSUME NEW p \in 1..Len(pieces)
      PROVE  <<pieces[p].otx, pieces[p].segment>> \in LockPromise!Spending(tx, lock)
               <=> ContainsCurrentLock(pieces[p].span["inputs"])
  <2> DEFINE scope == <<pieces[p].otx, pieces[p].segment>>
  <2>1. "inputs" \in Dim
    BY DEF Dim
  <2>2. scope \in Rules!Scopes(tx)
    BY <2>1, PieceIsItsScope
  <2>3. \A i : Rules!Holds(tx, scope, "inputs", i) <=> InSpan(i, pieces[p].span["inputs"])
    BY <2>1, PieceHolds
  <2> HIDE DEF scope
  <2>4. scope \in LockPromise!Spending(tx, lock) <=> ContainsCurrentLock(pieces[p].span["inputs"])
    BY <1>2, <2>2, <2>3 DEF ContainsCurrentLock
  <2> QED
    BY <2>4 DEF scope
<1>4. \A scope \in LockPromise!Spending(tx, lock) :
        \E p \in 1..Len(pieces) : scope = <<pieces[p].otx, pieces[p].segment>>
  BY <1>2, ScopeIsAPiece
<1> QED
  BY <1>3, <1>4

\* engine.rs add_otx_signatures: an OTX needs a signature if one of its scopes spends.
LEMMA SpendsIs ==
  ASSUME IInv, OrderInv, CursorSums, phase = "complete",
         NEW k \in 0..(Len(otx_entries) - 1)
  PROVE  (\E scope \in LockPromise!Spending(tx, lock) : scope[1] = k) <=> NeedsSignature(k)
<1>1. ASSUME NEW scope \in LockPromise!Spending(tx, lock), scope[1] = k
      PROVE  NeedsSignature(k)
  <2>1. PICK p \in 1..Len(pieces) : scope = <<pieces[p].otx, pieces[p].segment>>
    BY SpendingIs
  <2>2. pieces[p].otx = k /\ pieces[p].segment \in 0..SegmentCount(k)
    <3>1. pieces[p].otx = k
      BY <1>1, <2>1
    <3>2. pieces[p].segment \in Nat /\ SegmentCount(k) \in Nat /\ pieces[p].segment <= SegmentCount(k)
      BY <3>1, PieceFacts DEF OrderInv, PieceIsScope
    <3> QED
      BY <3>1, <3>2
  <2>3. ContainsCurrentLock(InputSpan(k, pieces[p].segment))
    BY <2>1, <2>2, SpendingIs, InputSpanOfPiece
  <2> QED
    BY <2>2, <2>3 DEF NeedsSignature, SegmentCount
<1>2. ASSUME NEW s \in 0..SegmentCount(k), ContainsCurrentLock(InputSpan(k, s))
      PROVE  \E scope \in LockPromise!Spending(tx, lock) : scope[1] = k
  <2>1. PICK p \in PiecesOf(k) : pieces[p].segment = s
    BY EveryScopeTaken
  <2>2. p \in 1..Len(pieces) /\ pieces[p].otx = k
    BY DEF PiecesOf
  <2>3. ContainsCurrentLock(pieces[p].span["inputs"])
    BY <1>2, <2>1, <2>2, InputSpanOfPiece
  <2>4. <<pieces[p].otx, pieces[p].segment>> \in LockPromise!Spending(tx, lock)
    BY <2>2, <2>3, SpendingIs
  <2> QED
    BY <2>2, <2>4
<1> QED
  BY <1>1, <1>2 DEF NeedsSignature, SegmentCount

\* seal.rs unique_lock_seal: one seal of the lock is what the rules ask of a scope.
LEMMA OwnSealsAre ==
  ASSUME IInv, OrderInv, phase = "complete", NEW p \in 1..Len(pieces)
  PROVE  LET k == pieces[p].otx
             s == pieces[p].segment
         IN  /\ LockPromise!SealsOf(tx, <<k, s>>) = SealsAt(k, s)
             /\ LockPromise!OwnSeals(tx, lock, <<k, s>>) = Matching(SealsAt(k, s))
             /\ LockPromise!Cardinality(LockPromise!OwnSeals(tx, lock, <<k, s>>)) = 1
                  <=> UniqueSealError(SealsAt(k, s)) = "none"
<1> DEFINE k == pieces[p].otx
           s == pieces[p].segment
           seals == SealsAt(k, s)
<1>1. k \in 0..(Len(otx_entries) - 1) /\ s \in 0..SegmentCount(k)
  <2>1. k \in 0..(Len(otx_entries) - 1) /\ s \in Nat /\ SegmentCount(k) \in Nat
    BY PieceFacts
  <2>2. s <= SegmentCount(k)
    BY DEF OrderInv, PieceIsScope
  <2> QED
    BY <2>1, <2>2
<1>2. LockPromise!ViewOf(tx, k) = OtxViewAt(k)
  BY <1>1, RulesCollected, LockScopesAre
<1>3. LockPromise!SealsOf(tx, <<k, s>>) = seals
  BY <1>2 DEF LockPromise!SealsOf, SealsAt
<1>4. LockPromise!OwnSeals(tx, lock, <<k, s>>) = Matching(seals)
  BY <1>3 DEF LockPromise!OwnSeals, Matching
<1>5. Len(seals) \in Nat
  <2>1. OtxViewAt(k).base_seals \in Seq(LockSeal) /\ OtxViewAt(k).segments \in Seq(SegmentView)
    BY <1>1, CollectedViews DEF OtxView
  <2>2. ASSUME s # 0
        PROVE  OtxViewAt(k).segments[s].seals \in Seq(LockSeal)
    <3>1. s \in 1..Len(OtxViewAt(k).segments)
      BY <1>1, <2>1, <2>2 DEF SegmentCount
    <3>2. OtxViewAt(k).segments[s] \in SegmentView
      BY <2>1, <3>1
    <3> QED
      BY <3>2 DEF SegmentView
  <2>3. seals \in Seq(LockSeal)
    BY <2>1, <2>2 DEF SealsAt
  <2> HIDE DEF seals
  <2> QED
    BY <2>3
<1> HIDE DEF seals
<1>6. IsFiniteSet(Matching(seals))
  <2>1. IsFiniteSet(1..Len(seals))
    BY <1>5, FS_Interval
  <2>2. Matching(seals) \subseteq 1..Len(seals)
    BY DEF Matching
  <2> QED
    BY <2>1, <2>2, FS_Subset
<1>7. Cardinality(Matching(seals)) = 1 <=> UniqueSealError(seals) = "none"
  <2>1. Cardinality(Matching(seals)) = 1 <=> \E x : Matching(seals) = {x}
    BY <1>6, FS_Singleton
  <2>2. UniqueSealError(seals) = "none" <=>
          Matching(seals) # {} /\ \A i, j \in Matching(seals) : i = j
    BY DEF UniqueSealError
  <2>3. (\E x : Matching(seals) = {x}) <=>
          Matching(seals) # {} /\ \A i, j \in Matching(seals) : i = j
    OBVIOUS
  <2> QED
    BY <2>1, <2>2, <2>3
<1>8. LockPromise!Cardinality(Matching(seals)) = Cardinality(Matching(seals))
  BY DEF LockPromise!Cardinality, Cardinality
<1> QED
  BY <1>3, <1>4, <1>7, <1>8 DEF seals

\* engine.rs push_otx_actions: the actions addressed to the lock.
LEMMA LockAddressesAre ==
  ASSUME NEW message
  PROVE  /\ LockPromise!Own(message, lock) = LockActions(message)
         /\ LockPromise!Addresses(message, {"input_lock"}, lock) <=> LockActions(message) # {}
<1>1. LockPromise!Own(message, lock) = LockActions(message)
  BY DEF LockPromise!Own, LockActions
<1>2. LockPromise!Addresses(message, {"input_lock"}, lock) <=> LockActions(message) # {}
  BY DEF LockPromise!Addresses, LockPromise!ActionsOf, LockActions
<1> QED
  BY <1>1, <1>2

\* engine.rs add_otx_requirement: an OTX is entered without an error exactly if the rules
\* find nothing wrong with its message, and with its seals if its base spends.
LEMMA LockOtxMessageIs ==
  ASSUME IInv, OrderInv, CursorSums, phase = "complete",
         NEW k \in 0..(Len(otx_entries) - 1)
  PROVE  EnterOtxError(k) = "none" <=>
           /\ LockPromise!OtxMessageOk(tx, lock, k)
           /\ BaseSignature(k) => UniqueSealError(OtxViewAt(k).base_seals) = "none"
<1> DEFINE message == OtxViewAt(k).message
           spends == \E scope \in LockPromise!Spending(tx, lock) : scope[1] = k
<1>1. LockPromise!ViewOf(tx, k) = OtxViewAt(k)
  BY RulesCollected, LockScopesAre
<1>2. message \in Message
  BY CollectedViews DEF OtxView
<1>3. spends <=> NeedsSignature(k)
  BY SpendsIs
<1>4. LockPromise!OtxMessageOk(tx, lock, k) <=>
        LockPromise!MessageOk(tx, message,
          spends \/ LockPromise!Addresses(message, {"input_lock"}, lock))
  BY <1>1 DEF LockPromise!OtxMessageOk
<1> HIDE DEF message, spends
<1>5. /\ LockPromise!Legible(message) <=> Parses(message)
      /\ Parses(message) => (LockPromise!OnTarget(tx, message) <=> TargetsPresent(message))
  BY <1>2, RulesMessages, LockMessagesAre
<1>6. LockPromise!Addresses(message, {"input_lock"}, lock) <=> LockActions(message) # {}
  BY LockAddressesAre
<1>7. LockPromise!OtxMessageOk(tx, lock, k) <=>
        /\ Parses(message)
        /\ NeedsSignature(k) \/ LockActions(message) # {} => TargetsPresent(message)
  BY <1>3, <1>4, <1>5, <1>6 DEF LockPromise!MessageOk
<1> QED
  BY <1>7 DEF EnterOtxError, message

\* engine.rs add_tx_level_requirement, add_tx_level_actions: what the rules ask of the
\* tx-level message.
TxMessageFine ==
  /\ ~DuplicateSighashAll
  /\ SighashAlls # {} =>
       /\ Parses(TxMessage)
       /\ SignsTxLevel \/ LockActions(TxMessage) # {} => TargetsPresent(TxMessage)

\* The rules ask the same of it.
LEMMA LockTxMessagesAre ==
  ASSUME IInv, OrderInv, CursorSums, NoneMalformed, LayoutSeen, Scanned, GroupInv
  PROVE  (/\ LockPromise!Cardinality(LockPromise!At(tx, "sighash_all")) <= 1
          /\ \A message \in LockPromise!TxMessages(tx) :
               LockPromise!MessageOk(tx, message,
                 LockPromise!SignedAtTxLevel(tx, lock)
                   \/ LockPromise!Addresses(message, {"input_lock"}, lock)))
           <=> TxMessageFine
<1> DEFINE Ok(message) ==
             LockPromise!MessageOk(tx, message,
               LockPromise!SignedAtTxLevel(tx, lock)
                 \/ LockPromise!Addresses(message, {"input_lock"}, lock))
<1>1. LockPromise!Cardinality(LockPromise!At(tx, "sighash_all")) <= 1 <=> ~DuplicateSighashAll
  BY RulesTxMessages, LockScopesAre, LockMessagesAre
<1>2. LockPromise!TxMessages(tx) = Rules!TxMessages(tx)
  BY LockMessagesAre
<1>3. ASSUME NEW message \in Message
      PROVE  Ok(message) <=>
               /\ Parses(message)
               /\ SignsTxLevel \/ LockActions(message) # {} => TargetsPresent(message)
  <2>1. /\ LockPromise!Legible(message) <=> Parses(message)
        /\ Parses(message) => (LockPromise!OnTarget(tx, message) <=> TargetsPresent(message))
    BY RulesMessages, LockMessagesAre
  <2> QED
    BY <2>1, SignedAtTxLevelIs, LockAddressesAre DEF LockPromise!MessageOk
<1> HIDE DEF Ok
<1>4. CASE DuplicateSighashAll
  BY <1>1, <1>4 DEF TxMessageFine
<1>5. CASE ~DuplicateSighashAll /\ SighashAlls = {}
  BY <1>1, <1>2, <1>5, RulesTxMessages DEF TxMessageFine
<1>6. CASE ~DuplicateSighashAll /\ SighashAlls # {}
  <2>1. TxMessage \in Message
    BY <1>6, MessageFacts DEF IInv
  <2>2. Rules!TxMessages(tx) = {TxMessage}
    BY <1>6, RulesTxMessages
  <2>3. (\A message \in LockPromise!TxMessages(tx) : Ok(message)) <=> Ok(TxMessage)
    BY <1>2, <2>2
  <2> QED
    BY <1>1, <1>3, <1>6, <2>1, <2>3 DEF TxMessageFine, Ok
<1> QED
  BY <1>4, <1>5, <1>6

\* engine.rs add_otx_requirement, add_otx_signatures: every scope that spends has one seal
\* of the lock.
SealsFine ==
  \A p \in 1..Len(pieces) : ContainsCurrentLock(pieces[p].span["inputs"]) =>
    UniqueSealError(SealsAt(pieces[p].otx, pieces[p].segment)) = "none"

\* engine.rs build: the rules have a plan where neither the scan nor a message, a group
\* witness or a seal fails.
LEMMA LockPlansIs ==
  ASSUME IInv, OrderInv, SumInv, LayoutSeen, GroupInv, phase \notin {"witnesses", "layout"}
  PROVE  LockPromise!Plans(tx, lock)
           <=> /\ Scanned /\ TxMessageFine
               /\ SignsTxLevel => GroupWitnessesOk
               /\ phase = "complete" =>
                    /\ \A k \in 0..(Len(otx_entries) - 1) : EnterOtxError(k) = "none"
                    /\ SealsFine
<1>1. phase \in Phase /\ LockPromise!Verdict(tx) = phase
  BY LockMessagesAre DEF SumInv, VerdictGiven, IInv, TypeOK
<1>2. Scanned <=> LockPromise!Verdict(tx) # "rejected"
  BY <1>1 DEF Scanned, Phase
<1>3. CASE ~Scanned
  BY <1>2, <1>3 DEF LockPromise!Plans
<1>4. CASE Scanned
  <2> DEFINE OneSeal ==
        \A scope \in LockPromise!Spending(tx, lock) :
          LockPromise!Cardinality(LockPromise!OwnSeals(tx, lock, scope)) = 1
  <2>1. CursorSums /\ NoneMalformed
    BY DEF SumInv
  <2>2. LockPromise!Plans(tx, lock)
          <=> /\ TxMessageFine
              /\ SignsTxLevel => GroupWitnessesOk
              /\ LockPromise!At(tx, "otx") # {} =>
                   \A k \in LockPromise!OtxNumbers(tx) : LockPromise!OtxMessageOk(tx, lock, k)
              /\ OneSeal
    BY <1>2, <1>4, <2>1, LockTxMessagesAre, SignedAtTxLevelIs, GroupWitnessesAre
       DEF LockPromise!Plans
  <2> HIDE DEF OneSeal
  <2>3. CASE phase = "none"
    <3>1. LockPromise!At(tx, "otx") = {}
      BY <2>3, NoneCollected, SamePositions, PositionsAre, LockScopesAre
    <3>2. OneSeal
      BY <3>1 DEF OneSeal, LockPromise!Spending, LockPromise!OtxScopes
    <3> QED
      BY <1>4, <2>2, <2>3, <3>1, <3>2
  <2>4. CASE phase = "complete"
    <3>1. LockPromise!OtxNumbers(tx) = 0..(Len(otx_entries) - 1)
      BY <2>4, RulesCollected, LockScopesAre
    <3>2. LockPromise!At(tx, "otx") # {}
      BY <2>4, SomeOtx, LockScopesAre
    <3>3. OneSeal <=> SealsFine
      <4>1. OneSeal => SealsFine
        BY <2>1, <2>4, SpendingIs, OwnSealsAre DEF OneSeal, SealsFine
      <4>2. ASSUME SealsFine, NEW scope \in LockPromise!Spending(tx, lock)
            PROVE  LockPromise!Cardinality(LockPromise!OwnSeals(tx, lock, scope)) = 1
        <5>1. PICK p \in 1..Len(pieces) : scope = <<pieces[p].otx, pieces[p].segment>>
          BY <2>1, <2>4, SpendingIs
        <5>2. UniqueSealError(SealsAt(pieces[p].otx, pieces[p].segment)) = "none"
          BY <2>1, <2>4, <4>2, <5>1, SpendingIs DEF SealsFine
        <5> QED
          BY <2>4, <5>1, <5>2, OwnSealsAre
      <4> QED
        BY <4>1, <4>2 DEF OneSeal
    <3>4. ASSUME SealsFine, NEW k \in 0..(Len(otx_entries) - 1), BaseSignature(k)
          PROVE  UniqueSealError(OtxViewAt(k).base_seals) = "none"
      <4>1. SegmentCount(k) \in Nat
        BY PieceFacts
      <4>2. PICK p \in PiecesOf(k) : pieces[p].segment = 0
        BY <2>4, <4>1, EveryScopeTaken
      <4>3. p \in 1..Len(pieces) /\ pieces[p].otx = k
        BY DEF PiecesOf
      <4>4. ContainsCurrentLock(pieces[p].span["inputs"])
        BY <3>4, <4>2, <4>3, InputSpanOfPiece DEF BaseSignature
      <4> QED
        BY <3>4, <4>2, <4>3, <4>4 DEF SealsFine, SealsAt
    <3>5. \A k \in 0..(Len(otx_entries) - 1) :
            EnterOtxError(k) = "none" <=>
              /\ LockPromise!OtxMessageOk(tx, lock, k)
              /\ BaseSignature(k) => UniqueSealError(OtxViewAt(k).base_seals) = "none"
      BY <2>1, <2>4, LockOtxMessageIs
    <3> HIDE DEF SealsFine
    <3> QED
      BY <1>4, <2>2, <2>4, <3>1, <3>2, <3>3, <3>4, <3>5
  <2> QED
    BY <1>4, <2>3, <2>4 DEF Scanned
<1> QED
  BY <1>3, <1>4

\* hash/mod.rs: the rules take a scope's signature to be over what the planner does.
LEMMA LockHashesAre ==
  \A view, s : /\ LockPromise!OtxBaseHash(view) = OtxBaseHash(view)
               /\ LockPromise!OtxAppendSegmentHash(view, s) = OtxAppendSegmentHash(view, s)
<1>1. \A view : LockPromise!OtxBaseHash(view) = OtxBaseHash(view)
  BY DEF LockPromise!OtxBaseHash, OtxBaseHash
<1>2. \A segment : LockPromise!SegmentEntities(segment) = SegmentEntities(segment)
  BY DEF LockPromise!SegmentEntities, SegmentEntities
<1>3. \A view, s : LockPromise!PreviousCovered(view, s) = PreviousCovered(view, s)
  BY DEF LockPromise!PreviousCovered, PreviousCovered
<1> QED
  BY <1>1, <1>2, <1>3 DEF LockPromise!OtxAppendSegmentHash, OtxAppendSegmentHash

\* hash/mod.rs, engine.rs: what a requirement of a scope asks for is what the rules do.
LEMMA RequirementIs ==
  ASSUME IInv, OrderInv, phase = "complete", NEW p \in 1..Len(pieces)
  PROVE  LET k == pieces[p].otx
             s == pieces[p].segment
             r == RequirementOf(k, s)
         IN  /\ ForPiece(r, pieces[p]) /\ r.origin # "tx_level"
             /\ r.seal = UniqueSeal(SealsAt(k, s))
             /\ r.signing_message_hash = LockPromise!ContentOf(tx, <<k, s>>)
<1> DEFINE k == pieces[p].otx
           s == pieces[p].segment
<1>1. k \in 0..(Len(otx_entries) - 1) /\ s \in Nat
  BY PieceFacts
<1>4. LockPromise!ViewOf(tx, k) = OtxViewAt(k)
  BY <1>1, RulesCollected, LockScopesAre
<1>2. CASE s = 0
  <2>1. RequirementOf(k, s) = BaseRequirement(k)
    BY <1>2 DEF RequirementOf
  <2>2. LockPromise!ContentOf(tx, <<k, s>>) = OtxBaseHash(OtxViewAt(k))
    BY <1>2, <1>4, LockHashesAre DEF LockPromise!ContentOf
  <2>3. SealsAt(k, s) = OtxViewAt(k).base_seals
    BY <1>2 DEF SealsAt
  <2> QED
    BY <1>2, <2>1, <2>2, <2>3 DEF BaseRequirement, Requirement, ForPiece
<1>3. CASE s > 0
  <2>1. RequirementOf(k, s) = SegmentRequirement(k, s)
    BY <1>3 DEF RequirementOf
  <2>2. LockPromise!ContentOf(tx, <<k, s>>) = OtxAppendSegmentHash(OtxViewAt(k), s)
    BY <1>3, <1>4, LockHashesAre DEF LockPromise!ContentOf
  <2>3. SealsAt(k, s) = OtxViewAt(k).segments[s].seals
    BY <1>3 DEF SealsAt
  <2> QED
    BY <1>3, <2>1, <2>2, <2>3 DEF SegmentRequirement, Requirement, ForPiece
<1> QED
  BY <1>1, <1>2, <1>3

\* verify/local.rs: a seal of the scope verifies exactly if the rules say it signs.
LEMMA ScopeSignature ==
  ASSUME IInv, OrderInv, phase = "complete", NEW p \in 1..Len(pieces),
         UniqueSealError(SealsAt(pieces[p].otx, pieces[p].segment)) = "none"
  PROVE  LET scope == <<pieces[p].otx, pieces[p].segment>>
             r == RequirementOf(pieces[p].otx, pieces[p].segment)
         IN  (\A j \in LockPromise!OwnSeals(tx, lock, scope) :
                LockPromise!Signs(LockPromise!SealsOf(tx, scope)[j].seal, lock,
                                  LockPromise!ContentOf(tx, scope)))
               <=> Verifies(r.seal, r.signing_message_hash)
<1> DEFINE scope == <<pieces[p].otx, pieces[p].segment>>
           seals == SealsAt(pieces[p].otx, pieces[p].segment)
           r == RequirementOf(pieces[p].otx, pieces[p].segment)
<1>1. /\ r.seal = UniqueSeal(seals) /\ r.signing_message_hash = LockPromise!ContentOf(tx, scope)
      /\ LockPromise!SealsOf(tx, scope) = seals
      /\ LockPromise!OwnSeals(tx, lock, scope) = Matching(seals)
  BY RequirementIs, OwnSealsAre
<1> HIDE DEF scope, seals, r
<1>2. UniqueSealError(seals) = "none"
  BY DEF seals
<1>3. PICK j : Matching(seals) = {j}
  BY <1>2 DEF UniqueSealError
<1>4. UniqueSeal(seals) = seals[j].seal
  BY <1>3 DEF UniqueSeal
<1>5. \A content : LockPromise!Signs(seals[j].seal, lock, content) <=> Verifies(seals[j].seal, content)
  BY DEF LockPromise!Signs, Verifies
<1> QED
  BY <1>1, <1>3, <1>4, <1>5 DEF scope, r

\* And so at tx level.
LEMMA TxLevelSignature ==
  ASSUME IInv, NoneMalformed, Scanned, GroupInv, GroupWitnessesOk, ~DuplicateSighashAll
  PROVE  (\A content \in LockPromise!TxContents(tx) :
            LockPromise!Signs(tx.witnesses[LockPromise!Carrier(tx, lock) + 1].seal, lock, content))
           <=> Verifies(TxLevelRequirement.seal, TxLevelRequirement.signing_message_hash)
<1> DEFINE hash == IF SighashAlls = {} THEN TxWithoutMessageHash ELSE TxWithMessageHash(TxMessage)
<1>1. TxLevelRequirement.seal = summaries[Carrier + 1].seal
      /\ TxLevelRequirement.signing_message_hash = hash
  BY DEF TxLevelRequirement, Requirement
<1>2. LockPromise!TxContents(tx) = {hash}
  <2>1. LockPromise!TxMessages(tx) = IF SighashAlls = {} THEN {} ELSE {TxMessage}
    BY RulesTxMessages, LockMessagesAre
  <2> QED
    BY <2>1 DEF LockPromise!TxContents, TxWithoutMessageHash, TxWithMessageHash
<1> HIDE DEF hash
<1>3. summaries[Carrier + 1].seal = tx.witnesses[Carrier + 1].seal
  <2>1. SummaryKind(Carrier) \in {"sighash_all", "sighash_all_only"} /\ Carrier \in Nat
    BY GroupFacts DEF GroupWitnessesOk, IInv
  <2>2. Carrier \in 0..(Len(summaries) - 1)
    BY <2>1, SummariesAre DEF SummaryKind
  <2>3. /\ summaries[Carrier + 1] = Summary(WitnessAt(Carrier))
        /\ WitnessAt(Carrier) = tx.witnesses[Carrier + 1]
        /\ WitnessAt(Carrier).kind \notin {"otx_start", "otx"}
    BY <2>1, <2>2, SummariesAre
  <2> QED
    BY <2>3 DEF Summary
<1>4. \A content : LockPromise!Signs(tx.witnesses[Carrier + 1].seal, lock, content)
                     <=> Verifies(tx.witnesses[Carrier + 1].seal, content)
  BY DEF LockPromise!Signs, Verifies
<1> QED
  BY <1>1, <1>2, <1>3, <1>4, GroupIs

\* When verification starts, every scope was visited and nothing is wrong.
LEMMA AllPlanned ==
  ASSUME LockIInv, ActionsInv, PlannedInv, SumInv, stage \in {"coverage", "verify"}
  PROVE  /\ Scanned /\ TxMessageFine /\ (SignsTxLevel => GroupWitnessesOk)
         /\ phase = "complete" =>
              /\ \A k \in 0..(Len(otx_entries) - 1) : EnterOtxError(k) = "none"
              /\ SealsFine
              /\ \A p \in 1..Len(pieces) : Past(pieces[p])
<1>1. Scanned /\ TxLevelRead /\ (phase = "none" \/ otx_index = Len(otx_entries))
  BY DEF LockIInv, GroupInv, PositionInv, TxLevelRead
<1>2. SignsTxLevel => TxLevelError = "none"
  BY DEF PlannedInv, TxCheckedInv
<1>3. TxMessageFine
  BY <1>1, <1>2 DEF ActionsInv, TxTargetsInv, PlannedInv, TxCheckedInv, TxMessageFine, TxLevelError
<1>4. SignsTxLevel => GroupWitnessesOk
  BY <1>2 DEF TxLevelError
<1>5. ASSUME phase = "complete"
      PROVE  /\ \A k \in 0..(Len(otx_entries) - 1) : EnterOtxError(k) = "none"
             /\ SealsFine
             /\ \A p \in 1..Len(pieces) : Past(pieces[p])
  <2>1. otx_index = Len(otx_entries) /\ Len(otx_entries) \in Nat
    BY <1>1, <1>5 DEF LockIInv, IInv, TypeOK
  <2>2. \A k \in 0..(Len(otx_entries) - 1) : EnterOtxError(k) = "none"
    BY <2>1 DEF Entered, PlannedInv, OtxCheckedInv
  <2>3. \A p \in 1..Len(pieces) : /\ Past(pieces[p])
                                  /\ pieces[p].otx \in 0..(Len(otx_entries) - 1)
                                  /\ pieces[p].segment \in Nat
    BY <2>1, PieceFacts DEF Past, LockIInv
  <2>4. ASSUME NEW p \in 1..Len(pieces), ContainsCurrentLock(pieces[p].span["inputs"])
        PROVE  UniqueSealError(SealsAt(pieces[p].otx, pieces[p].segment)) = "none"
    <3>1. ContainsCurrentLock(InputSpan(pieces[p].otx, pieces[p].segment))
      BY <2>4, InputSpanOfPiece DEF LockIInv
    <3>2. CASE pieces[p].segment = 0
      <4>1. EnterOtxError(pieces[p].otx) = "none" /\ BaseSignature(pieces[p].otx)
        BY <2>2, <2>3, <3>1, <3>2 DEF BaseSignature
      <4> QED
        BY <3>2, <4>1 DEF EnterOtxError, SealsAt
    <3>3. CASE pieces[p].segment > 0
      <4>1. SegmentSignature(pieces[p].otx, pieces[p].segment)
        BY <3>1 DEF SegmentSignature
      <4> QED
        BY <2>3, <3>3, <4>1 DEF PlannedInv, SegmentsCheckedInv, SealsAt
    <3> QED
      BY <2>3, <3>2, <3>3
  <2> QED
    BY <2>2, <2>3, <2>4 DEF SealsFine
<1> QED
  BY <1>1, <1>3, <1>4, <1>5

\* entry.rs main: the requirements planned are those of the rules, so that all of them
\* verify exactly if the rules' signatures are there.
LEMMA SignedIs ==
  ASSUME LockIInv, ActionsInv, PlannedInv, SumInv, stage = "verify"
  PROVE  LockPromise!Signed(tx, lock) <=>
           /\ required_signatures # <<>>
           /\ \A r \in 1..Len(required_signatures) :
                Verifies(required_signatures[r].seal, required_signatures[r].signing_message_hash)
<1> DEFINE n == Len(required_signatures)
           OkAt(r) == Verifies(r.seal, r.signing_message_hash)
           scopeOf(p) == <<pieces[p].otx, pieces[p].segment>>
           asked(p) == RequirementOf(pieces[p].otx, pieces[p].segment)
           Spends(p) == ContainsCurrentLock(pieces[p].span["inputs"])
           SignedFor(scope) == \A j \in LockPromise!OwnSeals(tx, lock, scope) :
             LockPromise!Signs(LockPromise!SealsOf(tx, scope)[j].seal, lock,
                               LockPromise!ContentOf(tx, scope))
           TxSigned == \A content \in LockPromise!TxContents(tx) :
             LockPromise!Signs(tx.witnesses[LockPromise!Carrier(tx, lock) + 1].seal, lock, content)
<1>1. /\ IInv /\ OrderInv /\ GroupInv /\ CursorSums /\ NoneMalformed /\ LayoutSeen
      /\ Scanned /\ TxMessageFine /\ (SignsTxLevel => GroupWitnessesOk)
      /\ phase = "complete" =>
           SealsFine /\ \A p \in 1..Len(pieces) : Past(pieces[p])
  BY AllPlanned DEF LockIInv, PlannedInv, SumInv
<1>2. LockPromise!SignedAtTxLevel(tx, lock) <=> SignsTxLevel
  BY <1>1, SignedAtTxLevelIs
<1>3. SignsTxLevel => (TxSigned <=> OkAt(TxLevelRequirement))
  BY <1>1, TxLevelSignature DEF TxMessageFine
<1>4. pieces # <<>> => phase = "complete"
  BY <1>1, CompleteFacts DEF Scanned
<1>5. ASSUME NEW p \in 1..Len(pieces)
      PROVE  /\ phase = "complete" /\ Past(pieces[p])
             /\ scopeOf(p) \in LockPromise!Spending(tx, lock) <=> Spends(p)
             /\ Spends(p) => (SignedFor(scopeOf(p)) <=> OkAt(asked(p)))
             /\ ForPiece(asked(p), pieces[p]) /\ asked(p).origin # "tx_level"
  <2>1. phase = "complete"
    BY <1>4
  <2>2. scopeOf(p) \in LockPromise!Spending(tx, lock) <=> Spends(p)
    BY <1>1, <2>1, SpendingIs
  <2>3. Spends(p) => UniqueSealError(SealsAt(pieces[p].otx, pieces[p].segment)) = "none"
    BY <1>1, <2>1 DEF SealsFine
  <2>4. Spends(p) => (SignedFor(scopeOf(p)) <=> OkAt(asked(p)))
    BY <1>1, <2>1, <2>3, ScopeSignature
  <2>5. ForPiece(asked(p), pieces[p]) /\ asked(p).origin # "tx_level"
    BY <1>1, <2>1, RequirementIs
  <2> QED
    BY <1>1, <2>1, <2>2, <2>4, <2>5
<1>6. ASSUME NEW scope \in LockPromise!Spending(tx, lock)
      PROVE  \E p \in 1..Len(pieces) : scope = scopeOf(p)
  <2>1. phase = "complete"
    <3>1. CASE phase = "none"
      <4>1. LockPromise!At(tx, "otx") = {}
        BY <1>1, <3>1, NoneCollected, SamePositions, PositionsAre, LockScopesAre
      <4> QED
        BY <4>1 DEF LockPromise!Spending, LockPromise!OtxScopes
    <3> QED
      BY <1>1, <3>1 DEF Scanned
  <2> QED
    BY <1>1, <2>1, SpendingIs
<1>7. \A r \in 1..n : \/ SignsTxLevel /\ required_signatures[r] = TxLevelRequirement
                      \/ \E p \in 1..Len(pieces) : Spends(p) /\ required_signatures[r] = asked(p)
  BY DEF PlannedInv, AskedInv, Asked
<1>8. SignsTxLevel => \E r \in 1..n : required_signatures[r] = TxLevelRequirement
  <2>1. ASSUME SignsTxLevel
        PROVE  \E r \in 1..n : required_signatures[r] = TxLevelRequirement
    <3>1. PICK r \in 1..n : ForTxLevel(required_signatures[r])
      BY <2>1 DEF SignsTxLevel, LockIInv, TxLevelPlanned
    <3>2. required_signatures[r].origin = "tx_level"
      BY <3>1 DEF ForTxLevel
    <3> HIDE DEF asked, Spends
    <3> QED
      BY <1>5, <1>7, <3>2
  <2> QED
    BY <2>1
<1>9. \A p \in 1..Len(pieces) : Spends(p) => \E r \in 1..n : required_signatures[r] = asked(p)
  <2>1. ASSUME NEW p \in 1..Len(pieces), Spends(p)
        PROVE  \E r \in 1..n : required_signatures[r] = asked(p)
    <3>1. PICK i \in CurrentLockInputs : InPiece(i, p)
      BY <2>1 DEF ContainsCurrentLock, InPiece
    <3>2. PICK r \in 1..n : ForPiece(required_signatures[r], pieces[p])
      BY <1>5, <3>1 DEF LockIInv, ScopesPlanned
    <3>3. required_signatures[r] # TxLevelRequirement
      <4>1. required_signatures[r].origin # "tx_level"
        BY <3>2 DEF ForPiece
      <4>2. TxLevelRequirement.origin = "tx_level"
        BY DEF TxLevelRequirement, Requirement
      <4> QED
        BY <4>1, <4>2
    <3>4. PICK q \in 1..Len(pieces) : required_signatures[r] = asked(q)
      <4> HIDE DEF asked, Spends
      <4> QED
        BY <1>7, <3>3
    <3>5. p = q
      <4>1. ForPiece(required_signatures[r], pieces[q])
        BY <1>5, <3>4
      <4>2. SameScope(required_signatures[r], required_signatures[r])
        BY DEF SameScope
      <4> QED
        BY <1>1, <3>2, <4>1, <4>2, ScopeIsPiece
    <3>6. asked(q) = asked(p)
      BY <3>5
    <3> QED
      BY <3>4, <3>6
  <2> QED
    BY <2>1
<1>10. n \in Nat /\ (required_signatures # <<>> <=> \E r \in 1..n : TRUE)
  <2>1. required_signatures \in Seq(SigningRequirement)
    BY DEF LockIInv, LockTypeOK
  <2>2. n \in Nat /\ (required_signatures # <<>> <=> n # 0)
    BY <2>1
  <2> HIDE DEF n
  <2>3. n # 0 <=> 1 \in 1..n
    BY <2>2
  <2> QED
    BY <2>2, <2>3
<1>11. LockPromise!Signed(tx, lock) <=>
         /\ SignsTxLevel \/ LockPromise!Spending(tx, lock) # {}
         /\ SignsTxLevel => TxSigned
         /\ \A scope \in LockPromise!Spending(tx, lock) : SignedFor(scope)
  BY <1>2 DEF LockPromise!Signed
<1> HIDE DEF n, OkAt, scopeOf, asked, Spends, SignedFor, TxSigned
<1>12. SignsTxLevel \/ LockPromise!Spending(tx, lock) # {} <=> required_signatures # <<>>
  <2>1. SignsTxLevel => required_signatures # <<>>
    BY <1>8, <1>10
  <2>2. LockPromise!Spending(tx, lock) # {} => required_signatures # <<>>
    BY <1>5, <1>6, <1>9, <1>10
  <2>3. required_signatures # <<>> => SignsTxLevel \/ LockPromise!Spending(tx, lock) # {}
    BY <1>5, <1>7, <1>10
  <2> QED
    BY <2>1, <2>2, <2>3
<1>13. ASSUME SignsTxLevel => TxSigned,
              \A scope \in LockPromise!Spending(tx, lock) : SignedFor(scope),
              NEW r \in 1..n
       PROVE  OkAt(required_signatures[r])
  <2>1. CASE SignsTxLevel /\ required_signatures[r] = TxLevelRequirement
    BY <1>3, <1>13, <2>1
  <2>2. CASE \E p \in 1..Len(pieces) : Spends(p) /\ required_signatures[r] = asked(p)
    BY <1>5, <1>13, <2>2
  <2> QED
    BY <1>7, <2>1, <2>2
<1>14. ASSUME \A r \in 1..n : OkAt(required_signatures[r])
       PROVE  /\ SignsTxLevel => TxSigned
              /\ \A scope \in LockPromise!Spending(tx, lock) : SignedFor(scope)
  <2>1. SignsTxLevel => TxSigned
    BY <1>3, <1>8, <1>14
  <2>2. ASSUME NEW scope \in LockPromise!Spending(tx, lock)
        PROVE  SignedFor(scope)
    <3>1. PICK p \in 1..Len(pieces) : scope = scopeOf(p)
      BY <1>6
    <3> QED
      BY <1>5, <1>9, <1>14, <3>1
  <2> QED
    BY <2>1, <2>2
<1> QED
  BY <1>11, <1>12, <1>13, <1>14 DEF n, OkAt

(***************************************************************************)
(* LockPlan implements LockRules.                                          *)
(***************************************************************************)
\* engine.rs push_otx_actions, add_tx_level_actions: a finished plan relates what the rules
\* relate.
LEMMA LockRelatedIs ==
  ASSUME LockIInv, ActionsInv, PlannedInv, SumInv, stage = "coverage"
  PROVE  LockPromise!Related(tx, lock) = related_actions
<1> DEFINE n == Len(otx_entries)
<1>1. /\ IInv /\ OrderInv /\ Scanned /\ ~DuplicateSighashAll /\ TxLevelRead
      /\ phase = "none" \/ otx_index = n
  BY AllPlanned DEF TxMessageFine, LockIInv, PositionInv, TxLevelRead
<1>2. related_actions =
        (IF SighashAlls # {} THEN TxRelatedActions ELSE {})
          \cup UNION {OtxRelatedActions(k) : k \in {m \in 0..(n - 1) : Entered(m)}}
  BY <1>1 DEF ActionsInv, RelatedInv
<1>3. UNION {LockPromise!TxRelated(tx, lock, w) : w \in LockPromise!At(tx, "sighash_all")}
        = IF SighashAlls # {} THEN TxRelatedActions ELSE {}
  <2>1. LockPromise!At(tx, "sighash_all") = SighashAlls
    BY <1>1, RulesTxMessages, LockScopesAre
  <2>2. CASE SighashAlls = {}
    BY <2>1, <2>2
  <2>3. CASE SighashAlls # {}
    <3>1. SighashAlls = {MessageIndex} /\ tx.witnesses[MessageIndex + 1].message = TxMessage
      BY <1>1, <2>3, RulesTxMessages
    <3>2. LockPromise!TxRelated(tx, lock, MessageIndex) = TxRelatedActions
      BY <3>1, LockAddressesAre DEF LockPromise!TxRelated, TxRelatedActions, TxRef
    <3> QED
      BY <2>1, <2>3, <3>1, <3>2
  <2> QED
    BY <2>2, <2>3
<1>4. UNION {LockPromise!OtxRelated(tx, lock, w) : w \in LockPromise!At(tx, "otx")}
        = UNION {OtxRelatedActions(k) : k \in {m \in 0..(n - 1) : Entered(m)}}
  <2>1. CASE phase = "none"
    <3>1. LockPromise!At(tx, "otx") = {}
      BY <1>1, <2>1, NoneCollected, SamePositions, PositionsAre, LockScopesAre
    <3>2. \A m \in 0..(n - 1) : ~Entered(m)
      <4>1. otx_index = 0 /\ segment_index = 0
        BY <2>1 DEF LockIInv, PositionInv
      <4> QED
        BY <4>1 DEF Entered
    <3> QED
      BY <3>1, <3>2
  <2>2. CASE phase = "complete"
    <3>1. /\ start \in Nat /\ n \in Nat
          /\ LockPromise!FirstOtx(tx) = start + 1
          /\ LockPromise!At(tx, "otx") = (start + 1)..(start + n)
          /\ \A k \in 0..(n - 1) : /\ LockPromise!ViewOf(tx, k) = OtxViewAt(k)
                                   /\ LockPromise!FirstOtx(tx) + k = otx_entries[k + 1]
      BY <1>1, <2>2, RulesCollected, LockScopesAre
    <3> HIDE DEF n
    <3>2. ASSUME NEW k \in 0..(n - 1)
          PROVE  LockPromise!OtxRelated(tx, lock, start + 1 + k) = OtxRelatedActions(k)
      <4>1. /\ start + 1 + k = otx_entries[k + 1]
            /\ otx_entries[k + 1] - LockPromise!FirstOtx(tx) = k
        BY <3>1
      <4>2. tx.witnesses[(start + 1 + k) + 1].view = OtxViewAt(k)
        BY <3>1 DEF LockPromise!ViewOf
      <4> QED
        BY <4>1, <4>2, LockAddressesAre DEF LockPromise!OtxRelated, OtxRelatedActions, OtxRef
    <3>3. \A k \in 0..(n - 1) : start + 1 + k \in LockPromise!At(tx, "otx")
      BY <3>1
    <3>4. \A w \in LockPromise!At(tx, "otx") : \E k \in 0..(n - 1) : w = start + 1 + k
      <4>1. ASSUME NEW w \in LockPromise!At(tx, "otx")
            PROVE  \E k \in 0..(n - 1) : w = start + 1 + k
        <5>1. w - start - 1 \in 0..(n - 1) /\ w = start + 1 + (w - start - 1)
          BY <3>1
        <5> QED
          BY <5>1
      <4> QED
        BY <4>1
    <3>5. {m \in 0..(n - 1) : Entered(m)} = 0..(n - 1)
      BY <1>1, <2>2, <3>1 DEF Entered
    <3>6. \A ref : (\E w \in LockPromise!At(tx, "otx") : ref \in LockPromise!OtxRelated(tx, lock, w))
                     <=> \E k \in 0..(n - 1) : ref \in OtxRelatedActions(k)
      BY <3>2, <3>3, <3>4
    <3> QED
      BY <3>5, <3>6
  <2> QED
    BY <1>1, <2>1, <2>2 DEF Scanned
<1> QED
  BY <1>2, <1>3, <1>4 DEF LockPromise!Related

\* The planner's steps leave the scan's variables alone or are steps of the scan.
LEMMA LockScans == LockSpec => Spec
<1>1. LockInit => Init
  BY DEF LockInit
<1>2. [LockNext]_vars => [Next]_scanVars
  BY DEF LockNext, ScanStep, BeginPlan, AddTxLevelRequirement, AddTxLevelActions, EnterOtx,
         VisitSegment, AllOtxVisited, EnsureCoverage, VerifyNext, Exit, vars
<1> QED
  BY <1>1, <1>2, PTL DEF LockSpec, Spec

\* entry.rs main: the script ends with its first error.
FirstError == stage # "rejected" => lock_error = "none"

\* No step follows an error, so a step that fails sets the first one.
LEMMA ErrorsEndTheScript == LockSpec => []FirstError
<1>1. LockInit => FirstError
  BY DEF LockInit, InitLock, FirstError
<1>2. FirstError /\ [LockNext]_vars => FirstError'
  BY DEF LockNext, ScanStep, BeginPlan, AddTxLevelRequirement, AddTxLevelActions, EnterOtx,
         VisitSegment, AllOtxVisited, EnsureCoverage, VerifyNext, Exit, LockFails, FirstError,
         vars, lockVars
<1> QED
  BY <1>1, <1>2, PTL DEF LockSpec

\* The refinement mapping: what the script answered, what its plan relates, and whether it
\* is still planning.
Answered == IF stage \in {"accepted", "rejected"} THEN stage
            ELSE IF stage = "verify" THEN "planned" ELSE "pending"
Given == IF MadePlan THEN related_actions ELSE {}
Asking == stage \notin {"verify", "accepted", "rejected"}

\* A step that refuses to plan is the rules' step if they have no plan.
LEMMA RefusalAnswers ==
  ASSUME FirstError, Asking, NEW e, e \notin {"VerifyFailure", "LockSemanticFailure"}, LockFails(e),
         UNCHANGED <<tx, lock>>, ~LockPromise!Plans(tx, lock)
  PROVE  LockPromise!Plan
<1>1. ~MadePlan /\ ~MadePlan' /\ stage' = "rejected"
  BY DEF FirstError, Asking, LockFails, MadePlan
<1> QED
  BY <1>1 DEF LockPromise!Plan, Asking

\* Before the plan is complete, the other steps answer nothing.
LEMMA PlanningStutters ==
  ASSUME Asking, Asking', FirstError, UNCHANGED <<tx, lock, lock_error>>
  PROVE  UNCHANGED <<tx, Answered, lock, Given>>
<1>1. ~MadePlan /\ ~MadePlan'
  BY DEF FirstError, Asking, MadePlan
<1> QED
  BY <1>1 DEF Asking, Answered, Given

\* engine.rs build, entry.rs main: the step that completes the plan and those that end the
\* script are the rules' two steps.
LEMMA LockStepAnswers ==
  ASSUME LockIInv, ActionsInv, PlannedInv, SumInv, FirstError, LockNext
  PROVE  \/ LockPromise!Plan \/ LockPromise!Verify
         \/ UNCHANGED <<tx, Answered, lock, Given>>
<1>1. stage \notin {"scan", "rejected"} => Scanned /\ phase \notin {"witnesses", "layout"}
  BY DEF LockIInv, GroupInv, Scanned
<1>2. phase \notin {"witnesses", "layout"} =>
        (LockPromise!Plans(tx, lock)
           <=> /\ Scanned /\ TxMessageFine
               /\ SignsTxLevel => GroupWitnessesOk
               /\ phase = "complete" =>
                    /\ \A k \in 0..(Len(otx_entries) - 1) : EnterOtxError(k) = "none"
                    /\ SealsFine)
  BY LockPlansIs DEF LockIInv, PlannedInv
<1>3. CASE ScanStep
  BY <1>3, TxKept, PlanningStutters DEF ScanStep, lockVars, Asking
<1>4. CASE BeginPlan
  <2>1. stage = "scan" /\ Asking /\ UNCHANGED <<tx, lock>>
    BY <1>4 DEF BeginPlan, scanVars, Asking
  <2>2. CASE stage' = "tx_requirement" /\ UNCHANGED lock_error
    BY <2>1, <2>2, PlanningStutters DEF Asking
  <2>3. CASE phase = "rejected" /\ LockFails(error)
    <3>1. error \notin {"VerifyFailure", "LockSemanticFailure"}
      BY DEF LockIInv, IInv, TypeOK
    <3>2. ~LockPromise!Plans(tx, lock)
      BY <1>2, <2>3 DEF Scanned
    <3> QED
      BY <2>1, <2>3, <3>1, <3>2, RefusalAnswers
  <2> QED
    BY <1>4, <2>2, <2>3 DEF BeginPlan
<1>5. CASE AddTxLevelRequirement
  <2>1. stage = "tx_requirement" /\ Asking /\ UNCHANGED <<tx, lock>>
    BY <1>5 DEF AddTxLevelRequirement, scanVars, Asking
  <2>2. CASE stage' = "tx_actions" /\ UNCHANGED lock_error
    BY <2>1, <2>2, PlanningStutters DEF Asking
  <2>3. CASE SignsTxLevel /\ TxLevelError # "none" /\ LockFails(TxLevelError)
    <3>1. TxLevelError \notin {"VerifyFailure", "LockSemanticFailure"}
      BY DEF TxLevelError
    <3>2. ~(TxMessageFine /\ GroupWitnessesOk)
      BY <2>3 DEF TxLevelError, TxMessageFine
    <3>3. ~LockPromise!Plans(tx, lock)
      BY <1>1, <1>2, <2>1, <2>3, <3>2
    <3> QED
      BY <2>1, <2>3, <3>1, <3>3, RefusalAnswers
  <2> QED
    BY <1>5, <2>2, <2>3 DEF AddTxLevelRequirement, SignsTxLevel
<1>6. CASE AddTxLevelActions
  <2>1. stage = "tx_actions" /\ Asking /\ UNCHANGED <<tx, lock>>
    BY <1>6 DEF AddTxLevelActions, scanVars, Asking
  <2>2. CASE stage' = "otx" /\ UNCHANGED lock_error
    BY <2>1, <2>2, PlanningStutters DEF Asking
  <2>3. CASE TxActionsError # "none" /\ LockFails(TxActionsError)
    <3>1. TxActionsError \notin {"VerifyFailure", "LockSemanticFailure"}
      BY DEF TxActionsError
    <3>2. ~TxMessageFine
      BY <2>3 DEF TxActionsError, TxMessageFine
    <3>3. ~LockPromise!Plans(tx, lock)
      BY <1>1, <1>2, <2>1, <3>2
    <3> QED
      BY <2>1, <2>3, <3>1, <3>3, RefusalAnswers
  <2> QED
    BY <1>6, <2>2, <2>3 DEF AddTxLevelActions
<1>7. CASE EnterOtx
  <2>1. /\ stage = "otx" /\ Asking /\ UNCHANGED <<tx, lock>>
        /\ phase = "complete" /\ otx_index < Len(otx_entries)
    BY <1>7 DEF EnterOtx, scanVars, Asking
  <2>2. CASE UNCHANGED <<stage, lock_error>>
    BY <2>1, <2>2, PlanningStutters DEF Asking
  <2>3. CASE EnterOtxError(otx_index) # "none" /\ LockFails(EnterOtxError(otx_index))
    <3>1. EnterOtxError(otx_index) \notin {"VerifyFailure", "LockSemanticFailure"}
      BY DEF EnterOtxError, UniqueSealError
    <3>2. otx_index \in 0..(Len(otx_entries) - 1)
      BY <2>1 DEF LockIInv, LockTypeOK, IInv, TypeOK
    <3>3. ~LockPromise!Plans(tx, lock)
      BY <1>2, <2>1, <2>3, <3>2
    <3> QED
      BY <2>1, <2>3, <3>1, <3>3, RefusalAnswers
  <2> QED
    BY <1>7, <2>2, <2>3 DEF EnterOtx
<1>8. CASE VisitSegment
  <2> DEFINE seals == OtxViewAt(otx_index).segments[segment_index].seals
  <2>1. stage = "otx" /\ Asking /\ UNCHANGED <<tx, lock>> /\ segment_index > 0
    BY <1>8 DEF VisitSegment, scanVars, Asking
  <2>2. CASE UNCHANGED <<stage, lock_error>>
    BY <2>1, <2>2, PlanningStutters DEF Asking
  <2>3. CASE /\ SegmentSignature(otx_index, segment_index)
             /\ UniqueSealError(seals) # "none" /\ LockFails(UniqueSealError(seals))
    <3>1. UniqueSealError(seals) \notin {"VerifyFailure", "LockSemanticFailure"}
      BY DEF UniqueSealError
    <3>2. phase = "complete" /\ otx_index \in 0..(Len(otx_entries) - 1)
      BY <2>1 DEF LockIInv, PositionInv, LockTypeOK, IInv, TypeOK
    <3>3. segment_index \in 0..SegmentCount(otx_index)
      BY <2>1, <3>2, PieceFacts DEF LockIInv, PositionInv, LockTypeOK
    <3>4. PICK p \in PiecesOf(otx_index) : pieces[p].segment = segment_index
      BY <3>2, <3>3, EveryScopeTaken DEF LockIInv
    <3>5. p \in 1..Len(pieces) /\ pieces[p].otx = otx_index
      BY DEF PiecesOf
    <3>6. ContainsCurrentLock(pieces[p].span["inputs"])
      BY <2>3, <3>4, <3>5, InputSpanOfPiece DEF LockIInv, SegmentSignature
    <3>7. SealsAt(pieces[p].otx, pieces[p].segment) = seals
      BY <2>1, <3>4, <3>5 DEF SealsAt
    <3>8. ~SealsFine
      BY <2>3, <3>5, <3>6, <3>7 DEF SealsFine
    <3>9. ~LockPromise!Plans(tx, lock)
      BY <1>1, <1>2, <2>1, <3>2, <3>8
    <3> QED
      BY <2>1, <2>3, <3>1, <3>9, RefusalAnswers
  <2> QED
    BY <1>8, <2>2, <2>3 DEF VisitSegment
<1>9. CASE AllOtxVisited
  BY <1>9, PlanningStutters DEF AllOtxVisited, scanVars, Asking
<1>10. CASE EnsureCoverage
  <2>1. /\ stage = "coverage" /\ stage' = "verify"
        /\ UNCHANGED <<tx, lock, lock_error, related_actions>>
    BY <1>10, GuardDoesNotFire DEF EnsureCoverage, scanVars, plan
  <2>2. LockPromise!Plans(tx, lock)
    BY <1>1, <1>2, <2>1, AllPlanned
  <2>3. LockPromise!Related(tx, lock) = related_actions
    BY <2>1, LockRelatedIs
  <2>4. ~MadePlan /\ MadePlan'
    BY <2>1 DEF MadePlan, FirstError
  <2> QED
    BY <2>1, <2>2, <2>3, <2>4 DEF LockPromise!Plan
<1>11. CASE VerifyNext
  <2>1. /\ stage = "verify" /\ UNCHANGED <<tx, lock, related_actions>>
        /\ verified < Len(required_signatures) /\ MadePlan
    BY <1>11 DEF VerifyNext, scanVars, plan, MadePlan
  <2>2. CASE UNCHANGED <<stage, lock_error>>
    BY <2>1, <2>2 DEF Answered, Given, MadePlan
  <2>3. CASE /\ ~Verifies(required_signatures[verified + 1].seal,
                          required_signatures[verified + 1].signing_message_hash)
             /\ LockFails("VerifyFailure")
    <3>1. verified + 1 \in 1..Len(required_signatures)
      BY <2>1 DEF LockIInv, LockTypeOK
    <3>2. ~LockPromise!Signed(tx, lock)
      BY <2>1, <2>3, <3>1, SignedIs
    <3>3. MadePlan' /\ stage' = "rejected"
      BY <2>3 DEF LockFails, MadePlan
    <3> QED
      BY <2>1, <3>2, <3>3 DEF LockPromise!Verify
  <2> QED
    BY <1>11, <2>2, <2>3 DEF VerifyNext
<1>12. CASE Exit
  <2>1. /\ stage = "verify" /\ UNCHANGED <<tx, lock, related_actions>> /\ MadePlan
        /\ verified = Len(required_signatures)
    BY <1>12 DEF Exit, scanVars, plan, MadePlan
  <2>2. CASE required_signatures = <<>> /\ LockFails("LockSemanticFailure")
    <3>1. ~LockPromise!Signed(tx, lock)
      BY <2>1, <2>2, SignedIs
    <3>2. MadePlan' /\ stage' = "rejected"
      BY <2>2 DEF LockFails, MadePlan
    <3> QED
      BY <2>1, <3>1, <3>2 DEF LockPromise!Verify
  <2>3. CASE required_signatures # <<>> /\ stage' = "accepted"
    <3>1. LockPromise!Signed(tx, lock)
      BY <2>1, <2>3, SignedIs DEF LockIInv, VerifiedInv
    <3>2. MadePlan'
      BY <2>3 DEF MadePlan
    <3> QED
      BY <2>1, <2>3, <3>1, <3>2 DEF LockPromise!Verify
  <2> QED
    BY <1>12, <2>2, <2>3 DEF Exit
<1> QED
  BY <1>3, <1>4, <1>5, <1>6, <1>7, <1>8, <1>9, <1>10, <1>11, <1>12 DEF LockNext

\* entry.rs main, engine.rs plan_lock_validation: the lock, with its scan, its loops over OTX,
\* segments and requirements and its cache, plans for the transactions the rules plan for,
\* relates the actions they relate, and succeeds where they find every signature.
THEOREM LockKeepsPromise == LockSpec => ImplementsLockRules
<1>1. LockInit => LockPromise!LockInit
  <2> SUFFICES ASSUME LockInit PROVE LockPromise!LockInit
    OBVIOUS
  <2>1. lock \in Script /\ stage = "scan" /\ lock_error = "none"
    BY LockInitInv DEF LockIInv, LockTypeOK, LockInit, InitLock
  <2>2. tx \in Transaction
    BY LockInitInv DEF LockIInv, IInv, TypeOK
  <2>3. LockPromise!Transaction = Transaction
    BY DEF LockPromise!Transaction, Transaction,
         LockPromise!Counts, Counts, LockPromise!Dim, Dim, LockPromise!TypeSlot, TypeSlot,
         LockPromise!Witness, Witness, LockPromise!OtxView, OtxView,
         LockPromise!SegmentView, SegmentView, LockPromise!LockSeal, LockSeal,
         LockPromise!Message, Message, LockPromise!Action, Action,
         LockPromise!ScriptRole, ScriptRole, LockPromise!PermissionByte, PermissionByte,
         LockPromise!FlagByte, FlagByte, LockPromise!SegmentFlag, SegmentFlag
  <2>4. ~MadePlan
    BY <2>1 DEF MadePlan
  <2> QED
    BY <2>1, <2>2, <2>3, <2>4 DEF LockPromise!LockInit, LockPromise!Init
<1>2. ASSUME LockIInv, ActionsInv, PlannedInv, SumInv, FirstError, [LockNext]_vars
      PROVE  [LockPromise!Plan \/ LockPromise!Verify]_<<tx, Answered, lock, Given>>
  <2>1. CASE LockNext
    BY <1>2, <2>1, LockStepAnswers
  <2>2. CASE UNCHANGED vars
    BY <2>2 DEF vars, scanVars, lockVars, plan, Answered, Given, MadePlan
  <2> QED
    BY <1>2, <2>1, <2>2
<1>3. LockIInv /\ ActionsInv /\ PlannedInv /\ SumInv /\ FirstError /\ [LockNext]_vars
        => [LockPromise!Plan \/ LockPromise!Verify]_
             <<tx,
               IF stage \in {"accepted", "rejected"} THEN stage
               ELSE IF stage = "verify" THEN "planned" ELSE "pending",
               lock, IF MadePlan THEN related_actions ELSE {}>>
  BY <1>2 DEF Answered, Given
<1> QED
  BY LockInvariant, LockActionsInvariant, LockPlannedInvariant, ErrorsEndTheScript,
     LockScans, ScanSumInvariant, <1>1, <1>3, PTL
     DEF LockSpec, ImplementsLockRules, LockPromise!LockSpec
=============================================================================
