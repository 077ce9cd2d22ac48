--------------------------- MODULE TypePlanProofs ---------------------------
(***************************************************************************)
(* Proofs about TypePlan: every message that a plan for a type script      *)
(* rests on was checked, its actions have one order, and it plans what     *)
(* TypeRules does.                                                         *)
(***************************************************************************)
EXTENDS TypePlanInv, ScriptContextProofs

(***************************************************************************)
(* Steps that leave the scan as it is.                                     *)
(***************************************************************************)
\* Planning an OTX reads nothing that planning changes.
LEMMA ReadsKept ==
  ASSUME UNCHANGED <<scanVars, type_script>>
  PROVE  /\ \A k : OtxError(k)' = OtxError(k)
         /\ \A k : OtxRelated(k)' = OtxRelated(k)
         /\ TxLevelError' = TxLevelError
         /\ TxRelated' = TxRelated
         /\ SighashAlls' = SighashAlls
<1>1. /\ tx' = tx /\ phase' = phase /\ summaries' = summaries /\ start' = start
      /\ otx_entries' = otx_entries /\ cursor' = cursor /\ pieces' = pieces
      /\ type_script' = type_script
  BY DEF scanVars
<1>2. \A k : OtxViewAt(k)' = OtxViewAt(k)
  BY <1>1 DEF OtxViewAt, WitnessAt
<1>3. \A k, d : BaseSpan(k, d)' = BaseSpan(k, d)
  BY <1>1 DEF BaseSpan, PiecesOf
<1>4. \A k, d : AppendSpan(k, d)' = AppendSpan(k, d)
  BY <1>1 DEF AppendSpan, BaseSpan, PiecesOf
<1>5. \A d : TypeCells(d)' = TypeCells(d)
  BY <1>1 DEF TypeCells, TypeInputs, TypeOutputs
<1>6. \A k : TypeRelation(k)' = TypeRelation(k)
  BY <1>1, <1>2, <1>3, <1>4, <1>5 DEF TypeRelation, HasTypeIn, CoveredInBase, TypeOutputs
<1>7. \A message : /\ TypeActions(message)' = TypeActions(message)
                   /\ TargetsPresent(message)' <=> TargetsPresent(message)
  BY <1>1 DEF TypeActions, TargetsPresent, Scripts
<1>8. SighashAlls' = SighashAlls /\ TxMessage' = TxMessage /\ MessageIndex' = MessageIndex
  BY <1>1 DEF SighashAlls, SummaryKind, TxMessage, MessageIndex
<1>9. TxLevelMentionsType' <=> TxLevelMentionsType
  BY <1>1, <1>5 DEF TxLevelMentionsType, AggregateRange, StartCounts, WitnessAt
<1>10. QED
  BY <1>1, <1>2, <1>6, <1>7, <1>8, <1>9
     DEF OtxError, OtxRelated, TxLevelError, TxRelated, MessageError, DuplicateSighashAll

LEMMA RelationTyped ==
  ASSUME NEW k
  PROVE  OtxScope(TypeRelation(k)) \subseteq OtxTypeRelation
<1>1. /\ \A d, span : HasTypeIn(d, span) \in BOOLEAN
      /\ CoveredInBase(k) \in BOOLEAN
  BY DEF HasTypeIn, CoveredInBase
<1>2. TypeRelation(k) \in OtxTypeRelation
  BY <1>1 DEF TypeRelation, OtxTypeRelation
<1>3. QED
  BY <1>2 DEF OtxScope

RelatedAction == [ref : ActionRef, otx_type_scope : SUBSET OtxTypeRelation]

\* plan.rs: what a message relates is a set of related actions.
LEMMA RelatedTyped ==
  ASSUME IInv
  PROVE  /\ \A k \in 0..(Len(otx_entries) - 1) : OtxRelated(k) \subseteq RelatedAction
         /\ SighashAlls # {} => TxRelated \subseteq RelatedAction
<1>1. ASSUME NEW k \in 0..(Len(otx_entries) - 1)
      PROVE  OtxRelated(k) \subseteq RelatedAction
  <2>1. Len(otx_entries) \in Nat /\ otx_entries[k + 1] \in Nat /\ k \in Nat
    BY DEF IInv, TypeOK
  <2>2. SUFFICES ASSUME NEW a \in TypeActions(OtxViewAt(k).message)
                 PROVE  Related(OtxRef(otx_entries[k + 1], k, a - 1), OtxScope(TypeRelation(k)))
                          \in RelatedAction
    BY DEF OtxRelated
  <2>3. OtxViewAt(k).message \in Message
    BY CollectedViews DEF OtxView
  <2>4. a - 1 \in Nat
    BY <2>3 DEF TypeActions, Message
  <2>5. OtxRef(otx_entries[k + 1], k, a - 1) \in ActionRef
    BY <2>1, <2>4 DEF OtxRef, ActionRef
  <2>6. QED
    BY <2>5, RelationTyped DEF Related, RelatedAction
<1>2. ASSUME SighashAlls # {}
      PROVE  TxRelated \subseteq RelatedAction
  <2>1. MessageIndex \in Nat /\ TxMessage \in Message
    BY <1>2, MessageFacts DEF IInv
  <2>2. SUFFICES ASSUME NEW a \in TypeActions(TxMessage)
                 PROVE  Related(TxRef(MessageIndex, a - 1), {}) \in RelatedAction
    BY DEF TxRelated
  <2>3. a - 1 \in Nat
    BY <2>1 DEF TypeActions, Message
  <2>4. TxRef(MessageIndex, a - 1) \in ActionRef
    BY <2>1, <2>3 DEF TxRef, ActionRef
  <2>5. QED
    BY <2>4 DEF Related, RelatedAction
<1>3. QED
  BY <1>1, <1>2
-----------------------------------------------------------------------------
(***************************************************************************)
(* The invariant.                                                          *)
(***************************************************************************)
LEMMA PlanInitInv == PlanInit => PlanIInv
<1> SUFFICES ASSUME PlanInit PROVE PlanIInv
  OBVIOUS
<1>1. IInv /\ OrderInv
  BY InitInv, InitOrder DEF PlanInit
<1>2. type_script \in Script
  <2>1. /\ tx.input_types \in Seq(TypeSlot) /\ tx.output_types \in Seq(TypeSlot)
    BY <1>1 DEF IInv, TypeOK, Transaction
  <2>2. /\ \A i \in 1..Len(tx.input_types) : tx.input_types[i] \subseteq Script
        /\ \A i \in 1..Len(tx.output_types) : tx.output_types[i] \subseteq Script
    BY <2>1 DEF TypeSlot
  <2>3. Scripts("input_type") \subseteq Script /\ Scripts("output_type") \subseteq Script
    BY ONLY <2>2 DEF Scripts
  <2>4. QED
    BY <2>3 DEF PlanInit, InitPlan
<1>3. PlanTypeOK
  BY <1>2 DEF PlanInit, Init, InitPlan, PlanTypeOK, Stage, PlanError
<1>4. ProgressInv /\ CheckedInv /\ RelatedInv
  BY DEF PlanInit, Init, InitPlan, ProgressInv, CheckedInv, RelatedInv
<1>5. QED
  BY <1>1, <1>3, <1>4 DEF PlanIInv

\* engine.rs build: while the scan runs nothing is planned.
LEMMA ScanStepPlanInv ==
  ASSUME PlanIInv, ScanStep
  PROVE  PlanIInv'
<1>1. stage = "scan" /\ Next
      /\ UNCHANGED <<type_script, stage, plan_error, related_actions, otx_index>>
  BY DEF ScanStep, planVars
<1>2. IInv' /\ OrderInv'
  BY <1>1, ScanStepInv, ScanStepOrder DEF PlanIInv
<1>3. otx_index = 0 /\ related_actions = {}
  BY <1>1 DEF PlanIInv, ProgressInv, RelatedInv
<1>4. Len(otx_entries)' \in Nat
  BY <1>2 DEF IInv, TypeOK
<1>5. PlanTypeOK'
  BY <1>1, <1>3, <1>4 DEF PlanIInv, PlanTypeOK
<1>6. ProgressInv' /\ CheckedInv' /\ RelatedInv'
  BY <1>1, <1>3 DEF ProgressInv, CheckedInv, RelatedInv
<1>7. QED
  BY <1>2, <1>5, <1>6 DEF PlanIInv

\* A step of the planner leaves the scan as it is.
LEMMA PlanStepKeeps ==
  ASSUME PlanIInv, UNCHANGED scanVars
  PROVE  IInv' /\ OrderInv' /\ phase' = phase /\ otx_entries' = otx_entries
BY ScanStepInv, ScanStepOrder DEF PlanIInv, scanVars

LEMMA BeginPlanInv ==
  ASSUME PlanIInv, BeginPlan
  PROVE  PlanIInv'
<1>1. /\ stage = "scan" /\ UNCHANGED scanVars
      /\ UNCHANGED <<type_script, related_actions, otx_index>>
      /\ stage' \in {"otx", "rejected"} /\ plan_error' \in PlanError
      /\ stage' = "otx" => Scanned
  BY DEF BeginPlan, PlanFails, PlanIInv, PlanTypeOK, IInv, TypeOK, PlanError
<1>2. IInv' /\ OrderInv' /\ phase' = phase /\ otx_entries' = otx_entries
  BY <1>1, PlanStepKeeps
<1>3. otx_index = 0 /\ related_actions = {}
  BY <1>1 DEF PlanIInv, ProgressInv, RelatedInv
<1>4. PlanTypeOK'
  BY <1>1, <1>2 DEF PlanIInv, PlanTypeOK, Stage
<1>5. ProgressInv'
  BY <1>1, <1>2, <1>3 DEF ProgressInv, Scanned
<1>6. CheckedInv' /\ RelatedInv'
  BY <1>1, <1>3 DEF CheckedInv, RelatedInv
<1>7. QED
  BY <1>2, <1>4, <1>5, <1>6 DEF PlanIInv

\* engine.rs add_otx_action: the OTX at otx_index is checked, then related.
LEMMA AddOtxActionInv ==
  ASSUME PlanIInv, AddOtxAction
  PROVE  PlanIInv'
<1>1. /\ stage = "otx" /\ phase = "complete" /\ otx_index < Len(otx_entries)
      /\ UNCHANGED scanVars /\ UNCHANGED type_script
  BY DEF AddOtxAction
<1>2. IInv' /\ OrderInv' /\ phase' = phase /\ otx_entries' = otx_entries
  BY <1>1, PlanStepKeeps
<1>3. /\ otx_index \in Nat /\ Len(otx_entries) \in Nat
      /\ otx_index \in 0..(Len(otx_entries) - 1)
  BY <1>1 DEF PlanIInv, PlanTypeOK, IInv, TypeOK
<1>4. CASE /\ OtxError(otx_index) # "none" /\ PlanFails(OtxError(otx_index))
           /\ UNCHANGED <<related_actions, otx_index>>
  <2>1. PlanTypeOK'
    BY <1>1, <1>2, <1>4
       DEF PlanIInv, PlanTypeOK, PlanFails, Stage, PlanError, OtxError, MessageError
  <2>2. ProgressInv' /\ CheckedInv' /\ RelatedInv'
    BY <1>1, <1>2, <1>4 DEF PlanIInv, ProgressInv, CheckedInv, RelatedInv, PlanFails
  <2>3. QED
    BY <1>2, <2>1, <2>2 DEF PlanIInv
<1>5. CASE /\ OtxError(otx_index) = "none"
           /\ related_actions' = related_actions \cup OtxRelated(otx_index)
           /\ otx_index' = otx_index + 1
           /\ UNCHANGED <<stage, plan_error>>
  <2>1. OtxRelated(otx_index) \subseteq RelatedAction
    BY <1>3, RelatedTyped DEF PlanIInv
  <2>2. PlanTypeOK'
    BY <1>1, <1>2, <1>3, <1>5, <2>1 DEF PlanIInv, PlanTypeOK, RelatedAction
  <2>3. ProgressInv'
    BY <1>1, <1>2, <1>5 DEF PlanIInv, ProgressInv, Scanned
  <2>4. \A k : k \in 0..(otx_index' - 1) <=> k \in 0..(otx_index - 1) \/ k = otx_index
    BY <1>3, <1>5
  <2>5. CheckedInv'
    BY <1>1, <1>5, <2>4, ReadsKept DEF PlanIInv, CheckedInv
  <2>6. RelatedInv'
    <3>1. \A k : OtxRelated(k)' = OtxRelated(k)
      BY <1>1, ReadsKept
    <3>2. /\ \A related \in related_actions :
               \E k \in 0..(otx_index - 1) : related \in OtxRelated(k)
          /\ \A k \in 0..(otx_index - 1) : OtxRelated(k) \subseteq related_actions
      BY <1>1 DEF PlanIInv, RelatedInv
    <3>3. \A related \in related_actions' :
            \E k \in 0..(otx_index' - 1) : related \in OtxRelated(k)'
      BY <1>5, <2>4, <3>1, <3>2
    <3>4. \A k \in 0..(otx_index' - 1) : OtxRelated(k)' \subseteq related_actions'
      BY <1>5, <2>4, <3>1, <3>2
    <3>5. stage' = "otx" /\ phase' = "complete"
      BY <1>1, <1>2, <1>5
    <3>6. QED
      BY <3>3, <3>4, <3>5 DEF RelatedInv
  <2>7. QED
    BY <1>2, <2>2, <2>3, <2>5, <2>6 DEF PlanIInv
<1>6. QED
  BY <1>4, <1>5 DEF AddOtxAction

LEMMA AllOtxAddedInv ==
  ASSUME PlanIInv, AllOtxAdded
  PROVE  PlanIInv'
<1>1. /\ stage = "otx" /\ stage' = "tx_level"
      /\ phase = "none" \/ otx_index = Len(otx_entries)
      /\ UNCHANGED scanVars
      /\ UNCHANGED <<type_script, plan_error, related_actions, otx_index>>
  BY DEF AllOtxAdded
<1>2. IInv' /\ OrderInv' /\ phase' = phase /\ otx_entries' = otx_entries
  BY <1>1, PlanStepKeeps
<1>3. PlanTypeOK'
  BY <1>1, <1>2 DEF PlanIInv, PlanTypeOK, Stage
<1>4. ProgressInv'
  BY <1>1, <1>2 DEF PlanIInv, ProgressInv, Scanned
<1>5. CheckedInv'
  BY <1>1, <1>2, ReadsKept DEF PlanIInv, CheckedInv
<1>6. RelatedInv'
  <2>1. \A k : OtxRelated(k)' = OtxRelated(k)
    BY <1>1, ReadsKept
  <2>2. QED
    BY <1>1, <1>2, <2>1 DEF PlanIInv, RelatedInv
<1>7. QED
  BY <1>2, <1>3, <1>4, <1>5, <1>6 DEF PlanIInv

\* engine.rs add_tx_level_actions: the tx-level message is checked, then related.
LEMMA AddTxLevelActionsInv ==
  ASSUME PlanIInv, AddTxLevelActions
  PROVE  PlanIInv'
<1>1. stage = "tx_level" /\ UNCHANGED scanVars /\ UNCHANGED <<type_script, otx_index>>
  BY DEF AddTxLevelActions
<1>2. IInv' /\ OrderInv' /\ phase' = phase /\ otx_entries' = otx_entries
  BY <1>1, PlanStepKeeps
<1>3. CASE TxLevelError # "none" /\ PlanFails(TxLevelError) /\ UNCHANGED related_actions
  <2>1. PlanTypeOK'
    BY <1>1, <1>2, <1>3
       DEF PlanIInv, PlanTypeOK, PlanFails, Stage, PlanError, TxLevelError, MessageError
  <2>2. ProgressInv' /\ CheckedInv' /\ RelatedInv'
    BY <1>1, <1>2, <1>3 DEF PlanIInv, ProgressInv, CheckedInv, RelatedInv, PlanFails
  <2>3. QED
    BY <1>2, <2>1, <2>2 DEF PlanIInv
<1>4. CASE /\ TxLevelError = "none" /\ stage' = "planned"
           /\ related_actions' =
                related_actions \cup (IF SighashAlls = {} THEN {} ELSE TxRelated)
           /\ UNCHANGED plan_error
  <2>1. SighashAlls # {} => TxRelated \subseteq RelatedAction
    BY RelatedTyped DEF PlanIInv
  <2>2. PlanTypeOK'
    BY <1>1, <1>2, <1>4, <2>1 DEF PlanIInv, PlanTypeOK, RelatedAction, Stage
  <2>3. ProgressInv'
    BY <1>1, <1>2, <1>4 DEF PlanIInv, ProgressInv, Scanned
  <2>4. CheckedInv'
    BY <1>1, <1>2, <1>4, ReadsKept DEF PlanIInv, CheckedInv
  <2>5. RelatedInv'
    <3>1. /\ \A k : OtxRelated(k)' = OtxRelated(k)
          /\ TxRelated' = TxRelated /\ SighashAlls' = SighashAlls
      BY <1>1, ReadsKept
    <3>2. /\ \A related \in related_actions :
               \E k \in 0..(otx_index - 1) : phase = "complete" /\ related \in OtxRelated(k)
          /\ phase = "complete" =>
               \A k \in 0..(otx_index - 1) : OtxRelated(k) \subseteq related_actions
      BY <1>1 DEF PlanIInv, RelatedInv
    <3>3. stage' = "planned" /\ otx_index' = otx_index
      BY <1>1, <1>4
    <3>4. QED
      BY <1>2, <1>4, <3>1, <3>2, <3>3 DEF RelatedInv
  <2>6. QED
    BY <1>2, <2>2, <2>3, <2>4, <2>5 DEF PlanIInv
<1>5. QED
  BY <1>3, <1>4 DEF AddTxLevelActions

LEMMA PlanStutterInv ==
  ASSUME PlanIInv, UNCHANGED vars
  PROVE  PlanIInv'
<1>1. /\ UNCHANGED scanVars
      /\ UNCHANGED <<type_script, stage, plan_error, related_actions, otx_index>>
  BY DEF vars, planVars
<1>2. IInv' /\ OrderInv' /\ phase' = phase /\ otx_entries' = otx_entries
  BY <1>1, PlanStepKeeps
<1>3. PlanTypeOK' /\ ProgressInv'
  BY <1>1, <1>2 DEF PlanIInv, PlanTypeOK, ProgressInv, Scanned
<1>4. CheckedInv'
  BY <1>1, <1>2, ReadsKept DEF PlanIInv, CheckedInv
<1>5. RelatedInv'
  <2>1. /\ \A k : OtxRelated(k)' = OtxRelated(k)
        /\ TxRelated' = TxRelated /\ SighashAlls' = SighashAlls
    BY <1>1, ReadsKept
  <2>2. QED
    BY <1>1, <1>2, <2>1 DEF PlanIInv, RelatedInv
<1>6. QED
  BY <1>2, <1>3, <1>4, <1>5 DEF PlanIInv

\* engine.rs TypePlanBuilder::build: PlanIInv holds in every state of the planner.
THEOREM PlanInvariant == PlanSpec => []PlanIInv
<1>1. ASSUME PlanIInv, [PlanNext]_vars
      PROVE  PlanIInv'
  <2>1. CASE ScanStep
    BY <1>1, <2>1, ScanStepPlanInv
  <2>2. CASE BeginPlan
    BY <1>1, <2>2, BeginPlanInv
  <2>3. CASE AddOtxAction
    BY <1>1, <2>3, AddOtxActionInv
  <2>4. CASE AllOtxAdded
    BY <1>1, <2>4, AllOtxAddedInv
  <2>5. CASE AddTxLevelActions
    BY <1>1, <2>5, AddTxLevelActionsInv
  <2>6. CASE UNCHANGED vars
    BY <1>1, <2>6, PlanStutterInv
  <2>7. QED
    BY <1>1, <2>1, <2>2, <2>3, <2>4, <2>5, <2>6 DEF PlanNext
<1>2. PlanIInv /\ [PlanNext]_vars => PlanIInv'
  BY <1>1
<1>3. QED
  BY PlanInitInv, <1>2, PTL DEF PlanSpec
-----------------------------------------------------------------------------
(***************************************************************************)
(* What the invariant gives.                                               *)
(***************************************************************************)
\* engine.rs: the planner's variables keep their types.
THEOREM PlanTypeCorrect == PlanSpec => []PlanTypeOK
BY PlanInvariant, PTL DEF PlanIInv

\* A cell of the type script in a piece of an OTX relates the script to that OTX.
LEMMA HolderMentions ==
  ASSUME IInv, OrderInv, phase = "complete", NEW d \in {"inputs", "outputs"},
         NEW i \in TypeCells(d), NEW p \in 1..Len(pieces), InSpan(i, pieces[p].span[d])
  PROVE  /\ pieces[p].otx \in 0..(Len(otx_entries) - 1)
         /\ MentionsType(TypeRelation(pieces[p].otx))
<1>1. PICK k \in 0..(Len(otx_entries) - 1) : k = pieces[p].otx
  BY PieceFacts
<1>2. i \in Int /\ d \in Dim /\ p \in PiecesOf(k)
  BY <1>1 DEF TypeCells, TypeInputs, TypeOutputs, Dim, PiecesOf
<1>3. InSpan(i, BaseSpan(k, d)) \/ InSpan(i, AppendSpan(k, d))
  BY <1>2, WindowParts
<1>4. HasTypeIn(d, BaseSpan(k, d)) \/ HasTypeIn(d, AppendSpan(k, d))
  BY <1>3 DEF HasTypeIn
<1>5. MentionsType(TypeRelation(k))
  BY <1>4 DEF MentionsType, TypeRelation
<1>6. QED
  BY <1>1, <1>5

\* A cell of the type script in no OTX relates it to the rest of the transaction.
LEMMA OutsiderMentions ==
  ASSUME IInv, Scanned, NEW d \in {"inputs", "outputs"}, NEW i \in TypeCells(d),
         \A p \in 1..Len(pieces) : ~InSpan(i, pieces[p].span[d])
  PROVE  TxLevelMentionsType
<1>1. i \in Nat /\ d \in Dim
  BY DEF TypeCells, TypeInputs, TypeOutputs, Dim
<1>2. phase = "none" \/ ~InSpan(i, AggregateRange(d))
  BY <1>1, AggregateIsPieces DEF Scanned
<1>3. QED
  BY <1>2 DEF TxLevelMentionsType

\* Where a related action was read.
LEMMA RelatedFrom ==
  ASSUME PlanIInv, stage = "planned", NEW related \in related_actions
  PROVE  \/ \E k \in 0..(Len(otx_entries) - 1) :
              \E a \in TypeActions(OtxViewAt(k).message) :
                /\ related = Related(OtxRef(otx_entries[k + 1], k, a - 1),
                                     OtxScope(TypeRelation(k)))
                /\ OtxError(k) = "none"
         \/ \E a \in TypeActions(TxMessage) :
              /\ related = Related(TxRef(MessageIndex, a - 1), {})
              /\ SighashAlls # {}
<1>1. CASE \E k \in 0..(otx_index - 1) : phase = "complete" /\ related \in OtxRelated(k)
  <2>1. PICK k \in 0..(otx_index - 1) : phase = "complete" /\ related \in OtxRelated(k)
    BY <1>1
  <2>2. k \in 0..(Len(otx_entries) - 1) /\ OtxError(k) = "none"
    BY <2>1 DEF PlanIInv, ProgressInv, CheckedInv
  <2>3. PICK a \in TypeActions(OtxViewAt(k).message) :
          related = Related(OtxRef(otx_entries[k + 1], k, a - 1), OtxScope(TypeRelation(k)))
    BY <2>1 DEF OtxRelated
  <2>4. QED
    BY <2>2, <2>3
<1>2. CASE SighashAlls # {} /\ related \in TxRelated
  <2>1. PICK a \in TypeActions(TxMessage) : related = Related(TxRef(MessageIndex, a - 1), {})
    BY <1>2 DEF TxRelated
  <2>2. QED
    BY <1>2, <2>1
<1>3. QED
  BY <1>1, <1>2 DEF PlanIInv, RelatedInv

\* engine.rs add_otx_action, add_tx_related_actions: the message over every cell of
\* the type script, and the message of every related action, names only scripts
\* there are.
THEOREM PlanChecksMessages == PlanSpec => []MessagesChecked
<1>1. PlanIInv => MessagesChecked
  <2> SUFFICES ASSUME PlanIInv, stage = "planned" PROVE MessagesChecked
    BY DEF MessagesChecked
  <2>1. Scanned /\ IInv /\ OrderInv /\ TxLevelError = "none"
    BY DEF PlanIInv, ProgressInv, CheckedInv
  <2>2. ASSUME NEW d \in {"inputs", "outputs"}, NEW i \in TypeCells(d),
               NEW p \in 1..Len(pieces), InSpan(i, pieces[p].span[d])
        PROVE  TargetsPresent(OtxViewAt(pieces[p].otx).message)
    <3>1. phase = "complete"
      BY <2>1, CompleteFacts DEF Scanned
    <3>2. /\ pieces[p].otx \in 0..(Len(otx_entries) - 1)
          /\ MentionsType(TypeRelation(pieces[p].otx))
      BY <2>1, <2>2, <3>1, HolderMentions
    <3>3. OtxError(pieces[p].otx) = "none"
      BY <3>1, <3>2 DEF PlanIInv, ProgressInv, CheckedInv
    <3>4. QED
      BY <3>2, <3>3 DEF OtxError, MessageError
  <2>3. ASSUME NEW d \in {"inputs", "outputs"}, NEW i \in TypeCells(d),
               \A p \in 1..Len(pieces) : ~InSpan(i, pieces[p].span[d]),
               NEW w \in SighashAlls
        PROVE  TargetsPresent(WitnessAt(w).message)
    <3>1. TxLevelMentionsType
      BY <2>1, <2>3, OutsiderMentions
    <3>2. ~DuplicateSighashAll /\ MessageError(TxMessage, TxLevelMentionsType) = "none"
      BY <2>1 DEF TxLevelError
    <3>3. TargetsPresent(TxMessage)
      BY <3>1, <3>2 DEF MessageError
    <3>4. MessageIndex = w
      BY <3>2 DEF MessageIndex, DuplicateSighashAll
    <3>5. TxMessage = WitnessAt(w).message
      BY <2>1, <3>4, SighashAllFacts DEF TxMessage
    <3>6. QED
      BY <3>3, <3>5
  <2>4. ASSUME NEW related \in related_actions
        PROVE  LET w == WitnessAt(related.ref.witness_index)
               IN  TargetsPresent(IF w.kind = "otx" THEN w.view.message ELSE w.message)
    <3>1. CASE \E k \in 0..(Len(otx_entries) - 1) :
                 \E a \in TypeActions(OtxViewAt(k).message) :
                   /\ related.ref = OtxRef(otx_entries[k + 1], k, a - 1)
                   /\ OtxError(k) = "none"
      <4>1. PICK k \in 0..(Len(otx_entries) - 1) :
              \E a \in TypeActions(OtxViewAt(k).message) :
                /\ related.ref = OtxRef(otx_entries[k + 1], k, a - 1)
                /\ OtxError(k) = "none"
        BY <3>1
      <4>2. related.ref.witness_index = otx_entries[k + 1]
        BY <4>1 DEF OtxRef
      <4>3. TargetsPresent(OtxViewAt(k).message)
        BY <4>1 DEF OtxError, MessageError
      <4>4. WitnessAt(otx_entries[k + 1]).kind = "otx"
        BY <2>1, EntryFacts
      <4>5. QED
        BY <4>2, <4>3, <4>4 DEF OtxViewAt
    <3>2. CASE /\ SighashAlls # {}
               /\ \E a \in TypeActions(TxMessage) : related.ref = TxRef(MessageIndex, a - 1)
      <4>1. related.ref.witness_index = MessageIndex /\ TypeActions(TxMessage) # {}
        BY <3>2 DEF TxRef
      <4>2. TargetsPresent(TxMessage)
        BY <2>1, <3>2, <4>1 DEF TxLevelError, MessageError
      <4>3. MessageIndex \in SighashAlls
        BY <3>2 DEF MessageIndex
      <4>4. /\ WitnessAt(MessageIndex).kind = "sighash_all"
            /\ TxMessage = WitnessAt(MessageIndex).message
        BY <2>1, <4>3, SighashAllFacts DEF TxMessage
      <4>5. QED
        BY <4>1, <4>2, <4>4
    <3>3. QED
      BY <3>1, <3>2, RelatedFrom DEF Related
  <2>5. QED
    BY <2>2, <2>3, <2>4 DEF MessagesChecked
<1>2. QED
  BY <1>1, PlanInvariant, PTL

\* plan.rs ActionRef::cmp: the order of the keys is lexicographic.
LEMMA SortsBeforeFacts ==
  ASSUME NEW r, NEW q
  PROVE  SortsBefore(r, q) <=>
           \/ SortKey(r)[1] < SortKey(q)[1]
           \/ /\ SortKey(r)[1] = SortKey(q)[1]
              /\ \/ SortKey(r)[2] < SortKey(q)[2]
                 \/ /\ SortKey(r)[2] = SortKey(q)[2]
                    /\ \/ SortKey(r)[3] < SortKey(q)[3]
                       \/ SortKey(r)[3] = SortKey(q)[3] /\ SortKey(r)[4] < SortKey(q)[4]
<1> DEFINE K == SortKey(r)
           L == SortKey(q)
           AgreeTo(n) == \A m \in 1..(n - 1) : K[m] = L[m]
<1>1. 1..4 = {1, 2, 3, 4}
  OBVIOUS
<1>2. 1..(1 - 1) = {} /\ 1..(2 - 1) = {1} /\ 1..(3 - 1) = {1, 2} /\ 1..(4 - 1) = {1, 2, 3}
  OBVIOUS
<1>3. SortsBefore(r, q) <=> \E n \in {1, 2, 3, 4} : K[n] < L[n] /\ AgreeTo(n)
  BY <1>1 DEF SortsBefore
<1>4. /\ AgreeTo(1)
      /\ AgreeTo(2) <=> K[1] = L[1]
      /\ AgreeTo(3) <=> K[1] = L[1] /\ K[2] = L[2]
      /\ AgreeTo(4) <=> K[1] = L[1] /\ K[2] = L[2] /\ K[3] = L[3]
  BY <1>2
<1> HIDE DEF K, L, AgreeTo
<1>5. SortsBefore(r, q) <=>
        \/ K[1] < L[1] /\ AgreeTo(1)
        \/ K[2] < L[2] /\ AgreeTo(2)
        \/ K[3] < L[3] /\ AgreeTo(3)
        \/ K[4] < L[4] /\ AgreeTo(4)
  BY <1>3
<1>6. QED
  BY <1>4, <1>5 DEF K, L

\* engine.rs TypePlan.related_actions: sorting by reference is sorting by witness,
\* then by the place in the message, because the collected OTX are numbered in the
\* order of their witnesses and no OTX witness carries the tx-level message.
THEOREM PlanOrdersActions == PlanSpec => []CanonicalOrder
<1>1. PlanIInv => CanonicalOrder
  <2> DEFINE By(r, q) == \/ r.witness_index < q.witness_index
                         \/ r.witness_index = q.witness_index /\ r.action_index < q.action_index
  <2> SUFFICES ASSUME PlanIInv, stage = "planned",
                      NEW one \in related_actions, NEW other \in related_actions, one # other
               PROVE  one.ref # other.ref /\ (SortsBefore(one.ref, other.ref) <=> By(one.ref, other.ref))
    BY DEF CanonicalOrder
  <2>1. IInv
    BY DEF PlanIInv
  <2> DEFINE IsOtx(x, k, a) ==
               /\ k \in 0..(Len(otx_entries) - 1) /\ a \in Int
               /\ x = Related(OtxRef(start + (k + 1), k, a - 1), OtxScope(TypeRelation(k)))
             IsTx(x, a) ==
               /\ MessageIndex \in Nat /\ a \in Int
               /\ \A k \in 0..(Len(otx_entries) - 1) : MessageIndex # start + (k + 1)
               /\ x = Related(TxRef(MessageIndex, a - 1), {})
  <2>2. ASSUME NEW x \in related_actions
        PROVE  (\E k, a : IsOtx(x, k, a)) \/ \E a : IsTx(x, a)
    <3>1. ASSUME NEW k \in 0..(Len(otx_entries) - 1), NEW a \in TypeActions(OtxViewAt(k).message),
                 x = Related(OtxRef(otx_entries[k + 1], k, a - 1), OtxScope(TypeRelation(k)))
          PROVE  IsOtx(x, k, a)
      BY <2>1, <3>1, EntryFacts DEF TypeActions
    <3>2. ASSUME NEW a \in TypeActions(TxMessage), SighashAlls # {},
                 x = Related(TxRef(MessageIndex, a - 1), {})
          PROVE  IsTx(x, a)
      <4>1. MessageIndex \in SighashAlls
        BY <3>2 DEF MessageIndex
      <4>2. MessageIndex \in Nat /\ WitnessAt(MessageIndex).kind = "sighash_all"
        BY <2>1, <4>1, SighashAllFacts
      <4>3. \A k \in 0..(Len(otx_entries) - 1) : MessageIndex # start + (k + 1)
        BY <2>1, <4>2, EntryFacts
      <4>4. QED
        BY <3>2, <4>2, <4>3 DEF TypeActions
    <3>3. QED
      BY <3>1, <3>2, RelatedFrom
  <2>3. \A k \in 0..(Len(otx_entries) - 1) : k \in Nat /\ start \in Nat
    BY <2>1, EntryFacts
  <2>4. ASSUME NEW k, NEW a, NEW l, NEW b, IsOtx(one, k, a), IsOtx(other, l, b)
        PROVE  one.ref # other.ref /\ (SortsBefore(one.ref, other.ref) <=> By(one.ref, other.ref))
    <3>1. one.ref = OtxRef(start + (k + 1), k, a - 1) /\ other.ref = OtxRef(start + (l + 1), l, b - 1)
      BY <2>4 DEF Related
    <3>2. k \in Nat /\ l \in Nat /\ start \in Nat /\ a \in Int /\ b \in Int
      BY <2>3, <2>4
    <3>3. /\ SortKey(one.ref) = <<start + (k + 1), 1, k, a - 1>>
          /\ SortKey(other.ref) = <<start + (l + 1), 1, l, b - 1>>
      BY <3>1 DEF OtxRef, SortKey
    <3>4. /\ one.ref.witness_index = start + (k + 1) /\ one.ref.action_index = a - 1
          /\ other.ref.witness_index = start + (l + 1) /\ other.ref.action_index = b - 1
      BY <3>1 DEF OtxRef
    <3>5. k # l \/ a # b
      BY <2>4
    <3>6. one.ref # other.ref
      BY <3>2, <3>4, <3>5
    <3>7. SortsBefore(one.ref, other.ref) <=>
            start + (k + 1) < start + (l + 1) \/ (start + (k + 1) = start + (l + 1) /\ a - 1 < b - 1)
      BY <3>2, <3>3, SortsBeforeFacts
    <3>8. QED
      BY <3>4, <3>6, <3>7
  <2>5. ASSUME NEW a, NEW b, IsTx(one, a), IsTx(other, b)
        PROVE  one.ref # other.ref /\ (SortsBefore(one.ref, other.ref) <=> By(one.ref, other.ref))
    <3>1. one.ref = TxRef(MessageIndex, a - 1) /\ other.ref = TxRef(MessageIndex, b - 1)
      BY <2>5 DEF Related
    <3>2. MessageIndex \in Nat /\ a \in Int /\ b \in Int
      BY <2>5
    <3>3. /\ SortKey(one.ref) = <<MessageIndex, 0, 0, a - 1>>
          /\ SortKey(other.ref) = <<MessageIndex, 0, 0, b - 1>>
      BY <3>1 DEF TxRef, SortKey
    <3>4. /\ one.ref.witness_index = MessageIndex /\ one.ref.action_index = a - 1
          /\ other.ref.witness_index = MessageIndex /\ other.ref.action_index = b - 1
      BY <3>1 DEF TxRef
    <3>5. a # b
      BY <2>5
    <3>6. SortsBefore(one.ref, other.ref) <=> a - 1 < b - 1
      BY <3>2, <3>3, SortsBeforeFacts
    <3>7. QED
      BY <3>2, <3>4, <3>5, <3>6
  <2>6. ASSUME NEW x, NEW y, NEW k, NEW a, NEW b, IsOtx(x, k, a), IsTx(y, b)
        PROVE  /\ x.ref # y.ref
               /\ SortsBefore(x.ref, y.ref) <=> By(x.ref, y.ref)
               /\ SortsBefore(y.ref, x.ref) <=> By(y.ref, x.ref)
    <3>1. x.ref = OtxRef(start + (k + 1), k, a - 1) /\ y.ref = TxRef(MessageIndex, b - 1)
      BY <2>6 DEF Related
    <3>2. /\ start + (k + 1) \in Nat /\ MessageIndex \in Nat /\ MessageIndex # start + (k + 1)
          /\ a \in Int /\ b \in Int
      BY <2>3, <2>6
    <3>3. /\ SortKey(x.ref) = <<start + (k + 1), 1, k, a - 1>>
          /\ SortKey(y.ref) = <<MessageIndex, 0, 0, b - 1>>
      BY <3>1 DEF TxRef, OtxRef, SortKey
    <3>4. /\ x.ref.witness_index = start + (k + 1) /\ y.ref.witness_index = MessageIndex
      BY <3>1 DEF TxRef, OtxRef
    <3>5. /\ SortsBefore(x.ref, y.ref) <=> start + (k + 1) < MessageIndex
          /\ SortsBefore(y.ref, x.ref) <=> MessageIndex < start + (k + 1)
      BY <3>2, <3>3, SortsBeforeFacts
    <3>6. QED
      BY <3>2, <3>4, <3>5
  <2> HIDE DEF IsOtx, IsTx, By
  <2>7. QED
    BY <2>2, <2>4, <2>5, <2>6
<1>2. QED
  BY <1>1, PlanInvariant, PTL
-----------------------------------------------------------------------------
(***************************************************************************)
(* The queries and the plan.                                               *)
(***************************************************************************)
\* engine.rs all_actions: what it lists when no message fails, and that all parse.
ListedOtx(x, k, a) ==
  OtxNumber(k) /\ a \in 1..Len(OtxViewAt(k).message) /\ x = RelatedOtx(k, a)
ListedTx(x, a) == SighashAlls # {} /\ a \in 1..Len(TxMessage) /\ x = RelatedTx(a)

LEMMA AllActionsFacts ==
  ASSUME AllActions.error = "none"
  PROVE  /\ ~DuplicateSighashAll
         /\ SighashAlls # {} => Parses(TxMessage)
         /\ \A k \in 0..(Len(otx_entries) - 1) : OtxNumber(k) => Parses(OtxViewAt(k).message)
         /\ \A x : x \in AllActions.actions <=>
              \/ \E k \in 0..(Len(otx_entries) - 1) : \E a : ListedOtx(x, k, a)
              \/ \E a : ListedTx(x, a)
<1> DEFINE K == {n \in 0..(Len(otx_entries) - 1) : OtxNumber(n)}
           answers == {TxLevelActions} \cup {OtxActions(k) : k \in K}
<1>1. AllActions = IF TxLevelActions.error # "none" THEN TxLevelActions
                   ELSE IF \E answer \in answers : answer.error # "none"
                     THEN Failed("InvalidMessageTarget")
                   ELSE Found(UNION {answer.actions : answer \in answers})
  BY DEF AllActions
<1> HIDE DEF answers
<1>2. TxLevelActions.error = "none" /\ ~\E answer \in answers : answer.error # "none"
  BY <1>1 DEF Failed
<1>3. AllActions.actions = UNION {answer.actions : answer \in answers}
  BY <1>1, <1>2 DEF Found
<1>4. /\ ~DuplicateSighashAll
      /\ SighashAlls # {} => Parses(TxMessage)
      /\ \A x : x \in TxLevelActions.actions <=> \E a : ListedTx(x, a)
  <2>1. ~DuplicateSighashAll
    BY <1>2 DEF TxLevelActions, Failed
  <2>2. CASE SighashAlls = {}
    <3>1. TxLevelActions = Found({})
      BY <2>1, <2>2 DEF TxLevelActions
    <3>2. QED
      BY <2>1, <2>2, <3>1 DEF Found, ListedTx
  <2>3. CASE SighashAlls # {}
    <3> DEFINE related == {RelatedTx(a) : a \in 1..Len(TxMessage)}
    <3>1. TxLevelActions = CheckedMessage(TxMessage, related)
      BY <2>1, <2>3 DEF TxLevelActions
    <3>2. Parses(TxMessage) /\ TxLevelActions = Found(related)
      BY <1>2, <3>1 DEF CheckedMessage, Failed
    <3>3. TxLevelActions.actions = related
      BY <3>2 DEF Found
    <3>4. QED
      BY <2>1, <2>3, <3>2, <3>3 DEF ListedTx
  <2>4. QED
    BY <2>2, <2>3
<1>5. ASSUME NEW k \in K
      PROVE  /\ Parses(OtxViewAt(k).message)
             /\ \A x : x \in OtxActions(k).actions <=> \E a : ListedOtx(x, k, a)
  <2> DEFINE message == OtxViewAt(k).message
             related == {RelatedOtx(k, a) : a \in 1..Len(message)}
  <2>1. OtxActions(k).error = "none"
    BY <1>2 DEF answers
  <2>2. OtxActions(k) = CheckedMessage(message, related)
    BY DEF OtxActions
  <2>3. Parses(message) /\ OtxActions(k) = Found(related)
    BY <2>1, <2>2 DEF CheckedMessage, Failed
  <2>4. OtxActions(k).actions = related
    BY <2>3 DEF Found
  <2>5. QED
    BY <2>3, <2>4 DEF ListedOtx
<1>6. ASSUME NEW x
      PROVE  x \in AllActions.actions <=>
               \/ \E k \in 0..(Len(otx_entries) - 1) : \E a : ListedOtx(x, k, a)
               \/ \E a : ListedTx(x, a)
  <2>1. x \in AllActions.actions <=>
          x \in TxLevelActions.actions \/ \E k \in K : x \in OtxActions(k).actions
    BY <1>3 DEF answers
  <2>2. (\E k \in K : x \in OtxActions(k).actions) <=>
          \E k \in 0..(Len(otx_entries) - 1) : \E a : ListedOtx(x, k, a)
    BY <1>5 DEF ListedOtx
  <2>3. QED
    BY <1>4, <2>1, <2>2
<1>7. QED
  BY <1>4, <1>5, <1>6

\* engine.rs find_action: what stands at the place of an action.
LEMMA FindOtx ==
  ASSUME NEW k \in Nat, OtxNumber(k), NEW a \in 1..Len(OtxViewAt(k).message),
         OtxViewAt(k).message[a].role \in ScriptRole
  PROVE  FindAction(OtxRef(otx_entries[k + 1], k, a - 1)) = Found({RelatedOtx(k, a)})
<1> DEFINE ref == OtxRef(otx_entries[k + 1], k, a - 1)
<1>1. /\ ref.origin = "otx" /\ ref.witness_index = otx_entries[k + 1]
      /\ ref.otx_index = k /\ ref.action_index = a - 1
  BY DEF OtxRef
<1>2. (a - 1) + 1 = a
  OBVIOUS
<1> HIDE DEF ref
<1>3. FindAction(ref) = MessageAction(OtxViewAt(k).message, a, RelatedOtx(k, a))
  BY <1>1, <1>2 DEF FindAction
<1>4. QED
  BY <1>3 DEF MessageAction, ref

LEMMA FindTx ==
  ASSUME ~DuplicateSighashAll, SighashAlls # {}, NEW a \in 1..Len(TxMessage),
         TxMessage[a].role \in ScriptRole
  PROVE  FindAction(TxRef(MessageIndex, a - 1)) = Found({RelatedTx(a)})
<1> DEFINE ref == TxRef(MessageIndex, a - 1)
<1>1. /\ ref.origin = "tx_level" /\ ref.witness_index = MessageIndex
      /\ ref.action_index = a - 1
  BY DEF TxRef
<1>2. (a - 1) + 1 = a
  OBVIOUS
<1> HIDE DEF ref
<1>3. FindAction(ref) = MessageAction(TxMessage, a, RelatedTx(a))
  BY <1>1, <1>2 DEF FindAction
<1>4. QED
  BY <1>3 DEF MessageAction, ref

\* A place find_action finds something at is that of an action of a message.
LEMMA FoundAt ==
  ASSUME NEW w, NEW a \in Nat, NEW k \in Nat
  PROVE  /\ FindAction(TxRef(w, a)).error = "none" =>
              \E b : ListedTx(RelatedTx(b), b) /\ RelatedTx(b).ref = TxRef(w, a)
         /\ FindAction(OtxRef(w, k, a)).error = "none" =>
              \E b : ListedOtx(RelatedOtx(k, b), k, b) /\ RelatedOtx(k, b).ref = OtxRef(w, k, a)
<1>1. (a + 1) - 1 = a
  OBVIOUS
<1>2. ASSUME FindAction(TxRef(w, a)).error = "none"
      PROVE  ListedTx(RelatedTx(a + 1), a + 1) /\ RelatedTx(a + 1).ref = TxRef(w, a)
  <2> DEFINE ref == TxRef(w, a)
  <2>1. ref.origin = "tx_level" /\ ref.witness_index = w /\ ref.action_index = a
    BY DEF TxRef
  <2>2. FindAction(ref).error = "none"
    BY <1>2
  <2> HIDE DEF ref
  <2>3. /\ SighashAlls # {} /\ MessageIndex = w
        /\ MessageAction(TxMessage, a + 1, RelatedTx(a + 1)).error = "none"
    BY <2>1, <2>2 DEF FindAction, Failed
  <2>4. a + 1 \in 1..Len(TxMessage)
    BY <2>3 DEF MessageAction, Failed
  <2>5. QED
    BY <1>1, <2>3, <2>4 DEF ListedTx, RelatedTx
<1>3. ASSUME FindAction(OtxRef(w, k, a)).error = "none"
      PROVE  /\ ListedOtx(RelatedOtx(k, a + 1), k, a + 1)
             /\ RelatedOtx(k, a + 1).ref = OtxRef(w, k, a)
  <2> DEFINE ref == OtxRef(w, k, a)
  <2>1. /\ ref.origin = "otx" /\ ref.witness_index = w /\ ref.otx_index = k
        /\ ref.action_index = a
    BY DEF OtxRef
  <2>2. FindAction(ref).error = "none"
    BY <1>3
  <2> HIDE DEF ref
  <2>3. /\ OtxNumber(k) /\ otx_entries[k + 1] = w
        /\ MessageAction(OtxViewAt(k).message, a + 1, RelatedOtx(k, a + 1)).error = "none"
    BY <2>1, <2>2 DEF FindAction, Failed
  <2>4. a + 1 \in 1..Len(OtxViewAt(k).message)
    BY <2>3 DEF MessageAction, Failed
  <2>5. QED
    BY <1>1, <2>3, <2>4 DEF ListedOtx, RelatedOtx
<1>4. QED
  BY <1>2, <1>3

\* What a finished plan relates, by place: the actions addressed to the type script.
LEMMA PlannedRefs ==
  ASSUME PlanIInv, stage = "planned"
  PROVE  \A ref : (\E related \in related_actions : related.ref = ref) <=>
           \/ \E k \in 0..(Len(otx_entries) - 1) : \E a \in TypeActions(OtxViewAt(k).message) :
                OtxNumber(k) /\ ref = OtxRef(otx_entries[k + 1], k, a - 1)
           \/ /\ SighashAlls # {}
              /\ \E a \in TypeActions(TxMessage) : ref = TxRef(MessageIndex, a - 1)
<1> SUFFICES ASSUME NEW ref
             PROVE  (\E related \in related_actions : related.ref = ref) <=>
               \/ \E k \in 0..(Len(otx_entries) - 1) : \E a \in TypeActions(OtxViewAt(k).message) :
                    OtxNumber(k) /\ ref = OtxRef(otx_entries[k + 1], k, a - 1)
               \/ /\ SighashAlls # {}
                  /\ \E a \in TypeActions(TxMessage) : ref = TxRef(MessageIndex, a - 1)
  OBVIOUS
<1>1. /\ IInv /\ Scanned /\ Len(otx_entries) \in Nat
      /\ phase = "complete" => otx_index = Len(otx_entries)
  BY DEF PlanIInv, ProgressInv, IInv, TypeOK
<1>2. \A k \in 0..(Len(otx_entries) - 1) : OtxNumber(k)
  BY <1>1 DEF OtxNumber, IInv, CollectorInv, Scanned
<1>3. ASSUME NEW related \in related_actions, related.ref = ref
      PROVE  \/ \E k \in 0..(Len(otx_entries) - 1) : \E a \in TypeActions(OtxViewAt(k).message) :
                  OtxNumber(k) /\ ref = OtxRef(otx_entries[k + 1], k, a - 1)
             \/ /\ SighashAlls # {}
                /\ \E a \in TypeActions(TxMessage) : ref = TxRef(MessageIndex, a - 1)
  BY <1>2, <1>3, RelatedFrom DEF Related
<1>4. ASSUME NEW k \in 0..(Len(otx_entries) - 1), NEW a \in TypeActions(OtxViewAt(k).message),
             ref = OtxRef(otx_entries[k + 1], k, a - 1)
      PROVE  \E related \in related_actions : related.ref = ref
  <2>1. phase = "complete" /\ otx_index = Len(otx_entries)
    BY <1>1, <1>2 DEF OtxNumber
  <2>2. Related(ref, OtxScope(TypeRelation(k))) \in related_actions
    BY <1>4, <2>1 DEF PlanIInv, RelatedInv, OtxRelated
  <2>3. QED
    BY <2>2 DEF Related
<1>5. ASSUME SighashAlls # {}, NEW a \in TypeActions(TxMessage), ref = TxRef(MessageIndex, a - 1)
      PROVE  \E related \in related_actions : related.ref = ref
  <2>1. Related(ref, {}) \in related_actions
    BY <1>5 DEF PlanIInv, RelatedInv, TxRelated
  <2>2. QED
    BY <2>1 DEF Related
<1>6. QED
  BY <1>3, <1>4, <1>5

\* engine.rs find_action, all_actions, TypePlan.related_actions: the queries and the
\* plan agree on every transaction.
THEOREM PlanQueriesAgree == PlanSpec => []QueriesAgree
<1>1. PlanIInv => QueriesAgree
  <2> SUFFICES ASSUME PlanIInv, stage = "planned" PROVE QueriesAgree
    BY DEF QueriesAgree
  <2> DEFINE n == Len(otx_entries)
  <2>1. /\ Scanned /\ TxLevelError = "none" /\ n \in Nat /\ Len(tx.witnesses) \in Nat
    BY DEF PlanIInv, ProgressInv, CheckedInv, IInv, TypeOK, Transaction
  <2>2. ~DuplicateSighashAll /\ (SighashAlls # {} => Parses(TxMessage))
    BY <2>1 DEF TxLevelError, MessageError
  <2>3. \A related \in related_actions :
          \E found \in FindAction(related.ref).actions : AddressesType(found.action)
    <3>1. SUFFICES ASSUME NEW related \in related_actions
                   PROVE  \E found \in FindAction(related.ref).actions : AddressesType(found.action)
      OBVIOUS
    <3>2. ASSUME NEW k \in 0..(n - 1), NEW a \in TypeActions(OtxViewAt(k).message), OtxNumber(k),
                 related.ref = OtxRef(otx_entries[k + 1], k, a - 1)
          PROVE  \E found \in FindAction(related.ref).actions : AddressesType(found.action)
      <4>1. /\ a \in 1..Len(OtxViewAt(k).message) /\ k \in Nat
            /\ OtxViewAt(k).message[a].role \in ScriptRole
            /\ AddressesType(OtxViewAt(k).message[a])
        BY <2>1 DEF TypeActions, AddressesType, ScriptRole
      <4>2. FindAction(related.ref) = Found({RelatedOtx(k, a)})
        BY <3>2, <4>1, FindOtx
      <4>3. RelatedOtx(k, a) \in FindAction(related.ref).actions
        BY <4>2 DEF Found
      <4>4. RelatedOtx(k, a).action = OtxViewAt(k).message[a]
        BY DEF RelatedOtx
      <4>5. QED
        BY <4>1, <4>3, <4>4
    <3>3. ASSUME SighashAlls # {}, NEW a \in TypeActions(TxMessage),
                 related.ref = TxRef(MessageIndex, a - 1)
          PROVE  \E found \in FindAction(related.ref).actions : AddressesType(found.action)
      <4>1. /\ a \in 1..Len(TxMessage) /\ TxMessage[a].role \in ScriptRole
            /\ AddressesType(TxMessage[a])
        BY DEF TypeActions, AddressesType, ScriptRole
      <4>2. FindAction(related.ref) = Found({RelatedTx(a)})
        BY <2>2, <3>3, <4>1, FindTx
      <4>3. RelatedTx(a) \in FindAction(related.ref).actions
        BY <4>2 DEF Found
      <4>4. RelatedTx(a).action = TxMessage[a]
        BY DEF RelatedTx
      <4>5. QED
        BY <4>1, <4>3, <4>4
    <3>4. QED
      BY <3>2, <3>3, PlannedRefs
  <2>4. ASSUME AllActions.error = "none"
        PROVE  /\ \A listed \in AllActions.actions : FindAction(listed.ref) = Found({listed})
               /\ \A w \in 0..Len(tx.witnesses), a \in 0..3, k \in 0..n :
                    \A ref \in {TxRef(w, a), OtxRef(w, k, a)} :
                      FindAction(ref).error = "none" =>
                        \E listed \in AllActions.actions : listed.ref = ref
               /\ {related.ref : related \in related_actions} =
                    {listed.ref : listed \in {l \in AllActions.actions : AddressesType(l.action)}}
    <3>1. /\ \A k \in 0..(n - 1) : OtxNumber(k) => Parses(OtxViewAt(k).message)
          /\ \A x : x \in AllActions.actions <=>
               \/ \E k \in 0..(n - 1) : \E a : ListedOtx(x, k, a)
               \/ \E a : ListedTx(x, a)
      BY <2>4, AllActionsFacts
    <3>2. ASSUME NEW listed \in AllActions.actions
          PROVE  FindAction(listed.ref) = Found({listed})
      <4>1. ASSUME NEW k \in 0..(n - 1), NEW a, ListedOtx(listed, k, a)
            PROVE  FindAction(listed.ref) = Found({listed})
        <5>1. /\ OtxNumber(k) /\ a \in 1..Len(OtxViewAt(k).message) /\ k \in Nat
              /\ listed = RelatedOtx(k, a)
          BY <2>1, <4>1 DEF ListedOtx
        <5>2. OtxViewAt(k).message[a].role \in ScriptRole
          BY <3>1, <5>1 DEF Parses
        <5>3. listed.ref = OtxRef(otx_entries[k + 1], k, a - 1)
          BY <5>1 DEF RelatedOtx
        <5>4. QED
          BY <5>1, <5>2, <5>3, FindOtx
      <4>2. ASSUME NEW a, ListedTx(listed, a)
            PROVE  FindAction(listed.ref) = Found({listed})
        <5>1. SighashAlls # {} /\ a \in 1..Len(TxMessage) /\ listed = RelatedTx(a)
          BY <4>2 DEF ListedTx
        <5>2. TxMessage[a].role \in ScriptRole
          BY <2>2, <5>1 DEF Parses
        <5>3. listed.ref = TxRef(MessageIndex, a - 1)
          BY <5>1 DEF RelatedTx
        <5>4. QED
          BY <2>2, <5>1, <5>2, <5>3, FindTx
      <4>3. QED
        BY <3>1, <4>1, <4>2
    <3>3. ASSUME NEW w \in 0..Len(tx.witnesses), NEW a \in 0..3, NEW k \in 0..n,
                 NEW ref \in {TxRef(w, a), OtxRef(w, k, a)}, FindAction(ref).error = "none"
          PROVE  \E listed \in AllActions.actions : listed.ref = ref
      <4>1. a \in Nat /\ k \in Nat
        BY <2>1
      <4>2. CASE ref = TxRef(w, a)
        <5>1. PICK b : ListedTx(RelatedTx(b), b) /\ RelatedTx(b).ref = ref
          BY <3>3, <4>1, <4>2, FoundAt
        <5>2. RelatedTx(b) \in AllActions.actions
          BY <3>1, <5>1
        <5>3. QED
          BY <5>1, <5>2
      <4>3. CASE ref = OtxRef(w, k, a)
        <5>1. PICK b : ListedOtx(RelatedOtx(k, b), k, b) /\ RelatedOtx(k, b).ref = ref
          BY <3>3, <4>1, <4>3, FoundAt
        <5>2. k \in 0..(n - 1)
          BY <2>1, <5>1 DEF ListedOtx, OtxNumber
        <5>3. RelatedOtx(k, b) \in AllActions.actions
          BY <3>1, <5>1, <5>2
        <5>4. QED
          BY <5>1, <5>3
      <4>4. QED
        BY <4>2, <4>3
    <3>4. {related.ref : related \in related_actions} =
            {listed.ref : listed \in {l \in AllActions.actions : AddressesType(l.action)}}
      <4> DEFINE Addressing == {l \in AllActions.actions : AddressesType(l.action)}
      <4>1. ASSUME NEW related \in related_actions
            PROVE  \E listed \in Addressing : listed.ref = related.ref
        <5>1. ASSUME NEW k \in 0..(n - 1), NEW a \in TypeActions(OtxViewAt(k).message), OtxNumber(k),
                     related.ref = OtxRef(otx_entries[k + 1], k, a - 1)
              PROVE  \E listed \in Addressing : listed.ref = related.ref
          <6>1. ListedOtx(RelatedOtx(k, a), k, a) /\ AddressesType(OtxViewAt(k).message[a])
            BY <5>1 DEF ListedOtx, TypeActions, AddressesType
          <6>2. RelatedOtx(k, a) \in AllActions.actions
            BY <3>1, <6>1
          <6>3. RelatedOtx(k, a).ref = related.ref /\ AddressesType(RelatedOtx(k, a).action)
            BY <5>1, <6>1 DEF RelatedOtx
          <6>4. QED
            BY <6>2, <6>3
        <5>2. ASSUME SighashAlls # {}, NEW a \in TypeActions(TxMessage),
                     related.ref = TxRef(MessageIndex, a - 1)
              PROVE  \E listed \in Addressing : listed.ref = related.ref
          <6>1. ListedTx(RelatedTx(a), a) /\ AddressesType(TxMessage[a])
            BY <5>2 DEF ListedTx, TypeActions, AddressesType
          <6>2. RelatedTx(a) \in AllActions.actions
            BY <3>1, <6>1
          <6>3. RelatedTx(a).ref = related.ref /\ AddressesType(RelatedTx(a).action)
            BY <5>2, <6>1 DEF RelatedTx
          <6>4. QED
            BY <6>2, <6>3
        <5>3. QED
          BY <5>1, <5>2, PlannedRefs
      <4>2. ASSUME NEW listed \in Addressing
            PROVE  \E related \in related_actions : related.ref = listed.ref
        <5>1. listed \in AllActions.actions /\ AddressesType(listed.action)
          OBVIOUS
        <5>2. ASSUME NEW k \in 0..(n - 1), NEW a, ListedOtx(listed, k, a)
              PROVE  \E related \in related_actions : related.ref = listed.ref
          <6>1. /\ OtxNumber(k) /\ a \in TypeActions(OtxViewAt(k).message)
                /\ listed.ref = OtxRef(otx_entries[k + 1], k, a - 1)
            BY <5>1, <5>2 DEF ListedOtx, RelatedOtx, TypeActions, AddressesType
          <6>2. \E j \in 0..(n - 1) : \E b \in TypeActions(OtxViewAt(j).message) :
                  OtxNumber(j) /\ listed.ref = OtxRef(otx_entries[j + 1], j, b - 1)
            BY <6>1
          <6>3. QED
            BY <6>2, PlannedRefs
        <5>3. ASSUME NEW a, ListedTx(listed, a)
              PROVE  \E related \in related_actions : related.ref = listed.ref
          <6>1. /\ SighashAlls # {} /\ a \in TypeActions(TxMessage)
                /\ listed.ref = TxRef(MessageIndex, a - 1)
            BY <5>1, <5>3 DEF ListedTx, RelatedTx, TypeActions, AddressesType
          <6>2. \E b \in TypeActions(TxMessage) : listed.ref = TxRef(MessageIndex, b - 1)
            BY <6>1
          <6>3. QED
            BY <6>1, <6>2, PlannedRefs
        <5>4. QED
          BY <3>1, <5>1, <5>2, <5>3
      <4> HIDE DEF Addressing
      <4>3. {related.ref : related \in related_actions} = {listed.ref : listed \in Addressing}
        BY <4>1, <4>2
      <4>4. QED
        BY <4>3 DEF Addressing
    <3>5. QED
      BY <3>2, <3>3, <3>4
  <2>5. QED
    BY <2>3, <2>4 DEF QueriesAgree
<1>2. QED
  BY <1>1, PlanInvariant, PTL
-----------------------------------------------------------------------------
(***************************************************************************)
(* The rules, and what the planner computes.                               *)
(***************************************************************************)
\* The type planner's rules of scopes and messages are those of every planner.
LEMMA TypeScopesAre ==
  ASSUME NEW t
  PROVE  /\ \A kind : TypePromise!At(t, kind) = Rules!At(t, kind)
         /\ TypePromise!FirstOtx(t) = Rules!FirstOtx(t)
         /\ TypePromise!OtxNumbers(t) = Rules!OtxNumbers(t)
         /\ \A k : TypePromise!ViewOf(t, k) = Rules!ViewOf(t, k)
         /\ TypePromise!Scopes(t) = Rules!Scopes(t)
         /\ \A scope, d : TypePromise!ScopeStart(t, scope, d) = Rules!ScopeStart(t, scope, d)
         /\ \A scope, d, i : TypePromise!Holds(t, scope, d, i) <=> Rules!Holds(t, scope, d, i)
         /\ \A d, i : TypePromise!Remains(t, d, i) <=> Rules!Remains(t, d, i)
<1>1. \A kind : TypePromise!At(t, kind) = Rules!At(t, kind)
  BY DEF TypePromise!At, TypePromise!Positions, Rules!At, Rules!Positions
<1>2. TypePromise!FirstOtx(t) = Rules!FirstOtx(t)
  BY DEF TypePromise!FirstOtx, Rules!FirstOtx, TypePromise!At, Rules!At,
         TypePromise!Positions, Rules!Positions
<1>3. TypePromise!OtxNumbers(t) = Rules!OtxNumbers(t)
  <2>1. \A S : TypePromise!Cardinality(S) = Rules!Cardinality(S)
    BY DEF TypePromise!Cardinality, Rules!Cardinality
  <2> QED
    BY <1>1, <2>1 DEF TypePromise!OtxNumbers, Rules!OtxNumbers
<1>4. \A k : TypePromise!ViewOf(t, k) = Rules!ViewOf(t, k)
  BY <1>2 DEF TypePromise!ViewOf, Rules!ViewOf
<1>5. TypePromise!Scopes(t) = Rules!Scopes(t)
  BY <1>3, <1>4 DEF TypePromise!Scopes, Rules!Scopes
<1>6. \A scope, d : TypePromise!ScopeStart(t, scope, d) = Rules!ScopeStart(t, scope, d)
  <2> SUFFICES ASSUME NEW scope, NEW d
               PROVE  TypePromise!ScopeStart(t, scope, d) = Rules!ScopeStart(t, scope, d)
    OBVIOUS
  <2> QED
    BY Zenon DEF TypePromise!ScopeStart, Rules!ScopeStart, TypePromise!ItemsIn, Rules!ItemsIn,
       TypePromise!Before, Rules!Before, TypePromise!Scopes, Rules!Scopes,
       TypePromise!ViewOf, Rules!ViewOf, TypePromise!OtxNumbers, Rules!OtxNumbers,
       TypePromise!Cardinality, Rules!Cardinality, TypePromise!FirstOtx, Rules!FirstOtx,
       TypePromise!At, Rules!At, TypePromise!Positions, Rules!Positions,
       TypePromise!MapThenSumSet, Rules!MapThenSumSet,
       TypePromise!MapThenFoldSet, Rules!MapThenFoldSet
<1>7. \A scope, d : TypePromise!ItemsIn(t, scope, d) = Rules!ItemsIn(t, scope, d)
  BY <1>4 DEF TypePromise!ItemsIn, Rules!ItemsIn
<1>8. \A scope, d, i : TypePromise!Holds(t, scope, d, i) <=> Rules!Holds(t, scope, d, i)
  BY <1>6, <1>7 DEF TypePromise!Holds, Rules!Holds
<1>9. \A d, i : TypePromise!Remains(t, d, i) <=> Rules!Remains(t, d, i)
  BY <1>1, <1>5, <1>8 DEF TypePromise!Remains, Rules!Remains
<1> QED
  BY <1>1, <1>2, <1>3, <1>4, <1>5, <1>6, <1>8, <1>9

LEMMA TypeMessagesAre ==
  ASSUME NEW t
  PROVE  /\ TypePromise!TxMessages(t) = Rules!TxMessages(t)
         /\ \A S : TypePromise!Cardinality(S) = Rules!Cardinality(S)
         /\ \A message : TypePromise!Legible(message) <=> Rules!Legible(message)
         /\ \A message : TypePromise!OnTarget(t, message) <=> Rules!OnTarget(t, message)
         /\ TypePromise!Verdict(t) = ScanPromise!Verdict(t)
<1>1. TypePromise!TxMessages(t) = Rules!TxMessages(t)
  BY TypeScopesAre DEF TypePromise!TxMessages, Rules!TxMessages
<1>2. \A S : TypePromise!Cardinality(S) = Rules!Cardinality(S)
  BY DEF TypePromise!Cardinality, Rules!Cardinality
<1>3. \A message : TypePromise!Legible(message) <=> Rules!Legible(message)
  BY DEF TypePromise!Legible, Rules!Legible, TypePromise!ActionsOf, Rules!ActionsOf
<1>4. \A message : TypePromise!OnTarget(t, message) <=> Rules!OnTarget(t, message)
  BY DEF TypePromise!OnTarget, Rules!OnTarget, TypePromise!ActionsOf, Rules!ActionsOf,
         TypePromise!KnownTargets, Rules!KnownTargets
<1>5. TypePromise!Verdict(t) = ScanPromise!Verdict(t)
  BY Zenon DEF TypePromise!Verdict, ScanPromise!Verdict, TypePromise!At, ScanPromise!At,
     TypePromise!Positions, ScanPromise!Positions, TypePromise!OneRun, ScanPromise!OneRun,
     TypePromise!Cardinality, ScanPromise!Cardinality, TypePromise!Views, ScanPromise!Views,
     TypePromise!WellFormed, ScanPromise!WellFormed, TypePromise!SegmentsOf, ScanPromise!SegmentsOf,
     TypePromise!Fits, ScanPromise!Fits, TypePromise!TakenByAll, ScanPromise!TakenByAll,
     TypePromise!Taken, ScanPromise!Taken, TypePromise!MapThenSumSet, ScanPromise!MapThenSumSet,
     TypePromise!MapThenFoldSet, ScanPromise!MapThenFoldSet, TypePromise!Dim, ScanPromise!Dim
<1> QED
  BY <1>1, <1>2, <1>3, <1>4, <1>5

\* context.rs: the cells of the type script.
LEMMA TypeCellsAre ==
  ASSUME NEW d \in {"inputs", "outputs"}
  PROVE  /\ TypePromise!Cells(tx, d, type_script) = TypeCells(d)
         /\ \A i \in TypeCells(d) : i \in Nat
         /\ d \in Dim
<1>1. TypePromise!Cells(tx, d, type_script) = TypeCells(d)
  BY DEF TypePromise!Cells, TypeCells, TypeInputs, TypeOutputs
<1>2. \A i \in TypeCells(d) : i \in Nat
  BY DEF TypeCells, TypeInputs, TypeOutputs
<1> QED
  BY <1>1, <1>2 DEF Dim

\* context.rs type_relation_for_otx: the relation of the rules.
LEMMA RelationIs ==
  ASSUME IInv, OrderInv, CursorSums, phase = "complete",
         NEW k \in 0..(Len(otx_entries) - 1)
  PROVE  /\ TypePromise!Relation(tx, k, type_script) = TypeRelation(k)
         /\ TypePromise!HasCellsIn(tx, k, type_script) <=> MentionsType(TypeRelation(k))
<1> DEFINE Lists == {"inputs", "outputs"}
           Touched(parts, d) == TypePromise!Touches(tx, k, parts, d, type_script)
<1>1. /\ TypePromise!ViewOf(tx, k) = OtxViewAt(k)
      /\ TypePromise!Bases = {0}
      /\ TypePromise!Appends(tx, k) = 1..SegmentCount(k)
      /\ SegmentCount(k) \in Nat
      /\ TypePromise!Scopes(tx) = Rules!Scopes(tx)
  BY RulesCollected, TypeScopesAre, PieceFacts
     DEF TypePromise!Bases, TypePromise!Appends, SegmentCount
<1>2. ASSUME NEW d \in Lists, NEW parts
      PROVE  Touched(parts, d) <=>
               \E scope \in Rules!Scopes(tx), i \in TypeCells(d) :
                 scope[1] = k /\ scope[2] \in parts /\ Rules!Holds(tx, scope, d, i)
  BY TypeCellsAre, TypeScopesAre DEF TypePromise!Touches
<1>3. ASSUME NEW d \in Lists
      PROVE  Touched({0}, d) <=> HasTypeIn(d, BaseSpan(k, d))
  <2>1. \A scope \in Rules!Scopes(tx) : scope[1] = k /\ scope[2] = 0 => scope = <<k, 0>>
    BY RulesScopes
  <2>2. /\ d \in Dim
        /\ <<k, 0>> \in Rules!Scopes(tx)
        /\ \A i : Rules!Holds(tx, <<k, 0>>, d, i) <=> InSpan(i, BaseSpan(k, d))
    BY TypeCellsAre, BaseScope
  <2>3. Touched({0}, d) <=> \E i \in TypeCells(d) : Rules!Holds(tx, <<k, 0>>, d, i)
    <3> HIDE DEF Touched
    <3> QED
      BY <1>2, <2>1, <2>2
  <2> QED
    BY <2>2, <2>3 DEF HasTypeIn
<1>4. ASSUME NEW d \in Lists
      PROVE  Touched(1..SegmentCount(k), d) <=> HasTypeIn(d, AppendSpan(k, d))
  <2>1. d \in Dim /\ \A i \in TypeCells(d) : i \in Int
    BY TypeCellsAre
  <2>2. \A i \in TypeCells(d) :
          (\E scope \in Rules!Scopes(tx) :
             scope[1] = k /\ scope[2] \in 1..SegmentCount(k) /\ Rules!Holds(tx, scope, d, i))
            <=> InSpan(i, AppendSpan(k, d))
    BY <2>1, AppendScopes
  <2> HIDE DEF Touched
  <2> QED
    BY <1>2, <2>2 DEF HasTypeIn
<1>5. ASSUME NEW d \in Lists
      PROVE  Touched({0} \cup 1..SegmentCount(k), d)
               <=> Touched({0}, d) \/ Touched(1..SegmentCount(k), d)
  <2> HIDE DEF Touched
  <2> QED
    BY <1>2
<1>6. (\E i \in TypePromise!Cells(tx, "outputs", type_script), n \in OtxViewAt(k).output_types_signed :
         /\ TypePromise!Holds(tx, <<k, 0>>, "outputs", i)
         /\ i = TypePromise!ScopeStart(tx, <<k, 0>>, "outputs") + n)
        <=> CoveredInBase(k)
  <2> DEFINE base == BaseSpan(k, "outputs")
             signed == OtxViewAt(k).output_types_signed
  <2>1. /\ TypePromise!Cells(tx, "outputs", type_script) = TypeCells("outputs")
        /\ TypeCells("outputs") = TypeOutputs
        /\ \A i \in TypeOutputs : i \in Nat
        /\ "outputs" \in Dim
    BY TypeCellsAre DEF TypeCells
  <2>2. /\ TypePromise!ScopeStart(tx, <<k, 0>>, "outputs") = base.start
        /\ base.start \in Nat
        /\ \A i : TypePromise!Holds(tx, <<k, 0>>, "outputs", i) <=> InSpan(i, base)
    BY <2>1, BaseScope, TypeScopesAre
  <2>3. signed \subseteq Nat
    BY CollectedViews DEF OtxView
  <2> HIDE DEF base, signed
  <2>4. (\E i \in TypeOutputs, n \in signed : InSpan(i, base) /\ i = base.start + n)
          <=> \E i \in TypeOutputs : InSpan(i, base) /\ i - base.start \in signed
    BY <2>1, <2>2, <2>3
  <2>5. CoveredInBase(k) <=> \E i \in TypeOutputs : InSpan(i, base) /\ i - base.start \in signed
    BY DEF CoveredInBase, base, signed
  <2> QED
    BY <2>1, <2>2, <2>4, <2>5 DEF signed
<1>7. TypePromise!Relation(tx, k, type_script) = TypeRelation(k)
  <2>1. /\ Touched({0}, "inputs") = HasTypeIn("inputs", BaseSpan(k, "inputs"))
        /\ Touched(1..SegmentCount(k), "inputs") = HasTypeIn("inputs", AppendSpan(k, "inputs"))
        /\ Touched({0}, "outputs") = HasTypeIn("outputs", BaseSpan(k, "outputs"))
        /\ Touched(1..SegmentCount(k), "outputs") = HasTypeIn("outputs", AppendSpan(k, "outputs"))
    BY <1>3, <1>4 DEF TypePromise!Touches, HasTypeIn
  <2> QED
    BY <1>1, <1>6, <2>1 DEF TypePromise!Relation, TypeRelation, CoveredInBase
<1>8. TypePromise!HasCellsIn(tx, k, type_script) <=> MentionsType(TypeRelation(k))
  <2>1. TypePromise!HasCellsIn(tx, k, type_script)
          <=> \E d \in Lists : Touched({0} \cup 1..SegmentCount(k), d)
    BY <1>1 DEF TypePromise!HasCellsIn, TypePromise!Lists
  <2>2. \A d \in Lists : Touched({0} \cup 1..SegmentCount(k), d)
          <=> HasTypeIn(d, BaseSpan(k, d)) \/ HasTypeIn(d, AppendSpan(k, d))
    <3> HIDE DEF Touched
    <3> QED
      BY <1>3, <1>4, <1>5
  <2> HIDE DEF Touched
  <2> QED
    BY <2>1, <2>2 DEF MentionsType, TypeRelation
<1> QED
  BY <1>7, <1>8

\* engine.rs type_actions_from_actions: the actions addressed to the type script.
LEMMA AddressesAre ==
  ASSUME NEW message
  PROVE  /\ TypePromise!Own(message, type_script) = TypeActions(message)
         /\ TypePromise!Addresses(message, TypePromise!TypeRoles, type_script)
              <=> TypeActions(message) # {}
<1>1. TypePromise!Own(message, type_script) = TypeActions(message)
  BY DEF TypePromise!Own, TypePromise!TypeRoles, TypeActions
<1>2. TypePromise!Addresses(message, TypePromise!TypeRoles, type_script)
        <=> TypeActions(message) # {}
  BY DEF TypePromise!Addresses, TypePromise!ActionsOf, TypePromise!TypeRoles, TypeActions
<1> QED
  BY <1>1, <1>2

\* engine.rs tx_level_scope_mentions_type: the cells of the type script in no OTX.
LEMMA OutsideIs ==
  ASSUME IInv, OrderInv, CursorSums, Scanned
  PROVE  TypePromise!HasCellsOutside(tx, type_script) <=> TxLevelMentionsType
<1>1. ASSUME NEW d \in {"inputs", "outputs"}, NEW i \in TypeCells(d)
      PROVE  TypePromise!Remains(tx, d, i) <=> (phase = "none" \/ ~InSpan(i, AggregateRange(d)))
  BY TypeCellsAre, TypeScopesAre, RemainsIsOutside
<1>2. \A d \in {"inputs", "outputs"} : TypePromise!Cells(tx, d, type_script) = TypeCells(d)
  BY TypeCellsAre
<1> QED
  BY <1>1, <1>2 DEF TypePromise!HasCellsOutside, TypePromise!Lists, TxLevelMentionsType

\* engine.rs add_otx_action: the rules find the fault the planner finds in the message of an OTX.
LEMMA OtxMessageIs ==
  ASSUME IInv, OrderInv, CursorSums, phase = "complete",
         NEW k \in 0..(Len(otx_entries) - 1)
  PROVE  LET message == TypePromise!ViewOf(tx, k).message IN
         TypePromise!MessageOk(tx, message,
           TypePromise!HasCellsIn(tx, k, type_script)
             \/ TypePromise!Addresses(message, TypePromise!TypeRoles, type_script))
           <=> OtxError(k) = "none"
<1> DEFINE message == OtxViewAt(k).message
<1>1. TypePromise!ViewOf(tx, k) = OtxViewAt(k)
  BY RulesCollected, TypeScopesAre
<1>2. message \in Message
  BY CollectedViews DEF OtxView
<1>3. TypePromise!HasCellsIn(tx, k, type_script) <=> MentionsType(TypeRelation(k))
  BY RelationIs
<1> HIDE DEF message
<1>4. /\ TypePromise!Legible(message) <=> Parses(message)
      /\ Parses(message) => (TypePromise!OnTarget(tx, message) <=> TargetsPresent(message))
  BY <1>2, RulesMessages, TypeMessagesAre
<1>5. TypePromise!Addresses(message, TypePromise!TypeRoles, type_script) <=> TypeActions(message) # {}
  BY AddressesAre
<1> QED
  BY <1>1, <1>3, <1>4, <1>5 DEF TypePromise!MessageOk, OtxError, MessageError, message

\* engine.rs add_tx_level_actions: and in the tx-level messages.
LEMMA TxMessagesIs ==
  ASSUME IInv, OrderInv, CursorSums, Scanned
  PROVE  (/\ TypePromise!Cardinality(TypePromise!At(tx, "sighash_all")) <= 1
          /\ \A message \in TypePromise!TxMessages(tx) :
               TypePromise!MessageOk(tx, message,
                 TypePromise!HasCellsOutside(tx, type_script)
                   \/ TypePromise!Addresses(message, TypePromise!TypeRoles, type_script)))
           <=> TxLevelError = "none"
<1> DEFINE Ok(message) ==
             TypePromise!MessageOk(tx, message,
               TypePromise!HasCellsOutside(tx, type_script)
                 \/ TypePromise!Addresses(message, TypePromise!TypeRoles, type_script))
<1>1. TypePromise!Cardinality(TypePromise!At(tx, "sighash_all")) <= 1 <=> ~DuplicateSighashAll
  BY RulesTxMessages, TypeScopesAre, TypeMessagesAre
<1>2. TypePromise!TxMessages(tx) = Rules!TxMessages(tx)
  BY TypeMessagesAre
<1>3. ASSUME NEW message \in Message
      PROVE  Ok(message) <=> MessageError(message, TxLevelMentionsType) = "none"
  <2>1. /\ TypePromise!Legible(message) <=> Parses(message)
        /\ Parses(message) => (TypePromise!OnTarget(tx, message) <=> TargetsPresent(message))
    BY RulesMessages, TypeMessagesAre
  <2> QED
    BY <2>1, OutsideIs, AddressesAre DEF TypePromise!MessageOk, MessageError
<1> HIDE DEF Ok
<1>4. CASE DuplicateSighashAll
  BY <1>1, <1>4 DEF TxLevelError
<1>5. CASE ~DuplicateSighashAll /\ SighashAlls = {}
  BY <1>1, <1>2, <1>5, RulesTxMessages DEF TxLevelError
<1>6. CASE ~DuplicateSighashAll /\ SighashAlls # {}
  <2>1. TxMessage \in Message
    BY <1>6, MessageFacts DEF IInv
  <2>2. Rules!TxMessages(tx) = {TxMessage}
    BY <1>6, RulesTxMessages
  <2>3. (\A message \in TypePromise!TxMessages(tx) : Ok(message))
          <=> MessageError(TxMessage, TxLevelMentionsType) = "none"
    BY <1>2, <1>3, <2>1, <2>2
  <2> QED
    BY <1>1, <1>6, <2>3 DEF TxLevelError, Ok
<1> QED
  BY <1>4, <1>5, <1>6

\* engine.rs plan_type_validation: the rules have a plan where neither the scan nor a
\* message fails.
LEMMA PlansIs ==
  ASSUME IInv, OrderInv, SumInv, phase \notin {"witnesses", "layout"}
  PROVE  TypePromise!Plans(tx, type_script)
           <=> /\ Scanned /\ TxLevelError = "none"
               /\ phase = "complete" => \A k \in 0..(Len(otx_entries) - 1) : OtxError(k) = "none"
<1>1. phase \in Phase /\ TypePromise!Verdict(tx) = phase
  BY TypeMessagesAre DEF SumInv, VerdictGiven, IInv, TypeOK
<1>2. Scanned <=> TypePromise!Verdict(tx) # "rejected"
  BY <1>1 DEF Scanned, Phase
<1>3. CASE ~Scanned
  BY <1>2, <1>3 DEF TypePromise!Plans
<1>4. CASE Scanned
  <2> DEFINE OtxOk(k) ==
               LET message == TypePromise!ViewOf(tx, k).message IN
               TypePromise!MessageOk(tx, message,
                 TypePromise!HasCellsIn(tx, k, type_script)
                   \/ TypePromise!Addresses(message, TypePromise!TypeRoles, type_script))
  <2>1. CursorSums
    BY DEF SumInv
  <2>2. TypePromise!Plans(tx, type_script)
          <=> /\ TxLevelError = "none"
              /\ TypePromise!At(tx, "otx") # {} => \A k \in TypePromise!OtxNumbers(tx) : OtxOk(k)
    BY <1>2, <1>4, <2>1, TxMessagesIs DEF TypePromise!Plans
  <2>3. CASE phase = "none"
    <3>1. TypePromise!At(tx, "otx") = {}
      BY <2>3, NoneCollected, SamePositions, PositionsAre, TypeScopesAre
    <3> QED
      BY <1>4, <2>2, <2>3, <3>1
  <2>4. CASE phase = "complete"
    <3>1. TypePromise!OtxNumbers(tx) = 0..(Len(otx_entries) - 1)
      BY <2>4, RulesCollected, TypeScopesAre
    <3>2. TypePromise!At(tx, "otx") # {}
      BY <2>4, SomeOtx, TypeScopesAre
    <3>3. \A k \in 0..(Len(otx_entries) - 1) : OtxOk(k) <=> OtxError(k) = "none"
      BY <2>1, <2>4, OtxMessageIs
    <3> HIDE DEF OtxOk
    <3> QED
      BY <1>4, <2>2, <2>4, <3>1, <3>2, <3>3
  <2> QED
    BY <1>4, <2>3, <2>4 DEF Scanned
<1> QED
  BY <1>3, <1>4
-----------------------------------------------------------------------------
(***************************************************************************)
(* TypePlan implements TypeRules.                                          *)
(***************************************************************************)
\* engine.rs add_otx_action: what the message of an OTX relates.
LEMMA OtxRelatedIs ==
  ASSUME IInv, OrderInv, CursorSums, phase = "complete",
         NEW k \in 0..(Len(otx_entries) - 1)
  PROVE  TypePromise!OtxRelations(tx, k, type_script) = OtxRelated(k)
<1>1. /\ TypePromise!ViewOf(tx, k) = OtxViewAt(k)
      /\ TypePromise!FirstOtx(tx) + k = otx_entries[k + 1]
  BY RulesCollected, TypeScopesAre
<1>2. TypePromise!Own(OtxViewAt(k).message, type_script) = TypeActions(OtxViewAt(k).message)
  BY AddressesAre
<1>3. (IF TypePromise!HasCellsIn(tx, k, type_script)
         THEN {TypePromise!Relation(tx, k, type_script)} ELSE {}) = OtxScope(TypeRelation(k))
  BY RelationIs DEF OtxScope
<1> QED
  BY <1>1, <1>2, <1>3 DEF TypePromise!OtxRelations, OtxRelated, Related, OtxRef

\* engine.rs add_tx_level_actions: what the tx-level message relates.
LEMMA TxRelatedIs ==
  ASSUME IInv, Scanned, ~DuplicateSighashAll
  PROVE  UNION {TypePromise!TxRelations(tx, w, type_script) : w \in TypePromise!At(tx, "sighash_all")}
           = IF SighashAlls = {} THEN {} ELSE TxRelated
<1>1. TypePromise!At(tx, "sighash_all") = SighashAlls
  BY RulesTxMessages, TypeScopesAre
<1>2. CASE SighashAlls = {}
  BY <1>1, <1>2
<1>3. CASE SighashAlls # {}
  <2>1. SighashAlls = {MessageIndex} /\ tx.witnesses[MessageIndex + 1].message = TxMessage
    BY <1>3, RulesTxMessages
  <2>2. TypePromise!TxRelations(tx, MessageIndex, type_script) = TxRelated
    BY <2>1, AddressesAre DEF TypePromise!TxRelations, TxRelated, Related, TxRef
  <2> QED
    BY <1>1, <1>3, <2>1, <2>2
<1> QED
  BY <1>2, <1>3

\* engine.rs build: a finished plan relates what the rules relate.
LEMMA RelationsAre ==
  ASSUME PlanIInv, SumInv, stage = "tx_level", ~DuplicateSighashAll
  PROVE  TypePromise!Relations(tx, type_script)
           = related_actions \cup (IF SighashAlls = {} THEN {} ELSE TxRelated)
<1>1. /\ IInv /\ OrderInv /\ CursorSums /\ Scanned
      /\ phase = "complete" => otx_index = Len(otx_entries)
      /\ \A related \in related_actions :
           \E k \in 0..(otx_index - 1) : phase = "complete" /\ related \in OtxRelated(k)
      /\ phase = "complete" => \A k \in 0..(otx_index - 1) : OtxRelated(k) \subseteq related_actions
  BY DEF PlanIInv, SumInv, ProgressInv, RelatedInv
<1>2. UNION {TypePromise!TxRelations(tx, w, type_script) : w \in TypePromise!At(tx, "sighash_all")}
        = IF SighashAlls = {} THEN {} ELSE TxRelated
  BY <1>1, TxRelatedIs
<1>3. (IF TypePromise!At(tx, "otx") = {} THEN {}
       ELSE UNION {TypePromise!OtxRelations(tx, k, type_script) : k \in TypePromise!OtxNumbers(tx)})
        = related_actions
  <2>1. CASE phase = "none"
    <3>1. TypePromise!At(tx, "otx") = {}
      BY <1>1, <2>1, NoneCollected, SamePositions, PositionsAre, TypeScopesAre
    <3>2. related_actions = {}
      BY <1>1, <2>1
    <3> QED
      BY <3>1, <3>2
  <2>2. CASE phase = "complete"
    <3>1. /\ TypePromise!OtxNumbers(tx) = 0..(Len(otx_entries) - 1)
          /\ TypePromise!At(tx, "otx") # {}
      BY <1>1, <2>2, RulesCollected, SomeOtx, TypeScopesAre
    <3>2. \A k \in 0..(Len(otx_entries) - 1) :
            TypePromise!OtxRelations(tx, k, type_script) = OtxRelated(k)
      BY <1>1, <2>2, OtxRelatedIs
    <3>3. UNION {OtxRelated(k) : k \in 0..(Len(otx_entries) - 1)} = related_actions
      BY <1>1, <2>2
    <3> QED
      BY <3>1, <3>2, <3>3
  <2> QED
    BY <1>1, <2>1, <2>2 DEF Scanned
<1> QED
  BY <1>2, <1>3 DEF TypePromise!Relations

\* The planner's steps leave the scan's variables alone or are steps of the scan.
LEMMA PlanScans == PlanSpec => Spec
<1>1. PlanInit => Init
  BY DEF PlanInit
<1>2. [PlanNext]_vars => [Next]_scanVars
  BY DEF PlanNext, ScanStep, BeginPlan, AddOtxAction, AllOtxAdded, AddTxLevelActions, vars
<1> QED
  BY <1>1, <1>2, PTL DEF PlanSpec, Spec

Answered == IF stage \in {"planned", "rejected"} THEN stage ELSE "pending"
Given == IF stage = "planned" THEN related_actions ELSE {}

\* engine.rs build: the steps by which the planner answers are the rules' one step.
LEMMA PlanStepAnswers ==
  ASSUME PlanIInv, SumInv, PlanNext
  PROVE  TypePromise!Answer \/ UNCHANGED <<tx, Answered, type_script, Given>>
<1> DEFINE Refused == /\ stage \notin {"planned", "rejected"} /\ stage' = "rejected"
                      /\ ~TypePromise!Plans(tx, type_script)
                      /\ UNCHANGED <<tx, type_script>>
           Going == /\ stage \notin {"planned", "rejected"} /\ stage' \notin {"planned", "rejected"}
                    /\ UNCHANGED <<tx, type_script>>
<1>1. Refused => TypePromise!Answer
  BY DEF TypePromise!Answer
<1>2. Going => UNCHANGED <<tx, Answered, type_script, Given>>
  BY DEF Answered, Given
<1>3. stage \notin {"scan", "rejected"} => Scanned
  BY DEF PlanIInv, ProgressInv
<1>4. CASE ScanStep
  BY <1>2, <1>4, TxKept DEF ScanStep, planVars
<1>5. CASE BeginPlan
  <2>1. stage = "scan" /\ UNCHANGED <<tx, type_script>>
    BY <1>5 DEF BeginPlan, scanVars
  <2>2. CASE stage' = "otx"
    BY <1>2, <2>1, <2>2
  <2>3. CASE phase = "rejected" /\ stage' = "rejected"
    <3>1. ~TypePromise!Plans(tx, type_script)
      BY <2>3, PlansIs DEF PlanIInv, Scanned
    <3> QED
      BY <1>1, <2>1, <2>3, <3>1
  <2> QED
    BY <1>5, <2>2, <2>3 DEF BeginPlan, PlanFails
<1>6. CASE AddOtxAction
  <2>1. /\ stage = "otx" /\ phase = "complete" /\ otx_index < Len(otx_entries)
        /\ UNCHANGED <<tx, type_script>>
    BY <1>6 DEF AddOtxAction, scanVars
  <2>2. CASE stage' = stage
    BY <1>2, <2>1, <2>2
  <2>3. CASE OtxError(otx_index) # "none" /\ stage' = "rejected"
    <3>1. otx_index \in 0..(Len(otx_entries) - 1)
      BY <2>1 DEF PlanIInv, PlanTypeOK, IInv, TypeOK
    <3>2. ~TypePromise!Plans(tx, type_script)
      BY <2>1, <2>3, <3>1, PlansIs DEF PlanIInv
    <3> QED
      BY <1>1, <2>1, <2>3, <3>2
  <2> QED
    BY <1>6, <2>2, <2>3 DEF AddOtxAction, PlanFails
<1>7. CASE AllOtxAdded
  BY <1>2, <1>7 DEF AllOtxAdded, scanVars
<1>8. CASE AddTxLevelActions
  <2>1. stage = "tx_level" /\ UNCHANGED <<tx, type_script>>
    BY <1>8 DEF AddTxLevelActions, scanVars
  <2>2. /\ IInv /\ OrderInv /\ Scanned /\ phase \notin {"witnesses", "layout"}
        /\ phase = "complete" => \A k \in 0..(Len(otx_entries) - 1) : OtxError(k) = "none"
    BY <1>3, <2>1 DEF PlanIInv, ProgressInv, CheckedInv, Scanned
  <2>3. TypePromise!Plans(tx, type_script) <=> TxLevelError = "none"
    BY <2>2, PlansIs
  <2>4. CASE TxLevelError # "none" /\ stage' = "rejected"
    BY <1>1, <2>1, <2>3, <2>4
  <2>5. CASE /\ TxLevelError = "none" /\ stage' = "planned"
             /\ related_actions' = related_actions \cup (IF SighashAlls = {} THEN {} ELSE TxRelated)
    <3>1. ~DuplicateSighashAll
      BY <2>5 DEF TxLevelError
    <3>2. related_actions' = TypePromise!Relations(tx, type_script)
      BY <2>1, <2>5, <3>1, RelationsAre
    <3> QED
      BY <2>1, <2>3, <2>5, <3>2 DEF TypePromise!Answer
  <2> QED
    BY <1>8, <2>4, <2>5 DEF AddTxLevelActions, PlanFails
<1> QED
  BY <1>4, <1>5, <1>6, <1>7, <1>8 DEF PlanNext

\* engine.rs plan_type_validation: the planner, with its scan, its loop over the OTX and its
\* ranges of pieces, refuses the transactions the rules refuse and relates the actions they
\* relate, each with the relation they give it.
THEOREM PlanKeepsPromise == PlanSpec => ImplementsTypeRules
<1>1. PlanInit => TypePromise!PlanInit
  <2> SUFFICES ASSUME PlanInit PROVE TypePromise!PlanInit
    OBVIOUS
  <2>1. type_script \in Script /\ stage = "scan"
    BY PlanInitInv DEF PlanIInv, PlanTypeOK, PlanInit, InitPlan
  <2>2. tx \in Transaction
    BY PlanInitInv DEF PlanIInv, IInv, TypeOK
  <2>3. TypePromise!Transaction = Transaction
    BY DEF TypePromise!Transaction, Transaction,
         TypePromise!Counts, Counts, TypePromise!Dim, Dim, TypePromise!TypeSlot, TypeSlot,
         TypePromise!Witness, Witness, TypePromise!OtxView, OtxView,
         TypePromise!SegmentView, SegmentView, TypePromise!LockSeal, LockSeal,
         TypePromise!Message, Message, TypePromise!Action, Action,
         TypePromise!ScriptRole, ScriptRole, TypePromise!PermissionByte, PermissionByte,
         TypePromise!FlagByte, FlagByte, TypePromise!SegmentFlag, SegmentFlag
  <2> QED
    BY <2>1, <2>2, <2>3 DEF TypePromise!PlanInit, TypePromise!Init
<1>2. ASSUME PlanIInv, SumInv, [PlanNext]_vars
      PROVE  [TypePromise!Answer]_<<tx, Answered, type_script, Given>>
  <2>1. CASE PlanNext
    BY <1>2, <2>1, PlanStepAnswers
  <2>2. CASE UNCHANGED vars
    BY <2>2 DEF vars, scanVars, planVars, Answered, Given
  <2> QED
    BY <1>2, <2>1, <2>2
<1>3. PlanIInv /\ SumInv /\ [PlanNext]_vars
        => [TypePromise!Answer]_<<tx, IF stage \in {"planned", "rejected"} THEN stage ELSE "pending",
                                  type_script, IF stage = "planned" THEN related_actions ELSE {}>>
  BY <1>2 DEF Answered, Given
<1> QED
  BY PlanInvariant, PlanScans, ScanSumInvariant, <1>1, <1>3, PTL
     DEF PlanSpec, ImplementsTypeRules, TypePromise!PlanSpec
=============================================================================
