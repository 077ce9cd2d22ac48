------------------------------ MODULE TypePlan ------------------------------
(***************************************************************************)
(* The planning of a type script: CobuildContext::build (OtxScan), then    *)
(* plan_type_validation (engine.rs, TypePlanBuilder::build), which gathers *)
(* the actions addressed to the type script with the place its cells have  *)
(* in the OTX each action comes from.                                      *)
(*                                                                         *)
(* The program is sequential.  One step is one stage of build, or one OTX  *)
(* of its loop.                                                            *)
(***************************************************************************)
EXTENDS ScriptContext

VARIABLES
  type_script,             \* TypePlanBuilder.type_script_hash
  stage,                   \* where the planner is
  plan_error,              \* the error it returns, or "none"
  related_actions,         \* TypePlanBuilder.related_actions
  otx_index                \* the OTX add_otx_actions is at

planVars == <<type_script, stage, plan_error, related_actions, otx_index>>
vars == <<scanVars, planVars>>

Stage == {"scan", "otx", "tx_level", "planned", "rejected"}
PlanError == {"none", "MalformedCobuild", "InvalidOtxLayout", "DuplicateSighashAll",
              "InvalidMessageTarget"}
-----------------------------------------------------------------------------
(***************************************************************************)
(* context.rs: the cells of the type script.                               *)
(***************************************************************************)
TypeInputs ==
  {i \in 0..(Len(tx.input_types) - 1) : type_script \in tx.input_types[i + 1]}
TypeOutputs ==
  {i \in 0..(Len(tx.output_types) - 1) : type_script \in tx.output_types[i + 1]}
TypeCells(d) == IF d = "inputs" THEN TypeInputs ELSE IF d = "outputs" THEN TypeOutputs ELSE {}
HasTypeIn(d, span) == \E i \in TypeCells(d) : InSpan(i, span)

\* covered_current_type_in_base_outputs
\* Fault: one output of the base with a signed type is enough, whatever its type.
CoveredInBase_AnyOutput(k) ==
  /\ HasTypeIn("outputs", BaseSpan(k, "outputs"))
  /\ OtxViewAt(k).output_types_signed # {}
CoveredInBase(k) ==
  LET base == BaseSpan(k, "outputs")
  IN  \E i \in TypeOutputs :
        InSpan(i, base) /\ i - base.start \in OtxViewAt(k).output_types_signed

\* plan.rs OtxTypeRelation and context.rs type_relation_for_otx
OtxTypeRelation ==
  [input_type_in_base : BOOLEAN, input_type_in_append : BOOLEAN,
   output_type_in_base : BOOLEAN, output_type_in_base_covered : BOOLEAN,
   output_type_in_append : BOOLEAN]
TypeRelation(k) ==
  [input_type_in_base |-> HasTypeIn("inputs", BaseSpan(k, "inputs")),
   input_type_in_append |-> HasTypeIn("inputs", AppendSpan(k, "inputs")),
   output_type_in_base |-> HasTypeIn("outputs", BaseSpan(k, "outputs")),
   output_type_in_base_covered |-> CoveredInBase(k),
   output_type_in_append |-> HasTypeIn("outputs", AppendSpan(k, "outputs"))]

\* Fault: cells in append segments are forgotten.
MentionsType_BaseOnly(relation) ==
  relation.input_type_in_base \/ relation.output_type_in_base
MentionsType(relation) ==
  \/ relation.input_type_in_base
  \/ relation.input_type_in_append
  \/ relation.output_type_in_base
  \/ relation.output_type_in_append

\* type_action_otx_scope: no element for TargetOnly, the relation for InOtxScope.
OtxScope(relation) == IF MentionsType(relation) THEN {relation} ELSE {}

\* type_actions_from_actions
TypeActions(message) ==
  {a \in 1..Len(message) : /\ message[a].role \in {"input_type", "output_type"}
                           /\ message[a].target = type_script}

Related(ref, scope) == [ref |-> ref, otx_type_scope |-> scope]

PlanFails(e) == stage' = "rejected" /\ plan_error' = e
-----------------------------------------------------------------------------
InitPlan ==
  /\ type_script \in Scripts("input_type") \cup Scripts("output_type")
  /\ stage = "scan"
  /\ plan_error = "none"
  /\ related_actions = {}
  /\ otx_index = 0

ScanStep == stage = "scan" /\ Next /\ UNCHANGED planVars

\* CobuildContext::build has returned.
BeginPlan ==
  /\ stage = "scan"
  /\ \/ Scanned /\ stage' = "otx" /\ UNCHANGED plan_error
     \/ phase = "rejected" /\ PlanFails(error)
  /\ UNCHANGED <<scanVars, type_script, related_actions, otx_index>>

(***************************************************************************)
(* A message that concerns the type script, by a cell or by an action,     *)
(* must name only scripts there are.                                       *)
(***************************************************************************)
MessageError(message, scope_related) ==
  IF \/ ~Parses(message)
     \/ (scope_related \/ TypeActions(message) # {}) /\ ~TargetsPresent(message)
    THEN "InvalidMessageTarget" ELSE "none"

\* Fault: action indices start at one below the first.
OtxRelated_OneLess(k) ==
  {Related(OtxRef(otx_entries[k + 1], k, a - 2), OtxScope(TypeRelation(k))) :
     a \in TypeActions(OtxViewAt(k).message)}
OtxRelated(k) ==
  {Related(OtxRef(otx_entries[k + 1], k, a - 1), OtxScope(TypeRelation(k))) :
     a \in TypeActions(OtxViewAt(k).message)}

OtxError(k) == MessageError(OtxViewAt(k).message, MentionsType(TypeRelation(k)))

\* add_otx_action, for one OTX of add_otx_actions' loop.
AddOtxAction ==
  /\ stage = "otx"
  /\ phase = "complete" /\ otx_index < Len(otx_entries)
  /\ \/ /\ OtxError(otx_index) # "none"
        /\ PlanFails(OtxError(otx_index))
        /\ UNCHANGED <<related_actions, otx_index>>
     \/ /\ OtxError(otx_index) = "none"
        /\ related_actions' = related_actions \cup OtxRelated(otx_index)
        /\ otx_index' = otx_index + 1
        /\ UNCHANGED <<stage, plan_error>>
  /\ UNCHANGED <<scanVars, type_script>>

AllOtxAdded ==
  /\ stage = "otx"
  /\ phase = "none" \/ otx_index = Len(otx_entries)
  /\ stage' = "tx_level"
  /\ UNCHANGED <<scanVars, type_script, plan_error, related_actions, otx_index>>

\* tx_level_scope_mentions_type
TxLevelMentionsType ==
  \E d \in {"inputs", "outputs"} : \E i \in TypeCells(d) :
    phase = "none" \/ ~InSpan(i, AggregateRange(d))

TxRelated ==
  {Related(TxRef(MessageIndex, a - 1), {}) : a \in TypeActions(TxMessage)}

TxLevelError ==
  IF DuplicateSighashAll THEN "DuplicateSighashAll"
  ELSE IF SighashAlls = {} THEN "none"
  ELSE MessageError(TxMessage, TxLevelMentionsType)

AddTxLevelActions ==
  /\ stage = "tx_level"
  /\ \/ /\ TxLevelError # "none"
        /\ PlanFails(TxLevelError)
        /\ UNCHANGED related_actions
     \/ /\ TxLevelError = "none"
        /\ stage' = "planned"
        /\ related_actions' =
             related_actions \cup (IF SighashAlls = {} THEN {} ELSE TxRelated)
        /\ UNCHANGED plan_error
  /\ UNCHANGED <<scanVars, type_script, otx_index>>

PlanNext == ScanStep \/ BeginPlan \/ AddOtxAction \/ AllOtxAdded \/ AddTxLevelActions

PlanInit == Init /\ InitPlan
PlanSpec == PlanInit /\ [][PlanNext]_vars
-----------------------------------------------------------------------------
(***************************************************************************)
(* Properties.                                                             *)
(***************************************************************************)
\* The values the planner's own variables range over.
PlanTypeOK ==
  /\ type_script \in Script
  /\ stage \in Stage
  /\ plan_error \in PlanError
  /\ related_actions \subseteq [ref : ActionRef, otx_type_scope : SUBSET OtxTypeRelation]
  /\ otx_index \in 0..Len(otx_entries)

\* engine.rs add_otx_action, add_tx_related_actions: when the plan is made, every
\* cell of the type script is under a checked message, if it is under one: the
\* message of the OTX whose base or append segment holds it, or the tx-level
\* message if none does, names only scripts the transaction has; and so does every
\* message that one of the related actions comes from.
MessagesChecked ==
  stage = "planned" =>
    /\ \A d \in {"inputs", "outputs"} : \A i \in TypeCells(d) :
         LET holders == {p \in 1..Len(pieces) : InSpan(i, pieces[p].span[d])}
         IN  /\ \A p \in holders : TargetsPresent(OtxViewAt(pieces[p].otx).message)
             /\ holders = {} => \A w \in SighashAlls : TargetsPresent(WitnessAt(w).message)
    /\ \A related \in related_actions :
         LET w == WitnessAt(related.ref.witness_index)
         IN  TargetsPresent(IF w.kind = "otx" THEN w.view.message ELSE w.message)

AddressesType(action) ==
  action.role \in {"input_type", "output_type"} /\ action.target = type_script

\* engine.rs find_action, all_actions: the queries and the plan agree.  Each related
\* action can be found by its reference and addresses the type script; what
\* all_actions lists is what find_action finds, reference by reference; and the plan
\* relates exactly the listed actions that address the type script.
QueriesAgree ==
  stage = "planned" =>
    /\ \A related \in related_actions :
         \E found \in FindAction(related.ref).actions : AddressesType(found.action)
    /\ AllActions.error = "none" =>
         /\ \A listed \in AllActions.actions : FindAction(listed.ref) = Found({listed})
         /\ \A w \in 0..Len(tx.witnesses), a \in 0..3, k \in 0..Len(otx_entries) :
              \A ref \in {TxRef(w, a), OtxRef(w, k, a)} :
                FindAction(ref).error = "none" =>
                  \E listed \in AllActions.actions : listed.ref = ref
         /\ {related.ref : related \in related_actions} =
              {listed.ref : listed \in {l \in AllActions.actions : AddressesType(l.action)}}

\* plan.rs ActionRef::cmp: sorted by reference, related actions are in the order of
\* the witnesses they come from, then of their places in the message, and no two of
\* them have one reference.
CanonicalOrder ==
  stage = "planned" =>
    \A one, other \in related_actions : one # other =>
      LET r == one.ref
          q == other.ref
      IN  /\ r # q
          /\ SortsBefore(r, q) <=>
               \/ r.witness_index < q.witness_index
               \/ r.witness_index = q.witness_index /\ r.action_index < q.action_index
-----------------------------------------------------------------------------
(***************************************************************************)
(* TypePlan implements TypeRules.                                          *)
(***************************************************************************)
TypePromise == INSTANCE TypeRules
  WITH verdict <- IF stage \in {"planned", "rejected"} THEN stage ELSE "pending",
       related <- IF stage = "planned" THEN related_actions ELSE {}

\* engine.rs plan_type_validation: the planner answers as the rules do, on every
\* transaction: the same refusals, the same actions, each with the same relation of
\* the type script's cells to the OTX it comes from.
ImplementsTypeRules == TypePromise!PlanSpec
=============================================================================
