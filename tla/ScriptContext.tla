--------------------------- MODULE ScriptContext ---------------------------
(***************************************************************************)
(* What CobuildContext hands to a script once build has returned: the      *)
(* scripts of the transaction (context.rs), the tx-level message           *)
(* (witness.rs), and the queries for the actions of its messages           *)
(* (engine.rs).  All are reads of the state OtxScan ends in.               *)
(***************************************************************************)
EXTENDS OtxScan

(***************************************************************************)
(* context.rs: the scripts a message may name.                             *)
(***************************************************************************)
Scripts(role) ==
  CASE role = "input_lock" -> {tx.input_locks[i] : i \in 1..Len(tx.input_locks)}
    [] role = "input_type" -> UNION {tx.input_types[i] : i \in 1..Len(tx.input_types)}
    [] role = "output_type" -> UNION {tx.output_types[i] : i \in 1..Len(tx.output_types)}
    [] OTHER -> {}

Parses(message) == \A a \in 1..Len(message) : message[a].role \in ScriptRole
TargetsPresent(message) ==
  \A a \in 1..Len(message) : message[a].target \in Scripts(message[a].role)

(***************************************************************************)
(* witness.rs: summaries by witness index.                                 *)
(***************************************************************************)
SummaryKind(i) == IF i < Len(summaries) THEN summaries[i + 1].kind ELSE "absent"
SighashAlls == {i \in 0..(Len(summaries) - 1) : SummaryKind(i) = "sighash_all"}
DuplicateSighashAll == \E i, j \in SighashAlls : i # j
MessageIndex == CHOOSE i \in SighashAlls : TRUE
TxMessage == summaries[MessageIndex + 1].message

(***************************************************************************)
(* plan.rs: ActionRef, the place of an action, and its total order.        *)
(***************************************************************************)
TxRef(w, a) == [origin |-> "tx_level", witness_index |-> w, action_index |-> a]
OtxRef(w, k, a) ==
  [origin |-> "otx", witness_index |-> w, otx_index |-> k, action_index |-> a]
ActionRef ==
  [origin : {"tx_level"}, witness_index : Nat, action_index : Nat]
    \cup [origin : {"otx"}, witness_index : Nat, otx_index : Nat, action_index : Nat]

\* Fault: the action index decides before the OTX and the witness do.
SortKey_ActionFirst(ref) ==
  IF ref.origin = "tx_level"
    THEN <<ref.action_index, 0, 0, ref.witness_index>>
    ELSE <<ref.action_index, 1, ref.otx_index, ref.witness_index>>
SortKey(ref) ==
  IF ref.origin = "tx_level"
    THEN <<ref.witness_index, 0, 0, ref.action_index>>
    ELSE <<ref.witness_index, 1, ref.otx_index, ref.action_index>>
SortsBefore(ref, other) ==
  \E n \in 1..4 : /\ SortKey(ref)[n] < SortKey(other)[n]
                  /\ \A m \in 1..(n - 1) : SortKey(ref)[m] = SortKey(other)[m]

(***************************************************************************)
(* engine.rs: otx_actions, tx_level_actions, all_actions, find_action.     *)
(* Each returns an error or what it found; a related action is its         *)
(* reference with what stands there.                                       *)
(***************************************************************************)
Failed(e) == [error |-> e, actions |-> {}]
Found(actions) == [error |-> "none", actions |-> actions]
CheckedMessage(message, actions) ==
  IF Parses(message) /\ TargetsPresent(message)
    THEN Found(actions) ELSE Failed("InvalidMessageTarget")

OtxNumber(k) == phase = "complete" /\ k < Len(otx_entries)
RelatedOtx(k, a) ==
  [ref |-> OtxRef(otx_entries[k + 1], k, a - 1), action |-> OtxViewAt(k).message[a]]
RelatedTx(a) == [ref |-> TxRef(MessageIndex, a - 1), action |-> TxMessage[a]]

OtxActions(k) ==
  IF ~OtxNumber(k) THEN Failed("InvalidOtxLayout")
  ELSE LET message == OtxViewAt(k).message
       IN  CheckedMessage(message, {RelatedOtx(k, a) : a \in 1..Len(message)})

TxLevelActions ==
  IF DuplicateSighashAll THEN Failed("DuplicateSighashAll")
  ELSE IF SighashAlls = {} THEN Found({})
  ELSE CheckedMessage(TxMessage, {RelatedTx(a) : a \in 1..Len(TxMessage)})

AllActions ==
  LET answers == {TxLevelActions}
                   \cup {OtxActions(k) : k \in {n \in 0..(Len(otx_entries) - 1) : OtxNumber(n)}}
  IN  IF TxLevelActions.error # "none" THEN TxLevelActions
      ELSE IF \E answer \in answers : answer.error # "none" THEN Failed("InvalidMessageTarget")
      ELSE Found(UNION {answer.actions : answer \in answers})

\* message_action: the action at a reference, which alone has to parse.
MessageAction(message, a, related) ==
  IF a \notin 1..Len(message) THEN Failed("ActionNotFound")
  ELSE IF message[a].role \notin ScriptRole THEN Failed("InvalidMessageTarget")
  ELSE Found({related})

\* Fault: an OTX is found by its number alone.
FindAction_AnyWitness(ref) ==
  IF ref.origin = "tx_level" THEN
    IF DuplicateSighashAll THEN Failed("DuplicateSighashAll")
    ELSE IF SighashAlls = {} THEN Failed("ActionNotFound")
    ELSE MessageAction(TxMessage, ref.action_index + 1, RelatedTx(ref.action_index + 1))
  ELSE
    IF ~OtxNumber(ref.otx_index) THEN Failed("ActionNotFound")
    ELSE MessageAction(OtxViewAt(ref.otx_index).message, ref.action_index + 1,
                       RelatedOtx(ref.otx_index, ref.action_index + 1))
FindAction(ref) ==
  IF ref.origin = "tx_level" THEN
    IF DuplicateSighashAll THEN Failed("DuplicateSighashAll")
    ELSE IF SighashAlls = {} \/ MessageIndex # ref.witness_index THEN Failed("ActionNotFound")
    ELSE MessageAction(TxMessage, ref.action_index + 1, RelatedTx(ref.action_index + 1))
  ELSE
    IF ~(OtxNumber(ref.otx_index) /\ otx_entries[ref.otx_index + 1] = ref.witness_index)
      THEN Failed("ActionNotFound")
    ELSE MessageAction(OtxViewAt(ref.otx_index).message, ref.action_index + 1,
                       RelatedOtx(ref.otx_index, ref.action_index + 1))
=============================================================================
