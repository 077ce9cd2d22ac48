----------------------------- MODULE ChainCells -----------------------------
(***************************************************************************)
(* Cells, and transactions that spend some and create others: what the     *)
(* contracts of tests/contracts read through ckb_std, and what Cobuild     *)
(* reads of the same transaction.                                          *)
(*                                                                         *)
(* A script is a code and its args, and stands for its own hash: scripts   *)
(* with different code or args have different hashes.                      *)
(***************************************************************************)
EXTENDS CobuildTx, FiniteSetsExt

\* A cell is [lock, type, data]; `type` is the set of its type script, which
\* may be missing.  A transaction is [inputs, outputs, witnesses].
ScriptOf(code, args) == <<code, args>>
Code(script) == script[1]
Args(script) == script[2]
Typed(lock, script, data) == [lock |-> lock, type |-> {script}, data |-> data]
Plain(lock) == [lock |-> lock, type |-> {}, data |-> [is |-> "none"]]

IsList(s) == Len(s) \in Nat /\ DOMAIN s = 1..Len(s)

Locks(list) == {list[i].lock : i \in DOMAIN list}
Types(list) == UNION {list[i].type : i \in DOMAIN list}

\* The cells a script runs for: Source::GroupInput and Source::GroupOutput of a
\* type script, Source::GroupInput of a lock.
TypeGroup(list, script) == {i \in DOMAIN list : script \in list[i].type}
CellIn(list, script) == list[CHOOSE i \in TypeGroup(list, script) : TRUE]
LockGroup(list, script) == {i \in DOMAIN list : list[i].lock = script}

CobuildOf(t) ==
  [counts |-> [d \in Dim |-> CASE d = "inputs" -> Len(t.inputs)
                               [] d = "outputs" -> Len(t.outputs)
                               [] OTHER -> 0],
   witnesses |-> t.witnesses,
   input_locks |-> [i \in DOMAIN t.inputs |-> t.inputs[i].lock],
   input_types |-> [i \in DOMAIN t.inputs |-> t.inputs[i].type],
   output_types |-> [i \in DOMAIN t.outputs |-> t.outputs[i].type]]

\* What plan_lock_validation and plan_type_validation answer.
LockPlans == INSTANCE LockRules WITH tx <- {}, verdict <- {}, lock <- {}, related <- {}
TypePlans == INSTANCE TypeRules WITH tx <- {}, verdict <- {}, type_script <- {}, related <- {}

MessageOf(t, ref) ==
  IF ref.origin = "otx" THEN t.witnesses[ref.witness_index + 1].view.message
                        ELSE t.witnesses[ref.witness_index + 1].message
ActionAt(t, ref) == MessageOf(t, ref)[ref.action_index + 1]

\* The outputs of OTX k, from the first of its base to the last it appended.
OtxOutputs(t, k) ==
  LET c == CobuildOf(t)
  IN  {i \in 1..Len(t.outputs) :
         \E scope \in TypePlans!Scopes(c) :
           scope[1] = k /\ TypePlans!Holds(c, scope, "outputs", i - 1)}

\* How many cells of the type script the transaction spends and creates.
Shape(t, script) ==
  <<Cardinality(TypeGroup(t.inputs, script)), Cardinality(TypeGroup(t.outputs, script))>>

\* ckb_std's check_type_id: at most one cell on either side; a cell that is new
\* has args no cell before it had.  The contracts call it with the cargo feature
\* type-id, which their Makefiles set.
CheckTypeId(t, script, taken) ==
  LET ins == TypeGroup(t.inputs, script)
      outs == TypeGroup(t.outputs, script)
  IN  /\ Cardinality(ins) <= 1 /\ Cardinality(outs) <= 1
      /\ ins = {} => script \notin taken
=============================================================================
