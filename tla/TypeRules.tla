----------------------------- MODULE TypeRules -----------------------------
(***************************************************************************)
(* What the type planner promises, in one step: whether there is a plan    *)
(* for the type script, and which actions it relates, are functions of the *)
(* transaction.  TypePlan reaches them with a scan, a loop over the OTX    *)
(* and ranges of pieces.                                                   *)
(***************************************************************************)
EXTENDS OtxRules

VARIABLES type_script, related

Lists == {"inputs", "outputs"}
Cells(t, d, ty) ==
  LET slots == IF d = "inputs" THEN t.input_types ELSE t.output_types
  IN  {i \in 0..(Len(slots) - 1) : ty \in slots[i + 1]}

\* Some scope of OTX k with a number in `parts` holds a cell of the type script.
Touches(t, k, parts, d, ty) ==
  \E scope \in Scopes(t) : /\ scope[1] = k /\ scope[2] \in parts
                           /\ \E i \in Cells(t, d, ty) : Holds(t, scope, d, i)

Bases == {0}
Appends(t, k) == 1..Len(ViewOf(t, k).segments)

Relation(t, k, ty) ==
  [input_type_in_base |-> Touches(t, k, Bases, "inputs", ty),
   input_type_in_append |-> Touches(t, k, Appends(t, k), "inputs", ty),
   output_type_in_base |-> Touches(t, k, Bases, "outputs", ty),
   output_type_in_base_covered |->
     \E i \in Cells(t, "outputs", ty), n \in ViewOf(t, k).output_types_signed :
       Holds(t, <<k, 0>>, "outputs", i) /\ i = ScopeStart(t, <<k, 0>>, "outputs") + n,
   output_type_in_append |-> Touches(t, k, Appends(t, k), "outputs", ty)]

HasCellsIn(t, k, ty) ==
  \E d \in Lists : Touches(t, k, Bases \cup Appends(t, k), d, ty)
HasCellsOutside(t, ty) == \E d \in Lists : \E i \in Cells(t, d, ty) : Remains(t, d, i)

TypeRoles == {"input_type", "output_type"}
Own(message, ty) ==
  {a \in 1..Len(message) : message[a].role \in TypeRoles /\ message[a].target = ty}

Plans(t, ty) ==
  /\ Verdict(t) # "rejected"
  /\ Cardinality(At(t, "sighash_all")) <= 1
  /\ \A message \in TxMessages(t) :
       MessageOk(t, message, HasCellsOutside(t, ty) \/ Addresses(message, TypeRoles, ty))
  /\ At(t, "otx") # {} => \A k \in OtxNumbers(t) :
       LET message == ViewOf(t, k).message
       IN  MessageOk(t, message, HasCellsIn(t, k, ty) \/ Addresses(message, TypeRoles, ty))

OtxRelations(t, k, ty) ==
  {[ref |-> [origin |-> "otx", witness_index |-> FirstOtx(t) + k, otx_index |-> k,
             action_index |-> a - 1],
    otx_type_scope |-> IF HasCellsIn(t, k, ty) THEN {Relation(t, k, ty)} ELSE {}] :
     a \in Own(ViewOf(t, k).message, ty)}
TxRelations(t, w, ty) ==
  {[ref |-> [origin |-> "tx_level", witness_index |-> w, action_index |-> a - 1],
    otx_type_scope |-> {}] : a \in Own(t.witnesses[w + 1].message, ty)}
Relations(t, ty) ==
  (UNION {TxRelations(t, w, ty) : w \in At(t, "sighash_all")})
    \cup (IF At(t, "otx") = {} THEN {}
          ELSE UNION {OtxRelations(t, k, ty) : k \in OtxNumbers(t)})

PlanInit == Init /\ type_script \in Script /\ related = {}
Answer ==
  /\ verdict = "pending"
  /\ \/ Plans(tx, type_script) /\ verdict' = "planned" /\ related' = Relations(tx, type_script)
     \/ ~Plans(tx, type_script) /\ verdict' = "rejected" /\ UNCHANGED related
  /\ UNCHANGED <<tx, type_script>>

PlanSpec == PlanInit /\ [][Answer]_<<tx, verdict, type_script, related>>
=============================================================================
