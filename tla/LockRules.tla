----------------------------- MODULE LockRules -----------------------------
(***************************************************************************)
(* What the OTX lock promises, in two steps: whether the lock group of     *)
(* `lock` has a plan, and which actions the plan relates, are functions of *)
(* the transaction alone; and so is whether the plan's signatures are      *)
(* those of the lock.  LockPlan reaches both with a scan, a plan and a     *)
(* loop over the signatures it asks for.                                   *)
(***************************************************************************)
EXTENDS OtxRules

VARIABLES lock, related

Group(t, l) == {i \in 0..(Len(t.input_locks) - 1) : t.input_locks[i + 1] = l}
HasLayout(t) == \E kind \in {"sighash_all", "sighash_all_only", "otx"} : At(t, kind) # {}

\* The inputs that lie in no OTX are signed for as in a transaction without OTX.
TxLevelInputs(t, l) ==
  {i \in Group(t, l) : Remains(t, "inputs", i)}
SignedAtTxLevel(t, l) == HasLayout(t) /\ TxLevelInputs(t, l) # {}

SealsOf(t, scope) ==
  IF scope[2] = 0 THEN ViewOf(t, scope[1]).base_seals
                  ELSE ViewOf(t, scope[1]).segments[scope[2]].seals
OwnSeals(t, l, scope) ==
  {j \in 1..Len(SealsOf(t, scope)) : SealsOf(t, scope)[j].script_hash = l}

OtxScopes(t) == IF At(t, "otx") = {} THEN {} ELSE Scopes(t)
Spending(t, l) ==
  {scope \in OtxScopes(t) : \E i \in Group(t, l) : Holds(t, scope, "inputs", i)}

(***************************************************************************)
(* The plan.                                                               *)
(***************************************************************************)
\* The witness at the group's first input carries the seal, and no other input of
\* the group has a witness of its own.
Carrier(t, l) == CHOOSE i \in Group(t, l) : \A j \in Group(t, l) : i <= j
GroupWitnesses(t, l) ==
  /\ Carrier(t, l) \in At(t, "sighash_all") \cup At(t, "sighash_all_only")
  /\ \A i \in Group(t, l) \ {Carrier(t, l)} : i \in Positions(t) => i \in At(t, "empty")

OtxMessageOk(t, l, k) ==
  LET message == ViewOf(t, k).message
      spends == \E scope \in Spending(t, l) : scope[1] = k
  IN  MessageOk(t, message, spends \/ Addresses(message, {"input_lock"}, l))

\* A scope with an input of the group has one seal of the lock.
Plans(t, l) ==
  /\ Verdict(t) # "rejected"
  /\ Cardinality(At(t, "sighash_all")) <= 1
  /\ \A message \in TxMessages(t) :
       MessageOk(t, message, SignedAtTxLevel(t, l) \/ Addresses(message, {"input_lock"}, l))
  /\ SignedAtTxLevel(t, l) => GroupWitnesses(t, l)
  /\ At(t, "otx") # {} => \A k \in OtxNumbers(t) : OtxMessageOk(t, l, k)
  /\ \A scope \in Spending(t, l) : Cardinality(OwnSeals(t, l, scope)) = 1

Own(message, l) ==
  {a \in 1..Len(message) : message[a].role = "input_lock" /\ message[a].target = l}
TxRelated(t, l, w) ==
  {[origin |-> "tx_level", witness_index |-> w, action_index |-> a - 1] :
     a \in Own(t.witnesses[w + 1].message, l)}
OtxRelated(t, l, w) ==
  {[origin |-> "otx", witness_index |-> w, otx_index |-> w - FirstOtx(t), action_index |-> a - 1] :
     a \in Own(t.witnesses[w + 1].view.message, l)}
Related(t, l) ==
  (UNION {TxRelated(t, l, w) : w \in At(t, "sighash_all")})
    \cup (UNION {OtxRelated(t, l, w) : w \in At(t, "otx")})

(***************************************************************************)
(* The signatures.                                                         *)
(***************************************************************************)
Signs(seal, l, content) == seal.signer = l /\ seal.over = content

TxContents(t) ==
  IF TxMessages(t) = {} THEN {[domain |-> "ckbcb_tnm_core1"]}
                        ELSE {[domain |-> "ckbcb_twm_core1", message |-> m] : m \in TxMessages(t)}
ContentOf(t, scope) ==
  LET view == ViewOf(t, scope[1])
  IN  IF scope[2] = 0 THEN OtxBaseHash(view) ELSE OtxAppendSegmentHash(view, scope[2])

\* Something is asked for, and what is asked for is there.
Signed(t, l) ==
  /\ SignedAtTxLevel(t, l) \/ Spending(t, l) # {}
  /\ SignedAtTxLevel(t, l) =>
       \A content \in TxContents(t) : Signs(t.witnesses[Carrier(t, l) + 1].seal, l, content)
  /\ \A scope \in Spending(t, l) : \A j \in OwnSeals(t, l, scope) :
       Signs(SealsOf(t, scope)[j].seal, l, ContentOf(t, scope))

LockInit == Init /\ lock \in Script /\ related = {}
Plan ==
  /\ verdict = "pending"
  /\ \/ Plans(tx, lock) /\ verdict' = "planned" /\ related' = Related(tx, lock)
     \/ ~Plans(tx, lock) /\ verdict' = "rejected" /\ UNCHANGED related
  /\ UNCHANGED <<tx, lock>>
Verify ==
  /\ verdict = "planned"
  /\ verdict' = IF Signed(tx, lock) THEN "accepted" ELSE "rejected"
  /\ UNCHANGED <<tx, lock, related>>

LockSpec == LockInit /\ [][Plan \/ Verify]_<<tx, verdict, lock, related>>
=============================================================================
