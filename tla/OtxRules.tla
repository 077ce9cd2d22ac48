------------------------------ MODULE OtxRules ------------------------------
(***************************************************************************)
(* The scopes of a transaction's OTX and the reach of its messages, by     *)
(* sums and sets over the transaction, for the rules that say what the     *)
(* planners promise.                                                       *)
(*                                                                         *)
(* An OTX is named by its number k in witness order, a scope by <<k, s>>:  *)
(* s = 0 is the base of OTX k, s > 0 its append segment s - 1.             *)
(***************************************************************************)
EXTENDS ScanRules

FirstOtx(t) == (CHOOSE i \in At(t, "otx_start") : TRUE) + 1
OtxNumbers(t) == 0..(Cardinality(At(t, "otx")) - 1)
ViewOf(t, k) == t.witnesses[FirstOtx(t) + k + 1].view
Scopes(t) == UNION {{<<k, s>> : s \in 0..Len(ViewOf(t, k).segments)} : k \in OtxNumbers(t)}
ItemsIn(t, scope, d) ==
  LET view == ViewOf(t, scope[1])
  IN  IF scope[2] = 0 THEN view.base[d] ELSE view.segments[scope[2]].counts[d]

\* The items of a scope begin where those of all the scopes before it end.
Before(t, scope) ==
  {c \in Scopes(t) : c[1] < scope[1] \/ (c[1] = scope[1] /\ c[2] < scope[2])}
ScopeStart(t, scope, d) ==
  t.witnesses[FirstOtx(t)].start[d]
    + MapThenSumSet(LAMBDA c : ItemsIn(t, c, d), Before(t, scope))
Holds(t, scope, d, i) ==
  LET first == ScopeStart(t, scope, d)
  IN  first <= i /\ i < first + ItemsIn(t, scope, d)

\* Item i of list d is part of no OTX.
Remains(t, d, i) == At(t, "otx") = {} \/ \A scope \in Scopes(t) : ~Holds(t, scope, d, i)

TxMessages(t) == {t.witnesses[w + 1].message : w \in At(t, "sighash_all")}

KnownTargets(t, role) ==
  CASE role = "input_lock" -> {t.input_locks[i] : i \in 1..Len(t.input_locks)}
    [] role = "input_type" -> UNION {t.input_types[i] : i \in 1..Len(t.input_types)}
    [] role = "output_type" -> UNION {t.output_types[i] : i \in 1..Len(t.output_types)}

ActionsOf(message) == {message[a] : a \in 1..Len(message)}
Legible(message) == \A action \in ActionsOf(message) : action.role # "invalid"
Addresses(message, roles, script) ==
  \E action \in ActionsOf(message) : action.role \in roles /\ action.target = script
OnTarget(t, message) ==
  \A action \in ActionsOf(message) : action.target \in KnownTargets(t, action.role)

\* A message can be read, and if it concerns the script it names only scripts there are.
MessageOk(t, message, concerns) == Legible(message) /\ (concerns => OnTarget(t, message))
=============================================================================
