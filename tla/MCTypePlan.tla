----------------------------- MODULE MCTypePlan -----------------------------
(***************************************************************************)
(* Transactions for TLC's runs of TypePlan and the refinement of           *)
(* TypeRules.  "T" and "U" are type scripts, "L" the lock of every input,  *)
(* "X" a script no transaction has.  Each run takes every type script of a *)
(* transaction for the one that runs.                                      *)
(***************************************************************************)
EXTENDS TypePlanInv

Names == {"L", "T", "U", "X"}
Seals == {"seal"}

act(role, target) == [role |-> role, target |-> target]
inT == act("input_type", "T")
outT == act("output_type", "T")
Messages == {<<>>, <<inT>>, <<act("input_lock", "L"), outT>>, <<inT, act("input_lock", "X")>>,
             <<act("input_lock", "X")>>, <<outT, inT>>, <<inT, act("invalid", "L")>>}

N(inputs, outputs) ==
  [inputs |-> inputs, outputs |-> outputs, cell_deps |-> 0, header_deps |-> 0]
Seal1 == "seal"

Empty == [kind |-> "empty"]
SighashAll(message) == [kind |-> "sighash_all", seal |-> Seal1, message |-> message]
Start(counts) == [kind |-> "otx_start", start |-> counts]
SegmentOf(counts) == [flags |-> {"allow_more_after"}, counts |-> counts, items |-> 0, seals |-> <<>>]
Otx(message, base, segments, signed) ==
  [kind |-> "otx",
   view |-> [message |-> message, append_permissions |-> {"inputs", "outputs"},
             base |-> base, items |-> 0, masks_fit |-> TRUE, output_types_signed |-> signed,
             segments |-> segments, base_seals |-> <<>>]]

Tx(witnesses, input_types, output_types) ==
  [counts |-> N(Len(input_types), Len(output_types)), witnesses |-> witnesses,
   input_locks |-> [i \in 1..Len(input_types) |-> "L"],
   input_types |-> input_types, output_types |-> output_types]

(***************************************************************************)
(* Scopes: one OTX of up to two segments; cells of T before it, in its     *)
(* base, in its segments and behind it; a tx-level message or none.        *)
(***************************************************************************)
Slots(n) == [1..n -> {{}, {"T"}}]
ScopeWitnesses ==
  {before \o <<Start(N(0, first)), Otx(message, N(1, base[1]), segments, base[2])>> :
     before \in {<<>>, <<SighashAll(<<inT>>)>>, <<SighashAll(<<act("input_lock", "X")>>)>>},
     first \in 0..1,
     base \in UNION {{<<n, signed>> : signed \in SUBSET (0..(n - 1))} : n \in 0..2},
     message \in {<<>>, <<act("input_lock", "L"), outT>>, <<act("input_lock", "X")>>},
     segments \in {<<>>, <<SegmentOf(N(0, 1))>>, <<SegmentOf(N(1, 0)), SegmentOf(N(0, 1))>>}}
ScopeCases == ScopeWitnesses \X Slots(2) \X Slots(3)

(***************************************************************************)
(* Messages: two OTX, every pair of messages; up to two tx-level messages, *)
(* before the OTX, behind them, or both.                                   *)
(***************************************************************************)
Around == {<<>>, <<SighashAll(<<inT>>)>>, <<SighashAll(<<outT, act("input_lock", "X")>>)>>}
MessageWitnesses ==
  {before \o <<Start(N(0, 0)), Otx(m0, N(1, 1), <<>>, signed), Otx(m1, N(1, 1), <<>>, {0})>>
     \o behind :
     before \in Around, behind \in Around \cup {<<Empty, SighashAll(<<>>)>>},
     m0 \in Messages, m1 \in Messages, signed \in {{}, {0}}}
MessageCases ==
  MessageWitnesses \X {<<{"T"}, {"U"}>>, <<{}, {"T"}, {"T"}>>} \X {<<{"T"}, {"T"}>>, <<{"U"}, {}>>}
TxLevelCases ==
  {before \o behind : before \in Around, behind \in Around} \X {<<{"T"}>>} \X {<<{"T"}>>}

PlanTransactions ==
  {Tx(case[1], case[2], case[3]) : case \in ScopeCases \cup MessageCases \cup TxLevelCases}
=============================================================================
