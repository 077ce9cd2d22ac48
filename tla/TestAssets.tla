----------------------------- MODULE TestAssets -----------------------------
(***************************************************************************)
(* tests/contracts/test-udt and test-nft: the type scripts of the assets   *)
(* that are traded.                                                        *)
(***************************************************************************)
EXTENDS ChainCells

CONSTANTS
  MaxU64, MaxU128    \* bound: the largest numbers of the two widths

ASSUME WidthAssumption == MaxU64 \in Nat /\ MaxU128 \in Nat /\ MaxU64 < MaxU128

\* The numbers in the data of a cell, and in the args of an order lock, have the width
\* of their fields.
NumbersFit(cell) ==
  /\ Code(cell.lock) = "limit_order_lock" => Args(cell.lock).requested \in 0..MaxU64
  /\ cell.data.is = "order" => cell.data.order.requested \in 0..MaxU64
  /\ cell.data.is = "amount" => cell.data.amount \in 0..MaxU128
  /\ cell.data.is = "minter" => cell.data.counter \in 0..MaxU64 /\ cell.data.cap \in 0..MaxU64
  /\ cell.data.is = "minted" => cell.data.serial \in 0..MaxU64

Udt(owner) == ScriptOf("test_udt", owner)
IsAmount(cell) == cell.data.is = "amount"
Total(list, script) ==
  MapThenSumSet(LAMBDA i : list[i].data.amount, TypeGroup(list, script))

\* Fault: the sum wraps around.
CheckedTotal_Wraps(list, script) == {Total(list, script) % (MaxU128 + 1)}
\* collect_amounts: no sum when a cell holds no amount or the sum overflows.
CheckedTotal(list, script) ==
  IF \A i \in TypeGroup(list, script) : IsAmount(list[i])
  THEN {Total(list, script)} \cap (0..MaxU128)
  ELSE {}

OwnerMode(t, script) == Args(script) \in Locks(t.inputs)

UdtAccepts(t, script) ==
  \/ OwnerMode(t, script)
  \/ \E spent \in CheckedTotal(t.inputs, script),
        made \in CheckedTotal(t.outputs, script) : made <= spent

\* The payload of an NFT, when it parses; a transfer leaves it as it is.
IsNft(cell) == cell.data.is = "nft"
NftAccepts(t, script, taken) ==
  LET ins == TypeGroup(t.inputs, script)
      outs == TypeGroup(t.outputs, script)
  IN  /\ CheckTypeId(t, script, taken)
      /\ \A i \in ins : IsNft(t.inputs[i])
      /\ \A o \in outs : IsNft(t.outputs[o])
      /\ \A i \in ins, o \in outs : t.inputs[i].data = t.outputs[o].data
=============================================================================
