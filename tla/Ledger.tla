------------------------------- MODULE Ledger -------------------------------
(***************************************************************************)
(* The cells of a chain, and the transactions that replace some by others  *)
(* when every script in them accepts: what the contracts keep true         *)
(* together, over many transactions.                                       *)
(*                                                                         *)
(* Scripts without source here are external: a user's lock opens when the  *)
(* user wants, the proxy lock as the order type relies on, and "other" is  *)
(* a type script that accepts everything.                                  *)
(***************************************************************************)
EXTENDS LimitOrders, NftMinter, Functions

CONSTANTS
  Genesis,            \* the cells there are at first
  MaxHeight,          \* bound: the number of transactions
  Inputs(_),          \* what may be put forward: for live cells, inputs;
  Outputs(_),         \*   for inputs, outputs;
  Witnesses(_, _)     \*   for inputs and outputs, witnesses

\* Minters and orders come from transactions, and so does what they issue.
Issuing == {"limit_order_type", "nft_minter_type", "minted_nft_type"}

ASSUME HeightAssumption == MaxHeight \in Nat
\* A cell has one type script at most, and numbers of the width of their fields.
Storable(cell) == NumbersFit(cell) /\ \A one, other \in cell.type : one = other

ASSUME GenesisAssumption ==
  /\ IsList(Genesis)
  /\ \A i \in DOMAIN Genesis : Storable(Genesis[i])
  /\ \A script \in Types(Genesis) : Code(script) \notin Issuing

VARIABLES
  live,       \* the cells, each with the place that made it
  height,     \* the number of transactions committed
  taken,      \* the type scripts any cell has had
  last        \* inputs and outputs of the last transaction

vars == <<live, height, taken, last>>

CodeNames == {"test_udt", "test_nft", "limit_order_type", "nft_minter_type", "minted_nft_type",
              "other", "limit_order_lock", "input_type_proxy_lock", "user"}
Cobuild == {"limit_order_lock", "limit_order_type", "nft_minter_type"}

Placed(list, h) == {[at |-> <<h, i>>, cell |-> list[i]] : i \in DOMAIN list}
CellsOf(list) == [i \in DOMAIN list |-> list[i].cell]
Tx(inputs, outputs, witnesses) ==
  [inputs |-> CellsOf(inputs), outputs |-> outputs, witnesses |-> witnesses]

TypeAccepts(t, script) ==
  CASE Code(script) = "test_udt" -> UdtAccepts(t, script)
    [] Code(script) = "test_nft" -> NftAccepts(t, script, taken)
    [] Code(script) = "limit_order_type" -> OrderTypeAccepts(t, script, taken)
    [] Code(script) = "nft_minter_type" -> MinterAccepts(t, script, taken)
    [] Code(script) = "minted_nft_type" -> MintedNftAccepts(t, script)
    [] Code(script) = "other" -> TRUE
LockAccepts(t, script) ==
  CASE Code(script) = "limit_order_lock" -> OrderLockAccepts(t, script)
    [] Code(script) = "input_type_proxy_lock" -> ProxyAccepts(t, script)
    [] Code(script) = "user" -> TRUE

Accepted(t, codes) ==
  /\ \A script \in Types(t.inputs) \cup Types(t.outputs) :
       Code(script) \in codes => TypeAccepts(t, script)
  /\ \A script \in Locks(t.inputs) : Code(script) \in codes => LockAccepts(t, script)

\* What a transaction is before any script looks at it: different live cells, lists
\* that end, and numbers of the width of their fields.
Spendable(inputs) ==
  /\ IsList(inputs) /\ inputs # <<>>
  /\ \A i \in DOMAIN inputs : inputs[i] \in live
  /\ \A i, j \in DOMAIN inputs : inputs[i] = inputs[j] => i = j
Creatable(outputs) ==
  IsList(outputs) /\ \A o \in DOMAIN outputs : Storable(outputs[o])
Counted(view) ==
  /\ view.base \in Counts /\ IsList(view.segments)
  /\ \A s \in DOMAIN view.segments : view.segments[s].counts \in Counts
Readable(witnesses) ==
  /\ IsList(witnesses)
  /\ \A w \in DOMAIN witnesses :
       /\ witnesses[w].kind = "sighash_all" => IsList(witnesses[w].message)
       /\ witnesses[w].kind = "otx_start" => witnesses[w].start \in Counts
       /\ witnesses[w].kind = "otx" =>
            /\ Counted(witnesses[w].view)
            /\ IsList(witnesses[w].view.message)
            /\ FillsCount(witnesses[w].view.message)

Commit(inputs, outputs) ==
  /\ live' = (live \ Range(inputs)) \cup Placed(outputs, height + 1)
  /\ height' = height + 1
  /\ taken' = taken \cup Types(outputs)
  /\ last' = [inputs |-> CellsOf(inputs), outputs |-> outputs]

Init ==
  /\ live = Placed(Genesis, 0)
  /\ height = 0
  /\ taken = Types(Genesis)
  /\ last = [inputs |-> <<>>, outputs |-> <<>>]

\* The scripts that read no witness are asked first, to spare TLC the witnesses of
\* what they refuse.
Next ==
  height < MaxHeight /\ \E inputs \in Inputs(live) :
    /\ Spendable(inputs)
    /\ \E outputs \in Outputs(CellsOf(inputs)) :
         /\ Creatable(outputs)
         /\ Accepted(Tx(inputs, outputs, <<>>), CodeNames \ Cobuild)
         /\ \E witnesses \in Witnesses(CellsOf(inputs), outputs) :
              Readable(witnesses) /\ Accepted(Tx(inputs, outputs, witnesses), Cobuild)
         /\ Commit(inputs, outputs)

Spec == Init /\ [][Next]_vars
-----------------------------------------------------------------------------
(***************************************************************************)
(* Properties.                                                             *)
(***************************************************************************)
OfCode(scripts, code) == {script \in scripts : Code(script) = code}

\* The orders among the inputs: cells under an order lock, and order cells.
OrdersFilled(inputs) ==
  {[at |-> i, order |-> Args(inputs[i].lock)] :
     i \in {j \in DOMAIN inputs : Code(inputs[j].lock) = "limit_order_lock"}}
    \cup
  {[at |-> i, order |-> inputs[i].data.order] :
     i \in {j \in DOMAIN inputs : OfCode(inputs[j].type, "limit_order_type") # {}}}
PaidTo(outputs, owner, asset) ==
  MapThenSumSet(LAMBDA i : outputs[i].data.amount,
                {i \in DOMAIN outputs : /\ outputs[i].lock = owner /\ outputs[i].type = {asset}
                                       /\ IsAmount(outputs[i])})

Requested(filled) == MapThenSumSet(LAMBDA f : f.order.requested, filled)

\* settlement.rs of both order contracts: whoever's orders a transaction fills, of
\* either kind and in however many OTX, is paid the sum of what they ask for; no
\* output pays for two.
OwnersPaid ==
  LET filled == OrdersFilled(last.inputs)
  IN  \A f \in filled :
        LET alike == {g \in filled : /\ g.order.owner = f.order.owner
                                     /\ g.order.asset = f.order.asset}
        IN  PaidTo(last.outputs, f.order.owner, f.order.asset)
              >= Requested(alike)

\* limit-order-type settlement.rs: as long as an order cell lives, the NFT it offers
\* lies under the lock that opens with that order alone.
EscrowHeld ==
  \A entry \in live : \A script \in OfCode(entry.cell.type, "limit_order_type") :
    \E other \in live : /\ other.cell.lock = ProxyLock(script)
                        /\ other.cell.type = {entry.cell.data.order.offered}

Supply(cells, script) ==
  MapThenSumSet(LAMBDA entry : entry.cell.data.amount,
                {entry \in cells : entry.cell.type = {script} /\ IsAmount(entry.cell)})

\* test-udt entry.rs: without the owner among the inputs there is never more of a
\* UDT than before, also where a sum is more than 128 bits hold.
SupplyConserved ==
  [][\A script \in OfCode(taken, "test_udt") :
       Args(script) \notin Locks(last'.inputs) =>
         Supply(live', script) <= Supply(live, script)]_vars

Minters(scripts) == OfCode(scripts, "nft_minter_type")
IdsOf(minter) ==
  {Args(script)[2] : script \in {nft \in OfCode(taken, "minted_nft_type") : Args(nft)[1] = minter}}

\* mint.rs and the minted type's create.rs: whatever the order of transactions, the
\* serials of the NFTs a minter has ever issued are below its counter, which never
\* passes its cap.
SupplyCapped ==
  \A entry \in live : \A minter \in Minters(entry.cell.type) :
    /\ \A serial \in IdsOf(minter) : serial < entry.cell.data.counter
    /\ entry.cell.data.counter <= entry.cell.data.cap

\* serial_is_minted: an NFT comes into being once; a burnt one never again, nor a
\* second one of the same serial beside a live one.
MintedOnce ==
  [][\A nft \in OfCode(Types(last'.outputs), "minted_nft_type") :
       (nft \notin Types(last'.inputs) /\ Code(Args(nft)[1]) = "nft_minter_type")
         => nft \notin taken]_vars

\* validate_expected_outputs: no serial is used up without a cell that has it in its
\* type args.
SerialsServed ==
  \A entry \in live : \A minter \in Minters(entry.cell.type) :
    \A serial \in 0..(entry.cell.data.counter - 1) :
      \E script \in taken : Args(script) = nft_id(minter, serial)
=============================================================================
