---------------------------- MODULE LimitOrders ----------------------------
(***************************************************************************)
(* tests/contracts/limit-order-lock and limit-order-type: an NFT offered   *)
(* for an amount of a UDT.  An order is a lock on the NFT, or a cell of    *)
(* its own with the NFT in escrow beside it: under a proxy lock that opens *)
(* when the cell is spent.  Either is filled by an action of the OTX that  *)
(* spends it, which names the output that pays its owner and the lock the  *)
(* NFT goes to.                                                            *)
(*                                                                         *)
(* An order is [owner, offered, asset, requested].  The data of an action  *)
(* is a create, a fill, a fill of the wrong length, or something else.     *)
(***************************************************************************)
EXTENDS TestAssets

OrderLock(order) == ScriptOf("limit_order_lock", order)
OrderType(id) == ScriptOf("limit_order_type", id)
ProxyLock(script) == ScriptOf("input_type_proxy_lock", script)

OrderRoles == {"input_lock", "input_type", "output_type"}
OtxMessage(t, k) == TypePlans!ViewOf(CobuildOf(t), k).message

(***************************************************************************)
(* otx.rs: the actions of OTX k that fill an order, and the outputs they   *)
(* count on.                                                               *)
(***************************************************************************)
FillsOf(message) ==
  {a \in DOMAIN message :
     message[a].role \in OrderRoles /\ message[a].data.tag \in {"fill", "fill_malformed"}}

\* A fill that parses names an output by its number in the OTX.
FillsCount(message) ==
  \A a \in FillsOf(message) : message[a].data.tag = "fill" => message[a].data.payment \in Nat

\* Fault: only the actions for the order's own script are compared.
PaymentsDistinct_OwnOnly(message, script) ==
  LET fills == {a \in FillsOf(message) : message[a].target = script}
  IN  /\ \A a \in fills : message[a].data.tag = "fill"
      /\ \A a, b \in fills : a # b => message[a].data.payment # message[b].data.payment
\* ensure_no_reused_payment_outputs_in_otx, ensure_unique_payment_output_indexes
PaymentsDistinct(message, script) ==
  LET fills == FillsOf(message)
  IN  /\ \A a \in fills : message[a].data.tag = "fill"
      /\ \A a, b \in fills : a # b => message[a].data.payment # message[b].data.payment

(***************************************************************************)
(* settlement.rs, types.rs validate_fill.                                  *)
(***************************************************************************)
PaymentIndex(t, k, payment) ==
  TypePlans!ScopeStart(CobuildOf(t), <<k, 0>>, "outputs") + payment + 1

Pays(cell, order) ==
  /\ cell.type = {order.asset}
  /\ IsAmount(cell) /\ cell.data.amount <= MaxU64
  /\ cell.lock = order.owner
  /\ cell.data.amount >= order.requested

BoundPaymentPays(t, k, payment, order) ==
  LET i == PaymentIndex(t, k, payment)
  IN  i \in OtxOutputs(t, k) /\ Pays(t.outputs[i], order)

DeliversTo(t, k, buyer, offered) ==
  \E i \in OtxOutputs(t, k) :
    t.outputs[i].lock = buyer /\ t.outputs[i].type = {offered}

Settles(t, ref, script, order) ==
  LET action == ActionAt(t, ref)
  IN  /\ PaymentsDistinct(OtxMessage(t, ref.otx_index), script)
      /\ action.data.tag = "fill"
      /\ BoundPaymentPays(t, ref.otx_index, action.data.payment, order)
      /\ DeliversTo(t, ref.otx_index, action.data.buyer, order.offered)

(***************************************************************************)
(* The lock.                                                               *)
(***************************************************************************)
\* load_current_order_input, otx_fill_layout
OrderLockAccepts(t, script) ==
  LET c == CobuildOf(t)
      order == Args(script)
      related == LockPlans!Related(c, script)
  IN  /\ Cardinality(LockGroup(t.inputs, script)) = 1
      /\ \A i \in LockGroup(t.inputs, script) : t.inputs[i].type = {order.offered}
      /\ LockPlans!Plans(c, script)
      /\ Cardinality(related) = 1
      /\ \A ref \in related :
           /\ ref.origin = "otx"
           /\ \A i \in LockGroup(t.inputs, script) :
                LockPlans!Holds(c, <<ref.otx_index, 0>>, "inputs", i - 1)
           /\ Settles(t, ref, script, order)

(***************************************************************************)
(* The type.                                                               *)
(***************************************************************************)
IsOrder(cell) == cell.data.is = "order"

\* validate_create_order, ensure_create_nft_proxy_output
\* Fault: the order is put up without the NFT.
CreateAccepts_NoEscrow(t, script, taken) ==
  LET related == TypePlans!Relations(CobuildOf(t), script)
      cell == CellIn(t.outputs, script)
  IN  /\ CheckTypeId(t, script, taken)
      /\ IsOrder(cell)
      /\ Cardinality(related) = 1
      /\ \A r \in related :
           LET action == ActionAt(t, r.ref)
           IN  action.data.tag = "create" /\ action.data.order = cell.data.order
CreateAccepts(t, script, taken) ==
  LET related == TypePlans!Relations(CobuildOf(t), script)
      cell == CellIn(t.outputs, script)
  IN  /\ CheckTypeId(t, script, taken)
      /\ IsOrder(cell)
      /\ Cardinality(related) = 1
      /\ \A r \in related :
           LET action == ActionAt(t, r.ref)
           IN  action.data.tag = "create" /\ action.data.order = cell.data.order
      /\ \E o \in DOMAIN t.outputs :
           /\ t.outputs[o].lock = ProxyLock(script)
           /\ t.outputs[o].type = {cell.data.order.offered}

\* validate_fill_order, otx_fill_layout
FillAccepts(t, script) ==
  LET related == TypePlans!Relations(CobuildOf(t), script)
      cell == CellIn(t.inputs, script)
  IN  /\ IsOrder(cell)
      /\ Cardinality(related) = 1
      /\ \A r \in related :
           /\ r.ref.origin = "otx"
           /\ \E relation \in r.otx_type_scope : relation.input_type_in_base
           /\ Settles(t, r.ref, script, cell.data.order)

OrderTypeAccepts(t, script, taken) ==
  /\ Shape(t, script) \in {<<0, 1>>, <<1, 0>>}
  /\ TypePlans!Plans(CobuildOf(t), script)
  /\ Shape(t, script) = <<0, 1>> => CreateAccepts(t, script, taken)
  /\ Shape(t, script) = <<1, 0>> => FillAccepts(t, script)

\* The proxy lock opens in a transaction that spends a cell of the type it names.
ProxyAccepts(t, script) == Args(script) \in Types(t.inputs)
=============================================================================
