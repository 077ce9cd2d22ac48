------------------------------ MODULE MCOrders ------------------------------
(***************************************************************************)
(* TLC's run of Ledger on orders.  Alice sells NFT 1, which she may put    *)
(* into an order of either kind, and NFT 2, which already lies under an    *)
(* order lock; Bob pays from a cell of two units of the UDT.  Each order   *)
(* asks for one unit.  The issuer may spend a cell, which lets any UDT be  *)
(* made.                                                                   *)
(***************************************************************************)
EXTENDS Ledger

User(name) == ScriptOf("user", name)
alice == User("alice")
bob == User("bob")
issuer == User("issuer")
udt == Udt(issuer)
nft(n) == ScriptOf("test_nft", n)
OrderFor(n) == [owner |-> alice, offered |-> nft(n), asset |-> udt, requested |-> 1]
order_type == OrderType(1)
order_lock(n) == OrderLock(OrderFor(n))

Amount(lock, n) == Typed(lock, udt, [is |-> "amount", amount |-> n])
Nft(lock, n) == Typed(lock, nft(n), [is |-> "nft", name |-> n])
OrderCell(n) == Typed(alice, order_type, [is |-> "order", order |-> OrderFor(n)])

OrderGenesis == <<Nft(alice, 1), Nft(order_lock(2), 2), Amount(bob, 2), Plain(issuer)>>

Scripts == {alice, bob, issuer, udt, order_type, ProxyLock(order_type)}
             \cup {nft(n) : n \in 1..2} \cup {order_lock(n) : n \in 1..2}

\* Inputs: some live cells, orders before NFTs before the rest.
Rank(cell) ==
  CASE cell.type = {order_type} -> 1
    [] cell.type = {nft(2)} -> 2
    [] cell.type = {nft(1)} -> 3
    [] OTHER -> 4
InOrder(one, other) ==
  \/ Rank(one.cell) < Rank(other.cell)
  \/ Rank(one.cell) = Rank(other.cell) /\ one.at[2] < other.at[2]
Ordered(set) ==
  {list \in [1..Cardinality(set) -> set] :
     \A i, j \in DOMAIN list : i < j => InOrder(list[i], list[j])}
OrderInputs(cells) ==
  LET alone == {entry \in cells : entry.cell.lock = issuer}
      sets == UNION {kSubset(n, cells \ alone) : n \in 1..4} \cup {alone}
  IN  UNION {Ordered(set) : set \in sets}

\* Outputs: an owner for each NFT spent, an order for an NFT of Alice's, and
\* payments behind or before these.
Owners(cell) ==
  IF cell.lock = alice THEN {bob, order_lock(1), ProxyLock(order_type)} ELSE {alice, bob}
NftsOf(inputs) == {cell \in Range(inputs) : \E n \in 1..2 : cell.type = {nft(n)}}
Given(inputs) ==
  {[i \in 1..Cardinality(NftsOf(inputs)) |->
      LET cell == CHOOSE c \in NftsOf(inputs) :
                    Cardinality({d \in NftsOf(inputs) : d.data.name < c.data.name}) = i - 1
      IN  [cell EXCEPT !.lock = owner[cell]]] :
     owner \in {f \in [NftsOf(inputs) -> UNION {Owners(cell) : cell \in NftsOf(inputs)}] :
                 \A cell \in NftsOf(inputs) : f[cell] \in Owners(cell)}}
Payments(inputs) ==
  IF \E cell \in Range(inputs) : cell.type = {udt} \/ cell.lock = issuer
  THEN {<<Amount(alice, 1)>>, <<Amount(alice, 3)>>, <<Amount(alice, 1), Amount(alice, 1)>>,
        <<Amount(alice, 1), Amount(bob, 1)>>, <<Amount(alice, 2), Amount(alice, 2)>>}
  ELSE {<<>>}
Opened(inputs) ==
  IF \E cell \in Range(inputs) : cell.lock = alice /\ cell.type = {nft(1)}
  THEN {<<>>, <<OrderCell(1)>>, <<OrderCell(2)>>} ELSE {<<>>}
OrderOutputs(inputs) ==
  {given \o opened \o payments : given \in Given(inputs), opened \in Opened(inputs),
                                 payments \in Payments(inputs)}
    \cup {payments \o given : given \in Given(inputs), payments \in Payments(inputs)}

\* Witnesses: a create at tx level, or fills in one OTX or in one each.
Act(role, target, data) == [role |-> role, target |-> target, data |-> data]
Fill(payment) == [tag |-> "fill", payment |-> payment, buyer |-> bob]
OrdersIn(inputs) ==
  {[role |-> "input_type", target |-> script] : script \in Types(inputs) \cap {order_type}}
    \cup {[role |-> "input_lock", target |-> script] :
            script \in Locks(inputs) \cap {order_lock(n) : n \in 1..2}}
Fills(orders, n) ==
  UNION {{[i \in DOMAIN list |-> Act(list[i].role, list[i].target, Fill(payment[i]))] :
            payment \in [DOMAIN list -> 0..(n - 1)]} :
           list \in {l \in [1..Cardinality(orders) -> orders] : Range(l) = orders}}

N(ins, outs) ==
  [d \in Dim |-> CASE d = "inputs" -> ins [] d = "outputs" -> outs [] OTHER -> 0]
Seal1(script) == [script_hash |-> script, seal |-> "any"]
Otx(message, base, segments) ==
  [kind |-> "otx",
   view |-> [message |-> message, append_permissions |-> {"inputs", "outputs"}, base |-> base,
             items |-> 0, masks_fit |-> TRUE, output_types_signed |-> {}, segments |-> segments,
             base_seals |-> <<Seal1(order_lock(1)), Seal1(order_lock(2))>>]]
Start == [kind |-> "otx_start", start |-> N(0, 0)]
Appended(ins, outs) ==
  [flags |-> {}, counts |-> N(ins, outs), items |-> 0, seals |-> <<>>]

OneOtx(inputs, outputs) ==
  LET a == Len(inputs)
      b == Len(outputs)
  IN  {<<Start, Otx(m, N(i, j), IF <<i, j>> = <<a, b>> THEN <<>>
                                ELSE <<Appended(a - i, b - j)>>)>> :
         m \in Fills(OrdersIn(inputs), b), i \in {a, a - 1} \ {0}, j \in {b, b \div 2}}
TwoOtx(inputs, outputs) ==
  LET a == Len(inputs)
      b == Len(outputs)
  IN  UNION {{<<Start, Otx(m0, N(1, j), <<>>), Otx(m1, N(a - 1, b - j), <<>>)>> :
                j \in 0..b, m0 \in Fills({one}, b), m1 \in Fills(OrdersIn(inputs) \ {one}, b)} :
               one \in OrdersIn(inputs)}
OrderWitnesses(inputs, outputs) ==
  {<<>>} \cup {<<[kind |-> "sighash_all", seal |-> "any",
                  message |-> <<Act("output_type", order_type,
                                    [tag |-> "create", order |-> OrderFor(n)])>>]>> : n \in 1..2}
    \cup (IF OrdersIn(inputs) = {} THEN {}
          ELSE OneOtx(inputs, outputs)
                 \cup (IF Cardinality(OrdersIn(inputs)) = 2 THEN TwoOtx(inputs, outputs) ELSE {}))
=============================================================================
