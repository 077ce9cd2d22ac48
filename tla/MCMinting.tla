----------------------------- MODULE MCMinting -----------------------------
(***************************************************************************)
(* TLC's runs of Ledger on minting.  Alice has one cell, from which a      *)
(* minter may be made; each transaction may mint up to two NFTs, to Alice  *)
(* or Bob, hand on or burn one.  "other" is a type script of somebody      *)
(* else's, which accepts the args of an NFT too.                           *)
(***************************************************************************)
EXTENDS Ledger

CONSTANT OtherCodes    \* codes an output may carry the args of an NFT under

User(name) == ScriptOf("user", name)
alice == User("alice")
bob == User("bob")
minter == Minter(<<"first">>)

MinterCell(counter, cap) ==
  Typed(alice, minter, [is |-> "minter", counter |-> counter, cap |-> cap])
NftCell(lock, code, serial, seed) ==
  Typed(lock, ScriptOf(code, nft_id(minter, serial)), MintedData(minter, serial, seed))

MintGenesis == <<Plain(alice)>>
Scripts == {alice, bob, minter} \cup {MintedNft(nft_id(minter, serial)) : serial \in 0..2}

\* Inputs: Alice's cell for a new minter, the minter, an NFT, or these two.
IsFor(entry, code) == OfCode(entry.cell.type, code) # {}
MintInputs(cells) ==
  {<<entry>> : entry \in {e \in cells : ~IsFor(e, "other")}}
    \cup {<<one, other>> : one \in {e \in cells : IsFor(e, "nft_minter_type")},
                          other \in {e \in cells : IsFor(e, "minted_nft_type")}}

\* Outputs: a minter with any counter and either cap, and up to two NFTs; without the
\* minter, one NFT.
NftCodes == OtherCodes \cup {"minted_nft_type"}
OneNft(codes) == {<<>>} \cup {<<NftCell(bob, code, n, "seed")>> : code \in codes, n \in 0..2}
Nfts ==
  OneNft(NftCodes)
    \cup {<<NftCell(bob, "minted_nft_type", 0, "another")>>}
    \cup {<<NftCell(bob, code, n, "seed"), NftCell(bob, "minted_nft_type", 0, "seed")>> :
            code \in NftCodes, n \in 0..1}
MinterCells ==
  {<<>>} \cup {<<MinterCell(counter, cap)>> : counter \in 0..3, cap \in 1..2}
MintOutputs(inputs) ==
  CASE minter \in Types(inputs) -> {first \o nfts : first \in MinterCells, nfts \in Nfts}
    [] Types(inputs) = {} -> {<<MinterCell(counter, 2)>> : counter \in 0..1}
    [] OTHER -> OneNft({"minted_nft_type"})

\* Witnesses: a create, or mints at tx level, in one OTX, or one in each place.
Mint(lock) == [role |-> "input_type", target |-> minter,
               data |-> [tag |-> "mint", seed |-> "seed", mint_to |-> lock]]
Mints == {<<>>, <<Mint(alice)>>, <<Mint(bob)>>, <<Mint(bob), Mint(bob)>>}
Create(cap) == [role |-> "output_type", target |-> minter, data |-> [tag |-> "create", cap |-> cap]]
AtTxLevel(message) == [kind |-> "sighash_all", seal |-> "any", message |-> message]

N(ins, outs) ==
  [d \in Dim |-> CASE d = "inputs" -> ins [] d = "outputs" -> outs [] OTHER -> 0]
InOtx(message, ins, first, outs) ==
  <<[kind |-> "otx_start", start |-> N(0, first)],
    [kind |-> "otx",
     view |-> [message |-> message, append_permissions |-> {}, base |-> N(ins, outs),
               items |-> 0, masks_fit |-> TRUE, output_types_signed |-> {}, segments |-> <<>>,
               base_seals |-> <<>>]]>>
MintWitnesses(inputs, outputs) ==
  LET a == Len(inputs)
      b == Len(outputs)
  IN  {<<AtTxLevel(<<Create(2)>>)>>}
        \cup {<<AtTxLevel(mints)>> : mints \in Mints}
        \cup {InOtx(mints, a, 0, b) : mints \in Mints}
        \cup {InOtx(mints, a, 1, b - 1) \o <<AtTxLevel(<<Mint(lock)>>)>> :
                mints \in {m \in Mints : Len(m) = 1 /\ b > 1}, lock \in {bob}}
        \cup {<<AtTxLevel(<<Mint(lock)>>)>> \o InOtx(mints, a, b - 1, 1) :
                mints \in {m \in Mints : Len(m) = 1 /\ b > 1}, lock \in {bob}}
\* Every mint is asked for in an OTX that appends nothing.
BaseWitnesses(inputs, outputs) ==
  {<<AtTxLevel(<<Create(2)>>)>>} \cup {InOtx(mints, Len(inputs), 0, Len(outputs)) : mints \in Mints}

\* nft-minter design, Mint Output Binding: an OTX mint is served among the outputs its OTX
\* appends, so an OTX that appends none mints nothing.
MintsAreAppended == OfCode(taken, "minted_nft_type") = {}
=============================================================================
