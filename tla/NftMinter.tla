----------------------------- MODULE NftMinter -----------------------------
(***************************************************************************)
(* tests/contracts/nft-minter-type and minted-nft-type: a minter cell      *)
(* counts the NFTs it has issued, up to a cap; each mint action is for the *)
(* next serial, and the NFT carries minter and serial in its type args.    *)
(*                                                                         *)
(* Hashes are the data they are over.  The data of an action is a create,  *)
(* a mint, or something else.                                              *)
(***************************************************************************)
EXTENDS TestAssets

Minter(id) == ScriptOf("nft_minter_type", id)
MintedNft(id) == ScriptOf("minted_nft_type", id)

(***************************************************************************)
(* types.rs of both.                                                       *)
(***************************************************************************)
nft_id(minter, serial) == <<minter, serial>>
rarity_for_serial(serial) ==
  CASE serial % 77 = 0 -> 3
    [] serial % 77 # 0 /\ serial % 11 = 0 -> 2
    [] serial % 11 # 0 /\ serial % 7 = 0 -> 1
    [] OTHER -> 0
MintedData(minter, serial, seed) ==
  [is |-> "minted", minter |-> minter, serial |-> serial,
   rarity |-> rarity_for_serial(serial),
   attributes |-> <<minter, serial, rarity_for_serial(serial), seed>>]

IsMinterState(cell) == cell.data.is = "minter"
IsMinted(cell) == cell.data.is = "minted"

(***************************************************************************)
(* The minter, create.rs.                                                  *)
(***************************************************************************)
MinterCreateAccepts(t, script, taken) ==
  LET related == TypePlans!Relations(CobuildOf(t), script)
      cell == CellIn(t.outputs, script)
  IN  /\ CheckTypeId(t, script, taken)
      /\ IsMinterState(cell)
      /\ Cardinality(related) = 1
      /\ \A r \in related :
           LET action == ActionAt(t, r.ref)
           IN  /\ action.data.tag = "create"
               /\ cell.data.counter = 0
               /\ cell.data.cap = action.data.cap

(***************************************************************************)
(* The minter, mint.rs.                                                    *)
(***************************************************************************)
\* mint_actions: every related action is a mint for the type as an input's; they
\* are served in the order of their references.
AllMints(t, refs) ==
  \A ref \in refs : LET action == ActionAt(t, ref)
                    IN  action.role = "input_type" /\ action.data.tag = "mint"
Precedes(one, other) ==
  \/ one.witness_index < other.witness_index
  \/ one.witness_index = other.witness_index /\ one.action_index < other.action_index
SerialOf(counter, refs, ref) ==
  counter + Cardinality({other \in refs : Precedes(other, ref)})

\* Fault: the cap is not looked at again.
MintState_NoCap(before, after, increment) ==
  /\ before.cap = after.cap
  /\ before.counter + increment <= MaxU64
  /\ after.counter = before.counter + increment
\* validate_mint_state
MintState(before, after, increment) ==
  /\ before.cap = after.cap
  /\ before.counter + increment <= MaxU64
  /\ after.counter = before.counter + increment
  /\ after.counter <= after.cap

\* output_candidates: all outputs, or those of the OTX the action comes from.
Candidates(t, ref) ==
  IF ref.origin = "otx" THEN OtxOutputs(t, ref.otx_index) ELSE DOMAIN t.outputs

\* Fault: an action without its output passes.
ExpectedOutput_OrNone(t, script, ref, serial) ==
  LET action == ActionAt(t, ref)
      matches == {i \in Candidates(t, ref) :
                    \E type \in t.outputs[i].type : Args(type) = nft_id(script, serial)}
  IN  /\ Cardinality(matches) <= 1
      /\ \A i \in matches : /\ t.outputs[i].data = MintedData(script, serial, action.data.seed)
                            /\ t.outputs[i].lock = action.data.mint_to
\* validate_expected_output_at: one candidate has the args of the NFT, and it is as
\* asked for.
ExpectedOutput(t, script, ref, serial) ==
  LET action == ActionAt(t, ref)
      matches == {i \in Candidates(t, ref) :
                    \E type \in t.outputs[i].type : Args(type) = nft_id(script, serial)}
  IN  /\ Cardinality(matches) = 1
      /\ \A i \in matches : /\ t.outputs[i].data = MintedData(script, serial, action.data.seed)
                            /\ t.outputs[i].lock = action.data.mint_to

MinterMintAccepts(t, script) ==
  LET refs == {r.ref : r \in TypePlans!Relations(CobuildOf(t), script)}
      before == CellIn(t.inputs, script)
      after == CellIn(t.outputs, script)
  IN  /\ IsMinterState(before) /\ IsMinterState(after)
      /\ AllMints(t, refs)
      /\ MintState(before.data, after.data, Cardinality(refs))
      /\ \A ref \in refs :
           ExpectedOutput(t, script, ref, SerialOf(before.data.counter, refs, ref))

\* entry.rs: a minter is created and mints; it is never given up.
MinterAccepts(t, script, taken) ==
  /\ Shape(t, script) \in {<<0, 1>>, <<1, 1>>}
  /\ TypePlans!Plans(CobuildOf(t), script)
  /\ Shape(t, script) = <<0, 1>> => MinterCreateAccepts(t, script, taken)
  /\ Shape(t, script) = <<1, 1>> => MinterMintAccepts(t, script)

(***************************************************************************)
(* The minted NFT.                                                         *)
(***************************************************************************)
\* Fault: any serial below the new counter passes.
SerialIsMinted_NoLower(before, after, serial) ==
  /\ before.cap = after.cap
  /\ after.counter > before.counter
  /\ serial < after.counter
\* serial_is_minted
SerialIsMinted(before, after, serial) ==
  /\ before.cap = after.cap
  /\ after.counter > before.counter
  /\ before.counter <= serial /\ serial < after.counter

\* find_minter_transition: the one cell of the minter on each side.
NftCreateAccepts(t, script) ==
  LET nft == CellIn(t.outputs, script).data
      before == CellIn(t.inputs, nft.minter)
      after == CellIn(t.outputs, nft.minter)
  IN  /\ Args(script) = nft_id(nft.minter, nft.serial)
      /\ Shape(t, nft.minter) = <<1, 1>>
      /\ IsMinterState(before) /\ IsMinterState(after)
      /\ SerialIsMinted(before.data, after.data, nft.serial)

\* entry.rs: an NFT is created, handed on as it is, or burnt.
MintedNftAccepts(t, script) ==
  LET before == CellIn(t.inputs, script)
      after == CellIn(t.outputs, script)
  IN  /\ Shape(t, script) \in {<<0, 1>>, <<1, 1>>, <<1, 0>>}
      /\ Shape(t, script) = <<0, 1>> => IsMinted(after) /\ NftCreateAccepts(t, script)
      /\ Shape(t, script) = <<1, 1>> => IsMinted(before) /\ before.data = after.data
=============================================================================
