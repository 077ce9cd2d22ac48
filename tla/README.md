# Cobuild OTX contracts: a verification project

The repository holds CKB scripts for *open transactions* (OTX): parts of a
transaction that different parties sign separately and a packer puts together. A
script runs in the CKB VM on one whole transaction and says yes or no. The models
here say what the scripts decide, in which order they decide it, why what they
accept is signed for, and what the demo contracts keep true on a chain.

## The system

| component | state it keeps | operations | what makes it correct |
|---|---|---|---|
| witness scanner (`witness.rs`) | a summary per witness, "has Cobuild layout" | `push_witness`, `unique_sighash_all_message_with_index`, `tx_level_carrier_view`, `ensure_non_carrier_witnesses_empty` | nothing that carries a Cobuild id is taken for a legacy witness; at most one message |
| OTX layout builder (`layout.rs`, `protocol.rs`) | OtxStart, last layout index, OTX, one cursor per list | `push_otx_start`, `push_otx`, `finish`, `take_layout` | OTX are one run; each item of each list belongs to one piece of one OTX |
| views (`view.rs`, `reader.rs`) | none | molecule bytes to records, masks | total or an error; a view says what was written |
| script context (`context.rs`) | indices of the current script, sets of script hashes | `from_reader`, `validate_action_targets`, range queries | a message names only scripts there are |
| lock planner (`engine.rs`, `seal.rs`) | requirements, related actions, an action cache | `add_tx_level_requirement`, `add_tx_level_actions`, `add_otx_requirements`, `ensure_otx_lock_group_coverage` | every input of the group is under a signature of its scope |
| type planner, action API (`engine.rs`, `plan.rs`) | related actions, their OTX scope | `plan_type_validation`, `find_action`, `all_actions` | a type script sees every action for it, in one order |
| signing hashes (`hash/`) | none | transaction, base and append segment hash | what is signed is what is spent |
| OTX lock (`contracts/cobuild-otx-lock`) | none | `main` | refuse an empty plan, verify every requirement |
| lazy data source (`lazy_reader/support.rs`, `reader.rs`, `syscalls.rs`) | one cache window, shared by all cursors of a source | `DataSource::read_at`, the callers of `Cursor::read_at`, the chunk loop of a hasher | a read answers as if there were no cache |
| entity types (`entity/`) | none | `verify`, the accessors, the builders of every type | a value has one encoding |
| lazy types (`lazy_reader/`) | none | `verify`, the accessors of every type | the two decoders read alike |
| limit orders (`limit-order-lock`, `limit-order-type`) | order cells, NFTs in escrow | create, fill | each order is paid for by an output of its own; its NFT is there |
| NFT minter, minted NFT | counter, cap; serials | create, mint, hand on, burn | serials unique, below counter and cap |
| test NFT, test UDT | payload, amounts | transfer, owner mode | no UDT from nowhere, also where sums overflow |

Components call each other in one direction: `main` calls `CobuildContext::build`
(reader, context, scanner, layout builder), then the planner, which reads what
build returned, then the verifier or the contract's own checks. There is no shared
state, no thread and no network in a script. What is hard is the *input*: an untrusted
packer chooses the order of witnesses, where OTX begin, what each claims to own,
which seals are where and which messages name which scripts; the code answers with
cursors, caches, early returns and guards over many loops. Between transactions there
is the chain: scripts that look at one transaction each keep a promise over all of
them. `PROJECT.json` lists each such hazard at its line.

## Modules

| module | models | role |
|---|---|---|
| `CobuildTx` | `view.rs`, `protocol.rs`, `syscalls.rs` records | the data: transactions, witnesses as the readers classify them, flag bytes |
| `OtxScan` | `CobuildContext::build`: `witness.rs`, `layout.rs` | one action per loop iteration of the scan |
| `ScanRules` | | abstract: the verdict on a transaction in one step |
| `ScriptContext` | `context.rs`, the queries of `engine.rs`, `ActionRef` of `plan.rs` | what a built context answers: script sets, the tx-level message, actions and their references |
| `LockPlan` | `LockPlanBuilder::build`, `seal.rs`, `entry.rs` | the whole lock script, on top of the scan |
| `TypePlan` | `TypePlanBuilder::build` | the planning of a type script, on top of the scan |
| `OtxRules` | | scopes and messages of a transaction by sums and sets, for the rules below |
| `LockRules`, `TypeRules` | | abstract: whether there is a plan and what it relates; for a lock, in a second step, whether its signatures are those of the lock |
| `LazySource` | `DataSource`, `Cursor::read_at`, its callers, the readers below it | one action per way out of `read_at` |
| `UncachedSource` | | abstract: a read is a function of the source and the request |
| `Molecule`, `EntityTypes` | `entity/*.rs` | the algorithms of the wire format over schemas; the schema of each type |
| `LazyMolecule`, `LazyTypes` | `lazy_reader/*.rs` | cursors, `verify` and the accessors of the lazy reader; the shape of each type |
| `WireBytes` | | bytes between a writer and the two readers, changed on the way |
| `WitnessViews` | `witness.rs`, `view.rs` | a witness from its bytes to the view the scan starts from |
| `OtxHash` | `hash/mod.rs`, `hash/writer.rs`, `MaskView` | the preimage of each scope, byte by byte, and masks |
| `OtxSigning` | | who signs what on the way of one OTX to a transaction, and what may change on it |
| `ChainCells` | `ckb_std`, `syscalls.rs` from a contract's side | cells, scripts and groups; the plan a contract gets, from `LockRules` and `TypeRules` |
| `TestAssets` | `test-udt`, `test-nft` | the two assets |
| `LimitOrders` | `limit-order-lock`, `limit-order-type` | the two forms of an order |
| `NftMinter` | `nft-minter-type`, `minted-nft-type` | the minter and what it issues |
| `Ledger` | CKB, as far as the contracts need it | all of them on one chain, over many transactions |
| `OtxScanInv`, `LockPlanInv`, `TypePlanInv` | | inductive invariants |
| `OtxScanProofs`, `ScriptContextProofs`, `LockPlanProofs`, `TypePlanProofs`, `LazySourceProofs`, `OtxSigningProofs`, `LedgerProofs` | | proofs and theorems |
| `Sums` | | lemmas about sums over finite sets, for `OtxScanProofs`, `OtxSigningProofs` and `LedgerProofs` |
| `MCOtxScan`, `MCLockPlan`, `MCTypePlan`, `MCLazySource`, `MCWireBytes`, `MCOtxSigning`, `MCOrders`, `MCMinting` | | instances for TLC |

How they build on each other. `OtxScan` extends `CobuildTx`, `ScriptContext` extends
`OtxScan`, and `LockPlan` and `TypePlan` extend `ScriptContext`: each planner carries
the whole scan as its first steps. The rules modules extend `CobuildTx` only, and
share no definition with the scan. Each planner is proved to decide as its rules say,
and the contracts' modules take the rules for the planners: `LimitOrders`
and `NftMinter` use `LockRules` and `TypeRules` through `ChainCells`. In the same way
`LazyMolecule` reads as `UncachedSource` does, which `LazySource` is shown to
implement. `OtxHash` stands on its own, so that it can be proved about: messages and
scripts are bytes of a table, and `MCOtxSigning` checks that the bytes of its scripts and
messages, and those `OtxHash` gives to a cell, are what `EntityTypes` encodes
(`BytesAreEncodings`, `CellOutputEncodes`).

**OtxScan.** `tx` is the transaction; `Init` takes any of the constant
`Transactions`. `PushMalformed`, `PushTxLevel`, `PushOtxStart` and `PushOtx` are the
outcomes of one `push_witness`; `FinishScan` is `finish` up to its loop; `TakeBase` and
`TakeSegment` are its two nested loops (`validate_otx_view` and the base ranges of
`take_layout`, then one append segment each); `FinishLayout` is `ensure_within`. A range
taken in all four lists at once is a *piece*. The aggregate, append and merged ranges
of the code are definitions over the pieces.

**LockPlan.** `ScanStep` is a step of the scan, `BeginPlan` the return of `build`;
`AddTxLevelRequirement`, `AddTxLevelActions`, `EnterOtx`, `VisitSegment`, `AllOtxVisited`
and `EnsureCoverage` are the stages of the planner's `build`, one loop iteration each;
`VerifyNext` and `Exit` are `main`. The cache of parsed tx-level actions is kept as
the code keeps it, with its `targets_checked` flag.

**TypePlan.** `ScanStep` and `BeginPlan` are as in `LockPlan`; `AddOtxAction` is one OTX of
`add_otx_actions`, `AllOtxAdded` the end of that loop, `AddTxLevelActions` the tx-level
message. A related action is its reference with the place of the type script's cells in
its OTX: no element for `TargetOnly`, the `OtxTypeRelation` for `InOtxScope`. The queries
`OtxActions`, `TxLevelActions`, `AllActions` and `FindAction` are reads and hence operators.

**LazySource.** A source has one window of bytes cached, which all cursors into it share.
`Ask` is a call of the program: a number, a fixed array, all bytes, or the feed of a hasher.
Each way out of `read_at` is an action: nothing to read, a read larger than the cache,
a hit, a miss that fills the window, a miss out of bounds. `call` is the call in
progress and `served` and `reply` are the last outcomes. The readers underneath are a copy in
memory and the syscalls.

**Molecule, LazyMolecule.** The repository has a copy of a few algorithms for each of some
sixty generated types. A type is a schema here, and each algorithm is written once:
`Verify`, `Decode` and `Encode` for the entities, `LazyVerify` and `LazyRead` with cursors
for the lazy reader. `EntityTypes` and `LazyTypes` say of each type which schema its
own code has; `LazyTypes` also says which fields its `verify` descends into, as the lazy
code skips some. `WitnessViews` reads a witness's bytes through the lazy types to the view,
in the order of `push_witness`. A witness is a cursor into the source of the transaction, with
the constant `Behind` as the bytes that follow it, so a read that leaves the witness is answered
as in the script.

**OtxHash, OtxSigning.** `OtxHash` writes the preimage of each scope byte by byte, in the
order in which the code feeds the hasher; a digest stands for what it is over. It is next
to a definition of the *content* of a scope: the fields the masks select, the
counts, flags and the segments a covering segment covers. In `OtxSigning`
the creator, appenders and a tx-level lock sign; anyone appends, changes an item, a
mask, a witness or a view, moves a boundary, swaps or drops segments, or prepends foreign items.
What is put together is again in `Transactions` and `Otxs`, what the readers can make of
bytes. Lengths are below `SizeLimit` = 2^24, far more than a block holds, so the fourth byte of
a length is zero.

**Ledger.** `live` are the cells, each with the transaction and output that made it; `taken`
the type scripts that ever were, which is what a type id's uniqueness stands on. `Next` is
one transaction: any inputs, outputs and witnesses that are put forward and that every
script accepts. `CheckTypeId` is what the cargo feature `type-id` puts into `test-nft`,
`nft-minter-type` and `limit-order-type`: no default feature, but their Makefiles build with it
(`CONTRACT_FEATURES := --features type-id`), so the models are of the contracts as deployed.
Built without, that check is one of the length of the args only, and what rests on a type id being
unique (`EscrowHeld`, `SupplyCapped`, `MintedOnce`) is not claimed. Scripts without source here (a user's lock, the proxy lock that opens with
a type, somebody else's type) are external and marked so in the map.

Abstractions. For the scan and the planners a witness is what parsing makes of it; bytes of
no Cobuild layout are `malformed` when they start with a reserved id and `legacy` when not. A
flag byte is the set of its bits, with one element for all bits outside the mask. `masks_fit`
stands for the four `MaskView::validate` calls, and `output_types_signed` for the bits that
`includes_base_output_type` reads. Related actions are a set of references: the code pushes
each once, and its consumers sort them. A seal is who signed and what; a hash is its
personalization and what it covers: message, permissions, flags, counts and, in one number for
each base and segment (`items`), what the masks select of its cells and deps. No place in the
transaction is in it, as in the code: two OTX of equal content, their out points masked, have the
same hashes, and one seal verifies for both. They stay two scopes, with a requirement each.
What a hash binds of the items, byte by byte, is `OtxSigning`'s subject. Fields are `u32` in 64-bit `usize` (the VM is riscv64), counts of a transaction are far
below 2^32, and sums cannot overflow: numbers of the scan are naturals. Amounts and serials
do overflow: `MaxU64` and `MaxU128` bound them. In the wire modules a number of four bytes
keeps its value below 2^30 and is one huge number above it. Two tests of the code are
unreachable and are no actions: the flags parsed again in `take_layout`, and `unwrap_or` on the
message of a carrier that is itself a SighashAll. `otx_entries.is_empty()` in `finish` is kept
though the collector makes it unreachable. An OTX that needs nothing of the lock
returns early in the code; here the loop visits its segments and finds nothing to do. A
contract's args, action data and cell data of a wrong length are one case each.

Each definition that a plausible bug would change has beside it a `Fault:` variant,
used to show that the property it is paired with notices the bug.

## Runs

| run | instance | shows |
|---|---|---|
| `scan` | every sequence of up to 4 witnesses from 7, two sizes of transaction; an OTX with every combination of small fields and up to 2 segments, then another OTX | `TypeOK`, `Tiling`, `OtxRun`, `MergedWindow`, `AppendsAuthorised`, refinement of `ScanRules` |
| `lock_scopes` | 3 inputs of 2 locks, one OTX with up to 2 segments before, around or behind them, 5 prefixes, missing, wrong, double and foreign seals; two OTX of one input each, of equal content or different in their out points | `AuthorisedInputs`, `OneRequirementPerScope`, `CoverageGuardRedundant`, refinement of `LockRules` |
| `lock_messages` | no OTX, 1 or 2 inputs of 2 locks, up to 3 witnesses from 14; and two OTX, pairs of messages, seals for either, their out points signed or masked, so of equal content or not | `LockTypeOK`, `RelatedActionsChecked`, refinement of `LockRules` |
| `type_plan` | one OTX with up to 2 base outputs, each masked or not, and up to 2 segments, cells of the type script in any of 2 inputs and 3 outputs; and two OTX, every pair of 7 messages, tx-level messages before and behind them, 4 placements of the cells | `PlanTypeOK`, `MessagesChecked`, `QueriesAgree`, `CanonicalOrder`, refinement of `TypeRules` |
| `lazy_reads` | a source of 0 or 5 bytes, a window of 3, chunks of 2; cursors at 0, 1 and 4 of length 0, 1, 2 and 5, so inside, across and behind the end; any sequence of reads | `TypeOK`, `CacheCoherent`, `FedFront`, `CallsReturn`, refinement of `UncachedSource` |
| `wire_bytes` | 27 values of the types and 7 witnesses; one byte overwritten, cut off or added (two, when at most 48 bytes), or a field of a later schema; behind a witness, the bytes of another | `ReadersAgree`, `Canonical`, `LaterFields`, `ViewsAgree`, `ViewsDisjoint`, `MessageStandsAlone`, `WitnessStandsAlone` |
| `wire_reserved` | the witnesses of `wire_bytes` | **violation** of `ReservedLayoutParses`, see Findings |
| `signing_scopes` | 5 OTX under different masks, up to 2 segments of 3, each scope and the transaction signed or not, one change | `SignatureBinds`, `OnlyContentBinds`, `AcceptedTogether`, `MasksCanonical` |
| `signing_framing` | as `signing_scopes` | **violation** of `PreimageInjective`, see Findings |
| `orders` | two orders of one owner, each a lock or an order cell, two NFTs and a UDT of at most 3; two transactions; fills in one OTX, split between base and append, or in two OTX, each naming any output as its payment | `OwnersPaid`, `EscrowHeld`, `SupplyConserved` |
| `minting` | one minter of cap 2 with 64-bit numbers up to 3; four transactions: create, mints of any serial and counter at tx level, in an OTX or in both, hand on, burn; another type script with an NFT's args | `SupplyCapped`, `SerialsServed`, `MintedOnce` |
| `minting_base` | as `minting`, every mint in an OTX that appends nothing | **violation** of `MintsAreAppended`, see Findings |

Why the bounds are enough. *Scan and planners:* four witnesses hold every order of
start, OTX, something between and something behind; two segments and two OTX give every
neighbour relation of pieces (base after base, segment after base, segment after segment,
base after segment). Three inputs let a group be inside the base, inside a segment,
outside, or any mix, with another group between. A type script's cell lies in the base, in
the first or second segment, before or behind the OTX, or in several of these at once. Every
error of the planner and the verifier is reached in some run, and so is acceptance with
several signatures. *Lazy source:* the window is shorter than the source and longer than a
chunk, as in the code, so a read may hit, miss, straddle the window, be larger than it,
and come up short at the end. *Wire:* the samples have each kind of type, empty and
not; overwriting a byte with the values next to it, zero and four more moves each header
number to the item before, behind and into the next one; two edits reach a header and what it
points to. *Signing:* two segments give one that covers and one that does not, in either
order; a base of three outputs has a mask of two bytes; one change suffices as the
properties compare two states of one scope, and no change is made to undo another. *Orders:*
two orders are what can be confused with each other, and the second transaction fills what
the first created. `MaxU128` is 3, so two outputs of 2 overflow. *Minting:* four
transactions hold create, mint, burn and a second try at the same serial; the cap of 2 is
met and exceeded.

`CHECK_DEADLOCK` is off where the system stops: a script exits, edits are bounded, a chain is as
long as `MaxHeight`.

Fairness. `CallsReturn` is checked under `WF(AnyRead)`: the code is sequential, and a call
once begun is run to its end; that the program asks for another read is not assumed. No other
fairness is. That the planners' loops end needs no property: each is a `for` over a finite
iterator.

The refinements are the core claim of the runs. `ScanRules`, `LockRules` and `TypeRules`
say with sums and sets and no cursor, cache or order of checks which transactions are accepted
and what is planned, and `UncachedSource` what a read returns; the detailed modules are
shown to decide the same, on the instances by the runs and for every transaction and source by the
proofs.

## Findings

Each is a disagreement of the code with a sentence of the repository's documents; none
breaks a property of the passing runs.

- `wire_reserved`: a witness with a reserved id that is no valid `WitnessLayout` may pass
  the scan, as the lazy `verify` does not descend into every field. The design document says
  that it must fail. `ViewsDisjoint` and `MessageStandsAlone` show what such bytes still keep.
- `signing_framing`: a covered output type is hashed with no length in front, so an
  output with a type and one without it, whose data are chosen, have one preimage. The
  document asks for an injective serialization. `SignaturesBind` proves that this is the one
  ambiguity.
- `minting_base`: a mint action of an OTX may be served by an output of its base, where
  the document says only appended outputs are searched.

## Proofs

The theorems hold for every value of the constants: any set of transactions, so
any length of any list, any number of OTX, segments, seals and actions; any source and
cursors; any chain and any transactions put forward. The assumptions on
constants are `TransactionsAssumption` (transactions have the type of transactions),
`SourceAssumption` (a byte may be zero; buffers fit the cache and a chunk does too),
`WidthAssumption` (64 bits are fewer than 128), `SigningAssumption` (the items, messages, witnesses and resolved
cells are bytes of their formats; fewer than 2^24 segments), `HeightAssumption` (the number of transactions
is one) and `GenesisAssumption` (a chain starts with a list of cells, none of them an order,
a minter or a minted NFT, each with one type script at most and numbers of the width of their
fields).

| module | theorem | states |
|---|---|---|
| `OtxScanProofs` | `ScanInvariant`, `ScanTypeCorrect` | `IInv` is an invariant, and with it `TypeOK` |
| | `ScanTiles` | `Tiling` |
| | `ScanFindsOneRun` | `OtxRun` |
| | `ScanKeepsOrder` | `OrderInv` is an invariant |
| | `ScanAuthorises` | `AppendsAuthorised` |
| | `ScanMerges` | `MergedWindow` |
| | `ScanSumInvariant` | `SumInv` is an invariant: where each piece begins, as a sum |
| | `ScanKeepsPromise` | `ImplementsScanRules`: the refinement of `ScanRules` |
| `LockPlanProofs` | `LockInvariant`, `LockTypeCorrect` | `LockIInv` is an invariant, and with it `LockTypeOK` |
| | `LockAuthorises` | `AuthorisedInputs`: what the lock accepts is signed for, input by input |
| | `LockAsksOnce` | `OneRequirementPerScope`: one requirement for each scope that spends of the group, and no other |
| | `LockGuardRedundant` | `CoverageGuardRedundant` |
| | `LockActionsInvariant` | the actions related so far are those of the messages read |
| | `LockRelatesActions` | `RelatedActionsChecked` |
| | `LockPlannedInvariant` | `PlannedInv` is an invariant: whatever the planner went past was checked |
| | `LockKeepsPromise` | `ImplementsLockRules`: the refinement of `LockRules` |
| `TypePlanProofs` | `PlanInvariant`, `PlanTypeCorrect` | `PlanIInv` is an invariant, and with it `PlanTypeOK` |
| | `PlanChecksMessages` | `MessagesChecked` |
| | `PlanOrdersActions` | `CanonicalOrder` |
| | `PlanQueriesAgree` | `QueriesAgree` |
| | `PlanKeepsPromise` | `ImplementsTypeRules`: the refinement of `TypeRules` |
| `LazySourceProofs` | `CacheInvariant`, `SourceTypeCorrect` | `IInv` is an invariant, and with it `TypeOK` |
| | `CacheIsCoherent`, `HasherIsFedInOrder` | `CacheCoherent`, `FedFront` |
| | `CacheIsTransparent` | `ImplementsUncached`: the refinement of `UncachedSource` |
| `OtxSigningProofs` | `SignaturesBind` | `SignatureBinds`: equal hashes are of equal signed content, if the same outputs have a signed type |
| | `OnlyContentCounts` | `OnlyContentBinds`: a hash depends on nothing else |
| | `SegmentsAcceptedTogether` | `AcceptedTogether` |
| | `MasksAreCanonical` | `MasksCanonical` |
| `LedgerProofs` | `LedgerInvariant` | `LedgerInv` is an invariant |
| | `EscrowIsHeld` | `EscrowHeld` |
| | `SupplyIsCapped` | `SupplyCapped` |
| | `SerialsAreServed` | `SerialsServed` |
| | `NftsAreMintedOnce` | `MintedOnce` |
| | `SupplyIsConserved` | `SupplyConserved` |
| | `OwnersArePaid` | `OwnersPaid` |

The scan. `Tiling` speaks of the end of a scan and is not inductive. `CursorInv` says
it of every moment: the pieces taken so far tile what lies between the OtxStart
position and the cursor. `CollectorInv` ties the collector's three fields together (the last
layout index is the start plus the number of OTX, and the k-th OTX is the k-th
witness behind the start); `CollectedInv` says that, unless the scan was rejected, the
collector has *all* layouts read so far. Each action has a lemma; the two
that take a piece share `TakePieceInv`. Tiling says nothing of *whose* piece it is:
`OrderInv` adds that pieces are taken scope by scope, none left out and none twice, each
of a valid OTX and as long as its view says. From both, `WindowIsPieces`: the base range
and the append range of an OTX, merged, hold the items of its own pieces and no others.

Sums. The rules and the properties add up with `MapThenSumSet`, a fold that takes the elements
in an order the definition chooses. `Sums` shows that the order does not matter: `SumOf` is that
fold with the function as an argument, and its lemmas say that a sum can be split (`SumAdd`,
`SumUnion`), that a part is no more than the whole (`SumPart`), that sums over renamed elements
are equal (`SumRenamed`) and that a sum over rows is a sum of sums (`SumNested`). The induction
over finite sets that these need is there as a fact about a set of good subsets
(`SubsetInduction`, `ElementInduction`), as the library's theorems that take an operator
cannot be used. Each fold of the modules has a lemma that it is a `SumOf`.

The verdict of the scan. `ScanRules` asks whether the counts of all OTX fit behind the
OtxStart; the code moves a cursor, piece by piece, and stops at the first that does not fit.
`CursorSums` says that the cursor of each list is the start plus the sum of the pieces taken
before it. A scan that ends has taken them all, so its last position is the sum the rules have;
one that stops early has a part of it beyond the end already, and a part is no more than the
whole. `VerdictGiven` then is the verdict of the rules, and the other steps stutter.

The lock. `LockIInv` says of every moment of planning: each scope visited so far that holds
an input of the group has its requirement, the tx-level requirement is there when it is
needed, each requirement is justified by an input, no two are for one scope, and the requirements
before `verified` verify. When the script accepts, all scopes are visited and all
requirements verified; an input lies in a piece, whose scope was visited, or outside the aggregate
range, which is what makes the tx-level requirement necessary. The tx-level carrier is the
least input of the group; that it exists is `LeastNatural`, from the well-foundedness of
the naturals. The coverage guard cannot fire, since the requirement it looks for is
already in the plan.

Which actions a plan relates is kept apart from what it requires: at each moment they are
the actions for the lock in the messages of the OTX visited so far, and in the one at tx
level once that is read. Each of these messages was checked on the way, either for the actions
or, at tx level, through the cache; `RelatedActionsChecked` says so of a finished plan.

The type planner. `PlanIInv` says that the OTX before `otx_index` passed their check and that
the related actions are exactly those of the OTX visited, and then of the tx-level message.
For `MessagesChecked`, a cell in a piece of an OTX lies in its base or append range
(`WindowParts`), so the OTX mentions the type script and its message was checked; a cell in no
piece lies outside the aggregate range. For `CanonicalOrder`, the k-th OTX stands at
witness `start + k`, so numbers and witnesses sort alike, and no OTX witness is the
one with the tx-level message. `QueriesAgree` follows from the same description: a reference
names one action of one message, so to find it by number or to list it is the same.

The lazy source. The three properties together are inductive: the cache is what the
source holds, within its bounds, and the hasher was fed the front of its cursor. Each way
out of `read_at` has a lemma that it delivers either the bytes of the window asked for or
an error; the refinement follows, since a call that returns answers with exactly what
the abstract source would.

What is signed. `SigningInv` says of each signature that it was made over a scope of some
transaction and OTX that the readers can deliver, when that scope was the newest, and that all
it relied on were scopes of the same OTX; no change can disturb that, as it says nothing of the
present transaction but its type. What remains is a fact about two preimages. A piece of one is
*framed* (`Framed`) if bytes that begin with it and equal bytes that begin with its counterpart
have equal pieces there: a number or hash by its fixed length, data by the length in front, a
message or a script by being a table. A framed piece behind a framed piece is one
(`FramedThen`), even if which format the second has depends on what the first says, and so are
lists of them behind their count; so a preimage is cut from the front: permissions, then for
each list the count, the mask and the slots. Once the masks are equal, a slot has the same
fields on both sides. A type that is signed but missing leaves no byte behind, and nothing
frames it: hence the condition of `SignatureBinds` on types. What follows the base hash in the
preimage of a segment begins with the number of previous segments or, without coverage, with its
own flags. The fifth byte tells the two apart: in the one it is the flags of a segment that lets
more follow or of the covering segment itself, so not zero; in the other it is the last byte of
a count, which is zero (`CoveringDiffers`). That equal content has equal hashes is the easy
direction, and goes through the definitions piece by piece. From the two of them,
`AcceptedTogether`: if the hash of a segment is that of another OTX's segment, its base hash is
that of the other's base, and with coverage so are the segments in front. `MasksCanonical` is
arithmetic of a byte and its eight bits.

The ledger. None of the promises is inductive, since each contract sees one cell of its own.
`LedgerInv` adds what makes them so: the type of a live cell was taken (`TypesTaken`), an order and a
minter are one live cell each (`LoneCells`), and an NFT's minter has existed (`NftsKnown`).
`LoneCells` is kept because a new cell's type id was never taken and a spent cell is the
only one (`LoneOutput`, `SpentTogether`). Then the escrow of a live order cannot be opened without the order, which
is spent with it (`EscrowKept`). An NFT is new only with its minter on both sides, its serial
between the counters (`MintedFromMinter`); a minter that stands still issues nothing, a new one
has issued nothing, and one that mints moves its counter past what it issues (`CountersKept`). That the
counter moves by a number at all needs finitely many actions: `RelationsFinite`.

`SerialsServed` counts: a minter's counter moves by the number of mint actions, each of which is
served by an output with a serial of its own between the counters, so every serial between
them is (`EverySerialTaken`).

The supply of a UDT is a sum over live cells, which a transaction changes at both ends.
`CellsStorable` says that these are finitely many, with one type script each: without the latter
a cell would count for two. `SpentTotal` and `MadeTotal` carry what the script adds up over its
groups to the cells that disappear and appear; what is untouched counts the same before and after.

`OwnersPaid` needs that no output pays for two orders. Within one OTX the scripts compare the
payments that fills name. Between two OTX no script compares anything: `OutputsApart` shows that an
output lies in the ranges of one OTX, since the start of a scope is a sum over the
scopes before it. So orders map to payments one to one (`OnePayment`), each payment is at least
what its order asks for, and the sum of the payments is a part of what the owner is paid.
That an order is filled by an action of an OTX at all is `LockOrderFilled` and
`TypeOrderFilled`, one for each kind.

The planners and their rules. The rules number the scopes of a transaction and find
where each begins by a sum; the planners walk over pieces that the scan cut with cursors.
`ScriptContextProofs` carries one over to the other: when a scan is complete the pieces are the
scopes (`PieceIsItsScope`, `ScopeIsAPiece`), by `OrderInv` begin and end alike, and by
`CursorSums` lie where the sum says, so an item is in a piece exactly if the rules say
that the scope holds it. A scan that does not complete has the rules' verdict, by
`VerdictGiven`. Messages, seals and targets are the same data on both sides, found by
different ways.

`TypePlan` answers in one step: until then nothing is planned, as in the rules before theirs.
`PlanIInv` says that no OTX gone past failed its check and what is related so far; so a plan
that is made means that no message fails the rules, and one that is refused names a message that
does. A relation to an OTX compares base and append outputs with the cells of the type script, which
`OtxRelatedIs` shows to be the rules' comparison of scopes.

`LockPlan` answers in two: plan, then verify. `LockIInv` says that each requirement
is justified; for the converse `PlannedInv` says what a planner that got this far knows:
each OTX gone past was entered without an error, the tx-level message, once read, is fine, each spending scope gone past has one
seal of the lock and is among the requirements, each requirement is exactly what its
scope asks for, and `has_cobuild_witness_layout` is what the summaries say. So a plan is made
only if nothing that the rules look at is wrong (`AllPlanned`, `LockPlansIs`), and the step that
refuses one has found something that they refuse as well, whichever of several errors comes
first. The requirements of a finished plan are those of the spending scopes and, where it is due, of
the tx level, hence all verify exactly if the rules' signatures are there (`SignedIs`). The
code stops at the first that does not; `FirstError` says that the script ends there.
The other steps stutter.

What the ledger's theorems take from the rules, these two prove of the planners.

Only model-checked: liveness (`CallsReturn`), out of the prover's reach; and the
wire format (`ReadersAgree`, `Canonical`, `LaterFields`, `ViewsAgree`, `ViewsDisjoint`,
`MessageStandsAlone` and `WitnessStandsAlone` of `wire_bytes`), whose modules recurse over schemas, as deep as they nest. All
other invariants and action properties of the passing runs are stated by a theorem.

## Not modelled

- Key recovery: who signed what is given, with the seal.
- `action_hash`, which only a test calls; error codes, of which the models keep
  that there is one and, where it decides something, which.
- The proxy lock of the order type and the chain itself have no source here and are
  modelled from their use. Fees, capacity and time are left out.
- In the generated types: setters of builders, iterators, display, and conversions, which
  hold no decision of their own.
- Lengths of 2^24 bytes and more, and readers that fail in the middle of a hash.
- The test framework and fixtures, `xtask` and the build scripts, which are no part of what is deployed.

## Plan

What remains worth doing, in this order:

1. A property of which owner gets the lower serial when mints at tx level and in an OTX meet
   in one transaction (`mint.rs:99`).
2. A composition of several lock groups over one transaction: all groups accept only if
   every input is signed for by its own lock; a proof of it from `LockAuthorises`.
