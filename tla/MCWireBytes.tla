---------------------------- MODULE MCWireBytes ----------------------------
EXTENDS WitnessViews

\* Bound: bytes short enough for every pair of edits.
CONSTANT ShortLen

MCEdits(n) == IF n <= ShortLen THEN 2 ELSE 1
MCTweaks(b) == ({0, b - 1, b + 1, b + 4} \cap (0..255)) \ {b}

Rep(b, n) == [i \in 1..n |-> b]
hash == Rep(7, 32)
u32(n) == <<n, 0, 0, 0>>
u64(n) == u32(n) \o u32(0)

script == <<hash, 1, <<5, 6>>>>
outPoint == <<hash, u32(3)>>
cellInput == <<u64(9), outPoint>>
cellOutput == <<u64(8), script, <<>>>>
typedOutput == <<u64(8), <<hash, 0, <<>>>>, <<script>>>>
cellDep == <<outPoint, 1>>
rawTransaction ==
  <<u32(0), <<cellDep>>, <<hash>>, <<cellInput>>, <<cellOutput>>, <<<<4>>>>>>
transaction == <<rawTransaction, <<<<>>, <<2, 3>>>>>>
emptyTransaction == <<<<u32(0), <<>>, <<>>, <<>>, <<>>, <<>>>>, <<>>>>
rawHeader ==
  <<u32(1), u32(2), u64(3), u64(4), u64(5), hash, hash, hash, hash, hash>>
header == <<rawHeader, Rep(1, 16)>>
proposals == <<Rep(4, 10)>>
uncle == <<header, proposals>>

Sample(entity, lazy, value) == [entity |-> entity, lazy |-> lazy, value |-> value]

action == <<hash, 2, hash, <<1, 2>>>>
seal(n) == <<hash, Rep(n, n)>>
segment == <<1, u32(0), u32(1), u32(0), u32(0), <<seal(2), seal(1)>>>>
bareSegment == <<0, u32(0), u32(0), u32(0), u32(0), <<>>>>
otx(message, segments, seals) ==
  <<message, 3, u32(1), <<3>>, u32(2), <<9>>, u32(0), <<>>, u32(1), <<1>>,
    segments, seals>>
Layout(k, value) == Sample(E!WitnessLayout, L!WitnessLayout, <<E!CobuildId(k), value>>)

\* Types of blockchain.rs and core.rs, with and without content where it matters.
TypeSamples ==
  {Sample(E!Uint64, L!Uint64, u64(1)), Sample(E!Uint256, L!Uint256, hash),
   Sample(E!Bytes, L!Bytes, <<>>), Sample(E!Bytes, L!Bytes, <<1, 2, 3>>),
   Sample(E!BytesOptVec, L!BytesOptVec, <<>>),
   Sample(E!BytesOptVec, L!BytesOptVec, <<<<>>, <<<<1, 2>>>>, <<<<>>>>>>),
   Sample(E!BytesVec, L!BytesVec, <<<<1>>, <<>>>>),
   Sample(E!Byte32Vec, L!Byte32Vec, <<hash, hash>>),
   Sample(E!WitnessArgs, L!WitnessArgs, <<<<>>, <<>>, <<>>>>),
   Sample(E!WitnessArgs, L!WitnessArgs, <<<<<<1, 2>>>>, <<>>, <<<<>>>>>>),
   Sample(E!Script, L!Script, script),
   Sample(E!CellInputVec, L!CellInputVec, <<cellInput>>),
   Sample(E!CellOutput, L!CellOutput, typedOutput),
   Sample(E!CellOutputVec, L!CellOutputVec, <<cellOutput, typedOutput>>),
   Sample(E!CellDepVec, L!CellDepVec, <<cellDep, cellDep>>),
   Sample(E!ProposalShortIdVec, L!ProposalShortIdVec, proposals),
   Sample(E!CellbaseWitness, L!CellbaseWitness, <<script, <<1>>>>),
   Sample(E!Transaction, L!Transaction, emptyTransaction),
   Sample(E!Transaction, L!Transaction, transaction),
   Sample(E!UncleBlock, L!UncleBlock, uncle),
   Sample(E!Block, L!Block, <<header, <<>>, <<emptyTransaction>>, <<>>>>),
   Sample(E!BlockV1, L!BlockV1,
          <<header, <<uncle>>, <<>>, proposals, <<1>>>>),
   Sample(E!LockSeal, L!LockSeal, seal(1)),
   Sample(E!SighashAllOnly, L!SighashAllOnly, <<<<1>>>>),
   Sample(E!SighashAll, L!SighashAll, <<<<>>, <<<<action>>>>>>),
   Sample(E!OtxAppendSegmentVec, L!OtxAppendSegmentVec, <<segment, bareSegment>>),
   Sample(E!Otx, L!Otx, otx(<<<<>>>>, <<bareSegment>>, <<seal(1)>>))}

\* Each layout, the vectors in it empty and not.
WitnessSamples ==
  {Layout(1, <<<<>>, <<<<>>>>>>), Layout(1, <<<<8, 9>>, <<<<action, action>>>>>>),
   Layout(2, <<<<>>>>), Layout(2, <<<<5, 6, 7>>>>),
   Layout(3, otx(<<<<>>>>, <<>>, <<>>)),
   Layout(3, otx(<<<<action>>>>, <<segment, bareSegment>>, <<seal(3)>>)),
   Layout(4, <<u32(0), u32(1), u32(0), u32(2)>>)}

WireSamples == TypeSamples \cup WitnessSamples

\* Numbers that fit where a read behind a witness would look for one.
NextWitness == u32(8) \o u32(8) \o u32(0)
=============================================================================
