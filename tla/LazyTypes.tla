----------------------------- MODULE LazyTypes -----------------------------
(***************************************************************************)
(* The types of the lazy reader (lazy_reader/blockchain.rs, core.rs,       *)
(* witness.rs): how each accessor takes its field, and which fields the    *)
(* verify of the type descends into.                                       *)
(***************************************************************************)
EXTENDS LazyMolecule

Uint32 == LazyNumber(4)
Uint64 == LazyNumber(8)
Uint128 == LazyArray(16)
Byte32 == LazyArray(32)
Uint256 == LazyArray(32)
Bytes == LazyRaw
BytesOpt == LazyOption(Bytes)
BytesOptVec == LazyDynVec(BytesOpt, FALSE)
BytesVec == LazyDynVec(Bytes, FALSE)
Byte32Vec == LazyFixVec(Byte32)

Script == LazyTable(<<Byte32, LazyByte, Bytes>>, {1})
ScriptOpt == LazyOption(Script)
OutPoint == LazyStruct(<<Byte32, Uint32>>, {1})
CellInput == LazyStruct(<<Uint64, OutPoint>>, {2})
CellOutput == LazyTable(<<Uint64, Script, ScriptOpt>>, {2, 3})
CellDep == LazyStruct(<<OutPoint, LazyByte>>, {1})
CellDepVec == LazyFixVec(CellDep)
CellInputVec == LazyFixVec(CellInput)
CellOutputVec == LazyDynVec(CellOutput, TRUE)
RawTransaction ==
  LazyTable(<<Uint32, CellDepVec, Byte32Vec, CellInputVec, CellOutputVec, BytesVec>>,
            {5, 6})
Transaction == LazyTable(<<RawTransaction, BytesVec>>, {1, 2})
TransactionVec == LazyDynVec(Transaction, TRUE)

ProposalShortId == LazyArray(10)
ProposalShortIdVec == LazyFixVec(ProposalShortId)
RawHeader ==
  LazyStruct(<<Uint32, Uint32, Uint64, Uint64, Uint64,
               Byte32, Byte32, Byte32, Byte32, Byte32>>, 6..10)
Header == LazyStruct(<<RawHeader, Uint128>>, {1, 2})
UncleBlock == LazyTable(<<Header, ProposalShortIdVec>>, {1})
UncleBlockVec == LazyDynVec(UncleBlock, TRUE)
Block ==
  LazyTable(<<Header, UncleBlockVec, TransactionVec, ProposalShortIdVec>>, 1..3)
BlockV1 ==
  LazyTable(<<Header, UncleBlockVec, TransactionVec, ProposalShortIdVec, Bytes>>, 1..3)
CellbaseWitness == LazyTable(<<Script, Bytes>>, {1})
WitnessArgs == LazyTable(<<BytesOpt, BytesOpt, BytesOpt>>, {})

Action == LazyTable(<<Byte32, LazyByte, Byte32, Bytes>>, {1, 3})
ActionVec == LazyDynVec(Action, TRUE)
Message == LazyTable(<<ActionVec>>, {1})
SighashAll == LazyTable(<<Bytes, Message>>, {2})
SighashAllOnly == LazyTable(<<Bytes>>, {})
LockSeal == LazyTable(<<Byte32, Bytes>>, {1})
LockSealVec == LazyDynVec(LockSeal, TRUE)
OtxAppendSegment ==
  LazyTable(<<LazyByte, Uint32, Uint32, Uint32, Uint32, LockSealVec>>, {6})
OtxAppendSegmentVec == LazyDynVec(OtxAppendSegment, TRUE)
OtxStart == LazyTable(<<Uint32, Uint32, Uint32, Uint32>>, {})
Otx ==
  LazyTable(<<Message, LazyByte, Uint32, Bytes, Uint32, Bytes, Uint32, Bytes, Uint32,
              Bytes, OtxAppendSegmentVec, LockSealVec>>, {1, 11, 12})

CobuildId(k) == <<k, 0, 0, 255>>
WitnessLayout ==
  LazyUnion(<<[id |-> CobuildId(1), type |-> SighashAll],
              [id |-> CobuildId(2), type |-> SighashAllOnly],
              [id |-> CobuildId(3), type |-> Otx],
              [id |-> CobuildId(4), type |-> OtxStart]>>)
=============================================================================
