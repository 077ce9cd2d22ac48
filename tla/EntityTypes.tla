---------------------------- MODULE EntityTypes ----------------------------
(***************************************************************************)
(* The types of the generated entities (entity/blockchain.rs, core.rs,     *)
(* witness.rs) as schemas of Molecule, each as its own Reader verifies it. *)
(***************************************************************************)
EXTENDS Molecule

Bits(n) == Array(n \div 8)

Uint32 == Bits(32)
Uint64 == Bits(64)
Uint128 == Bits(128)
Byte32 == Array(32)
Uint256 == Bits(256)
Bytes == FixVec(Byte)
BytesOpt == Option(Bytes)
BytesOptVec == DynVec(BytesOpt)
BytesVec == DynVec(Bytes)
Byte32Vec == FixVec(Byte32)

Script == Table(<<Byte32, Byte, Bytes>>)
ScriptOpt == Option(Script)
OutPoint == Struct(<<Byte32, Uint32>>)
CellInput == Struct(<<Uint64, OutPoint>>)
CellOutput == Table(<<Uint64, Script, ScriptOpt>>)
CellDep == Struct(<<OutPoint, Byte>>)
CellDepVec == FixVec(CellDep)
CellInputVec == FixVec(CellInput)
CellOutputVec == DynVec(CellOutput)
RawTransaction ==
  Table(<<Uint32, CellDepVec, Byte32Vec, CellInputVec, CellOutputVec, BytesVec>>)
Transaction == Table(<<RawTransaction, BytesVec>>)
TransactionVec == DynVec(Transaction)

ProposalShortId == Array(10)
ProposalShortIdVec == FixVec(ProposalShortId)
RawHeader ==
  Struct(<<Uint32, Uint32, Uint64, Uint64, Uint64,
           Byte32, Byte32, Byte32, Byte32, Byte32>>)
Header == Struct(<<RawHeader, Uint128>>)
UncleBlock == Table(<<Header, ProposalShortIdVec>>)
UncleBlockVec == DynVec(UncleBlock)
Block == Table(<<Header, UncleBlockVec, TransactionVec, ProposalShortIdVec>>)
BlockV1 ==
  Table(<<Header, UncleBlockVec, TransactionVec, ProposalShortIdVec, Bytes>>)
CellbaseWitness == Table(<<Script, Bytes>>)
WitnessArgs == Table(<<BytesOpt, BytesOpt, BytesOpt>>)

Action == Table(<<Byte32, Byte, Byte32, Bytes>>)
ActionVec == DynVec(Action)
Message == Table(<<ActionVec>>)
SighashAll == Table(<<Bytes, Message>>)
SighashAllOnly == Table(<<Bytes>>)
LockSeal == Table(<<Byte32, Bytes>>)
LockSealVec == DynVec(LockSeal)
OtxAppendSegment == Table(<<Byte, Uint32, Uint32, Uint32, Uint32, LockSealVec>>)
OtxAppendSegmentVec == DynVec(OtxAppendSegment)
OtxStart == Table(<<Uint32, Uint32, Uint32, Uint32>>)
Otx ==
  Table(<<Message, Byte, Uint32, Bytes, Uint32, Bytes, Uint32, Bytes, Uint32,
          Bytes, OtxAppendSegmentVec, LockSealVec>>)

\* 0xff000001 and the three ids behind it, as their bytes are written.
CobuildId(k) == <<k, 0, 0, 255>>
WitnessLayout ==
  Union(<<[id |-> CobuildId(1), type |-> SighashAll],
          [id |-> CobuildId(2), type |-> SighashAllOnly],
          [id |-> CobuildId(3), type |-> Otx],
          [id |-> CobuildId(4), type |-> OtxStart]>>)
=============================================================================
