------------------------------ MODULE OtxHash ------------------------------
(***************************************************************************)
(* What is signed (hash/mod.rs, hash/writer.rs) and which fields of a base *)
(* scope that takes in (the masks of view.rs).  A digest stands for what   *)
(* it is computed over, with its personalization; every other part of a    *)
(* preimage is the bytes the code feeds to the hasher, in that order.      *)
(*                                                                         *)
(* tx holds the four lists an OTX takes items from, the message of a       *)
(* SighashAll witness (no element or one) and the witnesses.  Messages and *)
(* scripts are the bytes of their tables, out points, cell deps and        *)
(* hashes bytes of a fixed length; an output is a cell with its data, and  *)
(* a cell its capacity, its lock and its type (no element or one).         *)
(***************************************************************************)
EXTENDS Integers, Sequences, SequencesExt

CONSTANT Resolve(_)        \* the cell an out point names, with its data

Dim == {"inputs", "outputs", "cell_deps", "header_deps"}
BITS_PER_CELL == [inputs |-> 2, outputs |-> 4, cell_deps |-> 1, header_deps |-> 1]

(***************************************************************************)
(* Bytes.  Numbers are the four bytes of a u32, least significant first.   *)
(* Bound: nothing in a transaction is as long as SizeLimit, which is far   *)
(* more than a block holds; so their fourth byte is zero.                  *)
(***************************************************************************)
SizeLimit == 16777216
Byte == 0..255
Bytes == {b \in Seq(Byte) : Len(b) < SizeLimit}
Fixed(n) == [1..n -> Byte]
checked_len_prefix(len) == <<len % 256, (len \div 256) % 256, (len \div 65536) % 256, 0>>

\* A table begins with its length.
Tables == {b \in Bytes : Len(b) >= 4 /\ SubSeq(b, 1, 4) = checked_len_prefix(Len(b))}
OptBytes(opt) == IF opt = <<>> THEN <<>> ELSE opt[1]

\* entity/blockchain.rs, CellOutputBuilder::write: where each field starts, and the fields.
CellSize(cell) == 24 + Len(cell[2]) + Len(OptBytes(cell[3]))
CellOutput(cell) ==
  checked_len_prefix(CellSize(cell))
    \o checked_len_prefix(16) \o checked_len_prefix(24)
    \o checked_len_prefix(24 + Len(cell[2]))
    \o cell[1] \o cell[2] \o OptBytes(cell[3])

Cells == {c \in Fixed(8) \X Tables \X {s \in Seq(Tables) : Len(s) <= 1} :
            CellSize(c) < SizeLimit}
ItemsOf(d) ==
  CASE d = "inputs" -> Fixed(8) \X Fixed(36)
    [] d = "outputs" -> [cell : Cells, data : Bytes]
    [] d = "cell_deps" -> Fixed(37)
    [] d = "header_deps" -> Fixed(32)

(***************************************************************************)
(* view.rs: MaskView.                                                      *)
(***************************************************************************)
Get(mask, index) == (mask[index \div 8 + 1] \div 2^(index % 8)) % 2 = 1

\* Fault: bits of no field may be set.
Validate_AnyPadding(mask, bit_count) == Len(mask) = (bit_count + 7) \div 8
Validate(mask, bit_count) ==
  /\ Len(mask) = (bit_count + 7) \div 8
  /\ bit_count % 8 # 0 => mask[Len(mask)] < 2^(bit_count % 8)

\* base_input_mask_bit, base_output_mask_bit; a dependency has one bit.
Includes(otx, d, slot, field) ==
  Get(otx.masks[d], slot * BITS_PER_CELL[d] + field)

(***************************************************************************)
(* layout.rs: an OTX takes the items of its base and then those of each    *)
(* append segment from each list, from its start on.  A scope is hashed    *)
(* only of an OTX whose layout was built.                                  *)
(***************************************************************************)
AllowsMore(flags) == flags % 2 = 1
CoversPrevious(flags) == (flags \div 2) % 2 = 1
Permits(permissions, d) ==
  LET bit == CASE d = "inputs" -> 1
               [] d = "outputs" -> 2
               [] d = "cell_deps" -> 4
               [] d = "header_deps" -> 8
  IN  (permissions \div bit) % 2 = 1

Taken(otx, s, d) ==
  otx.start[d] + otx.base[d] + MapThenSumSet(LAMBDA j : otx.segments[j].counts[d], 1..s)
BaseItems(tx, otx, d) == SubSeq(tx.lists[d], otx.start[d] + 1, Taken(otx, 0, d))
SegmentItems(tx, otx, s, d) ==
  SubSeq(tx.lists[d], Taken(otx, s - 1, d) + 1, Taken(otx, s, d))

\* validate_otx_view and ensure_within.
Valid(tx, otx) ==
  /\ otx.base["inputs"] > 0
  /\ otx.append_permissions < 16
  /\ \A s \in DOMAIN otx.segments :
       /\ otx.segments[s].flags < 4
       /\ s < Len(otx.segments) => AllowsMore(otx.segments[s].flags)
       /\ \A d \in Dim :
            otx.segments[s].counts[d] > 0 => Permits(otx.append_permissions, d)
  /\ \A d \in Dim : Validate(otx.masks[d], otx.base[d] * BITS_PER_CELL[d])
  /\ \A d \in Dim : Taken(otx, Len(otx.segments), d) <= Len(tx.lists[d])

(***************************************************************************)
(* hash/writer.rs, and the defaults of what is not signed.                 *)
(***************************************************************************)
Zeros(n) == [i \in 1..n |-> 0]
LenPrefixed(data) == checked_len_prefix(Len(data)) \o data
default_script ==
  <<53, 0, 0, 0, 16, 0, 0, 0, 48, 0, 0, 0, 49, 0, 0, 0>> \o Zeros(37)

\* Each slot behind its index in the scope.
\* Fault: behind its index in the transaction.
Slots_TxIndex(start, slots) ==
  FlattenSeq([i \in DOMAIN slots |-> checked_len_prefix(start + i - 1) \o slots[i]])
Slots(start, slots) ==
  FlattenSeq([i \in DOMAIN slots |-> checked_len_prefix(i - 1) \o slots[i]])

Resolved(input) ==
  CellOutput(Resolve(input[2]).output) \o LenPrefixed(Resolve(input[2]).data)

(***************************************************************************)
(* otx_base_hash.                                                          *)
(***************************************************************************)
\* Fault: an input is known by its out point alone.
BaseInput_PointOnly(otx, slot, input) ==
  (IF Includes(otx, "inputs", slot, 0) THEN input[1] ELSE Zeros(8))
    \o (IF Includes(otx, "inputs", slot, 1) THEN input[2] ELSE Zeros(36))
BaseInput(otx, slot, input) ==
  (IF Includes(otx, "inputs", slot, 0) THEN input[1] ELSE Zeros(8))
    \o (IF Includes(otx, "inputs", slot, 1) THEN input[2] ELSE Zeros(36))
    \o Resolved(input)

BaseOutput(otx, slot, output) ==
  (IF Includes(otx, "outputs", slot, 0) THEN output.cell[1] ELSE Zeros(8))
    \o (IF Includes(otx, "outputs", slot, 1) THEN output.cell[2] ELSE default_script)
    \o (IF Includes(otx, "outputs", slot, 2) THEN OptBytes(output.cell[3]) ELSE <<>>)
    \o LenPrefixed(IF Includes(otx, "outputs", slot, 3) THEN output.data ELSE <<>>)

BaseCellDep(otx, slot, dep) ==
  IF Includes(otx, "cell_deps", slot, 0) THEN dep ELSE Zeros(37)
BaseHeaderDep(otx, slot, dep) ==
  IF Includes(otx, "header_deps", slot, 0) THEN dep ELSE Zeros(32)

BaseSlot(otx, d, slot, item) ==
  CASE d = "inputs" -> BaseInput(otx, slot, item)
    [] d = "outputs" -> BaseOutput(otx, slot, item)
    [] d = "cell_deps" -> BaseCellDep(otx, slot, item)
    [] d = "header_deps" -> BaseHeaderDep(otx, slot, item)
BaseSlots(tx, otx, d) ==
  LET items == BaseItems(tx, otx, d)
  IN  [i \in DOMAIN items |-> BaseSlot(otx, d, i - 1, items[i])]
BaseList(tx, otx, d) ==
  checked_len_prefix(otx.base[d]) \o LenPrefixed(otx.masks[d])
    \o Slots(otx.start[d], BaseSlots(tx, otx, d))

OtxBaseHash(tx, otx) ==
  [personal |-> "ckbcb_otb_core1",
   preimage |-> otx.message \o <<otx.append_permissions>>
                  \o BaseList(tx, otx, "inputs")
                  \o BaseList(tx, otx, "outputs")
                  \o BaseList(tx, otx, "cell_deps")
                  \o BaseList(tx, otx, "header_deps")]

(***************************************************************************)
(* otx_append_segment_hash.                                                *)
(***************************************************************************)
SegmentSlot(d, item) ==
  CASE d = "inputs" -> item[1] \o item[2] \o Resolved(item)
    [] d = "outputs" -> CellOutput(item.cell) \o LenPrefixed(item.data)
    [] OTHER -> item
SegmentSlots(tx, otx, s, d) ==
  LET items == SegmentItems(tx, otx, s, d)
  IN  [i \in DOMAIN items |-> SegmentSlot(d, items[i])]
SegmentList(tx, otx, s, d) ==
  checked_len_prefix(otx.segments[s].counts[d])
    \o Slots(Taken(otx, s - 1, d), SegmentSlots(tx, otx, s, d))

SegmentEntities(tx, otx, s) ==
  SegmentList(tx, otx, s, "inputs")
    \o SegmentList(tx, otx, s, "outputs")
    \o SegmentList(tx, otx, s, "cell_deps")
    \o SegmentList(tx, otx, s, "header_deps")

SegmentBytes(tx, otx, s) == <<otx.segments[s].flags>> \o SegmentEntities(tx, otx, s)

\* Fault: the flags of a previous segment are taken for its own affair.
PreviousSegments_NoFlags(tx, otx, s) ==
  IF CoversPrevious(otx.segments[s].flags)
  THEN checked_len_prefix(s - 1)
         \o FlattenSeq([p \in 1..(s - 1) |-> SegmentEntities(tx, otx, p)])
  ELSE <<>>
PreviousSegments(tx, otx, s) ==
  IF CoversPrevious(otx.segments[s].flags)
  THEN checked_len_prefix(s - 1)
         \o FlattenSeq([p \in 1..(s - 1) |-> SegmentBytes(tx, otx, p)])
  ELSE <<>>

OtxAppendSegmentHash(tx, otx, s) ==
  [personal |-> "ckbcb_ots_core1",
   base_hash |-> OtxBaseHash(tx, otx),
   preimage |-> PreviousSegments(tx, otx, s) \o SegmentBytes(tx, otx, s)]

(***************************************************************************)
(* tx_signing_hash.  The transaction hash is over the four lists.          *)
(***************************************************************************)
ExtraWitnesses(tx) == SubSeq(tx.witnesses, Len(tx.lists["inputs"]) + 1, Len(tx.witnesses))
TxSigningHash(tx) ==
  [personal |-> IF tx.message = <<>> THEN "ckbcb_tnm_core1" ELSE "ckbcb_twm_core1",
   message |-> OptBytes(tx.message),
   tx_hash |-> tx.lists,
   preimage |-> FlattenSeq([i \in DOMAIN tx.lists["inputs"] |-> Resolved(tx.lists["inputs"][i])])
                  \o FlattenSeq([i \in DOMAIN ExtraWitnesses(tx) |->
                                   LenPrefixed(ExtraWitnesses(tx)[i])])]
=============================================================================
