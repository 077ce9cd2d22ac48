------------------------------ MODULE Molecule ------------------------------
(***************************************************************************)
(* The molecule wire format as the generated entities write, verify and    *)
(* read it (entity/*.rs).  The generator emits one copy of these few       *)
(* algorithms per type; here a type is a schema and each algorithm is      *)
(* written once over schemas.                                              *)
(*                                                                         *)
(* A value is a byte, a sequence of the values of its items or fields, an  *)
(* option <<>> or <<v>>, or a union <<id, v>>.  Bytes are sequences of     *)
(* numbers below 256.                                                      *)
(***************************************************************************)
EXTENDS Integers, Sequences
LOCAL INSTANCE SequencesExt

Byte == [kind |-> "byte"]
\* Arrays are of bytes, here as in the schemas.
Array(n) == [kind |-> "array", n |-> n]
Struct(fields) == [kind |-> "struct", fields |-> fields]
FixVec(item) == [kind |-> "fixvec", item |-> item]
DynVec(item) == [kind |-> "dynvec", item |-> item]
Table(fields) == [kind |-> "table", fields |-> fields]
Option(item) == [kind |-> "option", item |-> item]
\* A variant is an id, as the four bytes of its number, and a type.
Union(variants) == [kind |-> "union", variants |-> variants]

NUMBER_SIZE == 4
\* Bound: numbers of 2^30 and more count as one, far behind the end of any
\* byte string here.
Huge == 1073741824
unpack_number(bytes) ==
  IF bytes[4] >= 64 THEN Huge
  ELSE bytes[1] + 256 * bytes[2] + 65536 * bytes[3] + 16777216 * bytes[4]
pack_number(n) == <<n % 256, (n \div 256) % 256, (n \div 65536) % 256, 0>>

\* The sequence itself; it has TLC work out each item once.
Items(s) == SubSeq(s, 1, Len(s))

NumberAt(bytes, at) == unpack_number(SubSeq(bytes, at + 1, at + NUMBER_SIZE))
Part(bytes, start, end) == SubSeq(bytes, start + 1, end)

RECURSIVE FixedSize(_)
FixedSize(type) ==
  CASE type.kind = "byte" -> 1
    [] type.kind = "array" -> type.n
    [] type.kind = "struct" ->
         FoldLeft(LAMBDA n, field : n + FixedSize(field), 0, type.fields)

ItemType(type, i) == IF "fields" \in DOMAIN type THEN type.fields[i] ELSE type.item

(***************************************************************************)
(* Builder::write.                                                         *)
(***************************************************************************)
\* Where each part starts behind a header of n numbers, and where the last ends.
PartOffsets(parts) ==
  LET offset[i \in 1..(Len(parts) + 1)] ==
        IF i = 1 THEN NUMBER_SIZE * (Len(parts) + 1)
        ELSE offset[i - 1] + Len(parts[i - 1])
  IN  Items(offset)

WithOffsets(parts) ==
  LET offsets == PartOffsets(parts)
  IN  pack_number(offsets[Len(parts) + 1])
        \o FlattenSeq([i \in 1..Len(parts) |-> pack_number(offsets[i])])
        \o FlattenSeq(parts)

RECURSIVE Encode(_, _)
EncodeParts(type, v) == Items([i \in 1..Len(v) |-> Encode(ItemType(type, i), v[i])])
Encode(type, v) ==
  CASE type.kind = "byte" -> <<v>>
    [] type.kind = "array" -> v
    [] type.kind = "struct" -> FlattenSeq(EncodeParts(type, v))
    [] type.kind = "fixvec" ->
         pack_number(Len(v)) \o FlattenSeq(EncodeParts(type, v))
    [] type.kind = "dynvec" ->
         IF v = <<>> THEN pack_number(NUMBER_SIZE)
         ELSE WithOffsets(EncodeParts(type, v))
    [] type.kind = "table" -> WithOffsets(EncodeParts(type, v))
    [] type.kind = "option" -> FlattenSeq(EncodeParts(type, v))
    [] type.kind = "union" ->
         LET variant == SelectSeq(type.variants, LAMBDA x : x.id = v[1])[1]
         IN  variant.id \o Encode(variant.type, v[2])

\* A table of a later schema: the same fields and one more behind them.
EncodeExtended(type, v, extra) == WithOffsets(EncodeParts(type, v) \o <<extra>>)

(***************************************************************************)
(* Reader::verify.  The checks come in the order of the code: a later one  *)
(* may index bytes an earlier one has found to be there.                   *)
(***************************************************************************)
Offsets(bytes) ==
  LET first == NumberAt(bytes, NUMBER_SIZE)
  IN  Append([i \in 1..(first \div NUMBER_SIZE - 1) |-> NumberAt(bytes, NUMBER_SIZE * i)],
             Len(bytes))
Ordered(offsets) == \A i \in 1..(Len(offsets) - 1) : offsets[i] <= offsets[i + 1]

HasOffsets(bytes) ==
  /\ Len(bytes) >= 2 * NUMBER_SIZE
  /\ NumberAt(bytes, NUMBER_SIZE) % NUMBER_SIZE = 0
  /\ NumberAt(bytes, NUMBER_SIZE) >= 2 * NUMBER_SIZE
  /\ Len(bytes) >= NumberAt(bytes, NUMBER_SIZE)
  /\ Ordered(Offsets(bytes))

RECURSIVE Verify(_, _, _)
VerifyParts(type, bytes, count, compatible) ==
  LET offsets == Offsets(bytes)
  IN  \A i \in 1..count :
        Verify(ItemType(type, i), Part(bytes, offsets[i], offsets[i + 1]), compatible)
HasNumber(bytes) == Len(bytes) >= NUMBER_SIZE
TotalSizeMatches(bytes) == HasNumber(bytes) /\ NumberAt(bytes, 0) = Len(bytes)
\* Fault: fields of a later schema pass unseen.
FieldCountMatches_AtLeast(type, count, compatible) == count >= Len(type.fields)
FieldCountMatches(type, count, compatible) ==
  IF compatible THEN count >= Len(type.fields) ELSE count = Len(type.fields)

Verify(type, bytes, compatible) ==
  CASE type.kind \in {"byte", "array", "struct"} -> Len(bytes) = FixedSize(type)
    [] type.kind = "fixvec" ->
         /\ HasNumber(bytes)
         /\ NumberAt(bytes, 0) <= Len(bytes)
         /\ Len(bytes) = NUMBER_SIZE + FixedSize(type.item) * NumberAt(bytes, 0)
    [] type.kind = "dynvec" ->
         /\ TotalSizeMatches(bytes)
         /\ Len(bytes) # NUMBER_SIZE =>
              /\ HasOffsets(bytes)
              /\ VerifyParts(type, bytes, Len(Offsets(bytes)) - 1, compatible)
    [] type.kind = "table" ->
         /\ TotalSizeMatches(bytes)
         /\ HasOffsets(bytes)
         /\ FieldCountMatches(type, Len(Offsets(bytes)) - 1, compatible)
         /\ VerifyParts(type, bytes, Len(type.fields), compatible)
    [] type.kind = "option" -> bytes # <<>> => Verify(type.item, bytes, compatible)
    [] type.kind = "union" ->
         /\ HasNumber(bytes)
         /\ \E i \in 1..Len(type.variants) :
              /\ type.variants[i].id = Part(bytes, 0, NUMBER_SIZE)
              /\ Verify(type.variants[i].type, Part(bytes, NUMBER_SIZE, Len(bytes)),
                        compatible)

(***************************************************************************)
(* What the accessors of an entity return, all the way down.  They do not  *)
(* check anything: verify has.                                             *)
(***************************************************************************)
RECURSIVE Decode(_, _)
DecodeFixed(type, bytes, start, i) ==
  Decode(ItemType(type, i), Part(bytes, start, start + FixedSize(ItemType(type, i))))
DecodeParts(type, bytes, count) ==
  LET offsets == Offsets(bytes)
  IN  Items([i \in 1..count |->
               Decode(ItemType(type, i), Part(bytes, offsets[i], offsets[i + 1]))])
Decode(type, bytes) ==
  CASE type.kind = "byte" -> bytes[1]
    [] type.kind = "array" -> bytes
    [] type.kind = "struct" ->
         Items([i \in 1..Len(type.fields) |->
                  DecodeFixed(type, bytes,
                              FixedSize(Struct(SubSeq(type.fields, 1, i - 1))), i)])
    [] type.kind = "fixvec" ->
         Items([i \in 1..NumberAt(bytes, 0) |->
                  DecodeFixed(type, bytes, NUMBER_SIZE + (i - 1) * FixedSize(type.item), i)])
    [] type.kind = "dynvec" ->
         IF Len(bytes) = NUMBER_SIZE THEN <<>>
         ELSE DecodeParts(type, bytes, Len(Offsets(bytes)) - 1)
    [] type.kind = "table" -> DecodeParts(type, bytes, Len(type.fields))
    [] type.kind = "option" -> IF bytes = <<>> THEN <<>> ELSE <<Decode(type.item, bytes)>>
    [] type.kind = "union" ->
         LET variant == SelectSeq(type.variants,
                                  LAMBDA x : x.id = Part(bytes, 0, NUMBER_SIZE))[1]
         IN  <<variant.id, Decode(variant.type, Part(bytes, NUMBER_SIZE, Len(bytes)))>>
=============================================================================
