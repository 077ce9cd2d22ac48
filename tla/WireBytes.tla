----------------------------- MODULE WireBytes -----------------------------
(***************************************************************************)
(* Bytes on their way from a writer to the readers.  The writer builds an  *)
(* entity of some type; whoever passes the bytes on may change, cut, add   *)
(* to them, or write a field of a later schema behind the ones of a table; *)
(* then the entity reader and the lazy reader each verify them and read.   *)
(***************************************************************************)
EXTENDS Molecule
LOCAL INSTANCE LazyMolecule

CONSTANTS
  Samples,                 \* what is written: [entity, lazy, value]
  Edits(_),                \* bound: edits made of so many bytes
  Tweaks(_)                \* bound: what a byte is overwritten with

VARIABLES sample, bytes, edits

wireVars == <<sample, bytes, edits>>

WireInit ==
  /\ sample \in Samples
  /\ bytes = Encode(sample.entity, sample.value)
  /\ edits = 0

Edit(new) ==
  /\ edits < Edits(Len(bytes))
  /\ bytes' = new
  /\ edits' = edits + 1
  /\ UNCHANGED sample

Overwrite == \E i \in 1..Len(bytes) : \E b \in Tweaks(bytes[i]) :
  Edit([bytes EXCEPT ![i] = b])
CutShort == bytes # <<>> /\ Edit(SubSeq(bytes, 1, Len(bytes) - 1))
AddByte == Edit(Append(bytes, 0))
\* What a program built on a later schema writes.
Extended == EncodeExtended(sample.entity, sample.value, <<0>>)
AddField ==
  /\ sample.entity.kind = "table"
  /\ edits = 0
  /\ Edit(Extended)

WireNext == Overwrite \/ CutShort \/ AddByte \/ AddField
WireSpec == WireInit /\ [][WireNext]_wireVars

Strict(data) == Verify(sample.entity, data, FALSE)
Lazily(data, compatible) == LazyVerify(sample.lazy, data, Whole(data), compatible)
ReadLazily(data) == LazyRead(sample.lazy, data, Whole(data))

(***************************************************************************)
(* Properties.                                                             *)
(***************************************************************************)
\* Two readers, one meaning: what the entity reader verifies the lazy reader
\* verifies too, and every accessor of it returns the same value (entity/*.rs
\* against lazy_reader/*.rs, which share no code).
ReadersAgree ==
  Strict(bytes) =>
    /\ Lazily(bytes, FALSE)
    /\ ReadLazily(bytes) = {Decode(sample.entity, bytes)}

\* A value has one encoding: verified bytes are those its builder writes, so
\* two parties who hash the same value hash the same bytes.
Canonical ==
  Strict(bytes) => Encode(sample.entity, Decode(sample.entity, bytes)) = bytes

\* A field of a later schema is let through by both readers in the compatible
\* mode and by neither in the strict one; either way the known fields stand.
LaterFields ==
  (sample.entity.kind = "table" /\ bytes = Extended) =>
    /\ Verify(sample.entity, bytes, TRUE) /\ ~Verify(sample.entity, bytes, FALSE)
    /\ Lazily(bytes, TRUE) /\ ~Lazily(bytes, FALSE)
    /\ ReadLazily(bytes) = {Decode(sample.entity, bytes)}
    /\ Decode(sample.entity, bytes) = sample.value
=============================================================================
