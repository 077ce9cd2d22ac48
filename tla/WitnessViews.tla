---------------------------- MODULE WitnessViews ----------------------------
(***************************************************************************)
(* What the scripts make of the bytes of one witness (witness.rs,          *)
(* view.rs): empty, legacy, rejected, or a view of its layout, whose seals *)
(* and messages are cursors into the witness.  Results that may fail are   *)
(* sets, as in LazyMolecule.                                               *)
(*                                                                         *)
(* A witness is a cursor into the source of the whole transaction          *)
(* (syscalls.rs, witness_cursor): a read that leaves it meets the bytes    *)
(* that follow it, and is not stopped by the end of the source.            *)
(***************************************************************************)
EXTENDS WireBytes
LOCAL INSTANCE LazyMolecule
LOCAL INSTANCE SequencesExt

CONSTANT Behind            \* bound: the bytes that follow a witness

L == INSTANCE LazyTypes
E == INSTANCE EntityTypes

CursorBytes(data, cur) == ReadAt(data, cur, cur.size)

RawField(type, data, cur, i) ==
  UNION {RawBytes(data, part) : part \in Field(type, data, cur, i)}
ValueField(type, data, cur, i) ==
  ReadPart(type.fields[i], data, Field(type, data, cur, i))
BytesField(type, data, cur, i) ==
  UNION {CursorBytes(data, raw) : raw \in RawField(type, data, cur, i)}

\* One view for each item of a vector.
EachItem(data, parts, View(_, _)) ==
  UNION {UNION {EachOf([i \in 1..count |->
                          UNION {View(data, item) : item \in DynvecSlice(data, part, i)}]) :
                  count \in DynvecLength(data, part)} : part \in parts}

(***************************************************************************)
(* The views.                                                              *)
(***************************************************************************)
SighashAllView(data, cur) ==
  {[seal |-> seal, message |-> message] :
     seal \in RawField(L!SighashAll, data, cur, 1),
     message \in Field(L!SighashAll, data, cur, 2)}

SealOnlyView(data, cur) ==
  {[seal |-> seal] : seal \in RawField(L!SighashAllOnly, data, cur, 1)}

OtxStartView(data, cur) ==
  EachOf([i \in 1..4 |-> ValueField(L!OtxStart, data, cur, i)])

\* Fault: the seal of a lock is read where its script hash is.
LockSealView_First(data, cur) ==
  {[script_hash |-> hash, seal |-> seal] :
     hash \in ValueField(L!LockSeal, data, cur, 1),
     seal \in Field(L!LockSeal, data, cur, 1)}
LockSealView(data, cur) ==
  {[script_hash |-> hash, seal |-> seal] :
     hash \in ValueField(L!LockSeal, data, cur, 1),
     seal \in RawField(L!LockSeal, data, cur, 2)}

SealViews(type, data, cur, i) == EachItem(data, Field(type, data, cur, i), LockSealView)

OtxAppendSegmentView(data, cur) ==
  {[numbers |-> numbers, seals |-> seals] :
     numbers \in EachOf([i \in 1..5 |-> ValueField(L!OtxAppendSegment, data, cur, i)]),
     seals \in SealViews(L!OtxAppendSegment, data, cur, 6)}

\* append_permissions and the counts, then the masks between them.
OtxNumbers == <<2, 3, 5, 7, 9>>
OtxMasks == <<4, 6, 8, 10>>
OtxView(data, cur) ==
  {[message |-> message, numbers |-> numbers, masks |-> masks,
    segments |-> segments, seals |-> seals] :
     message \in Field(L!Otx, data, cur, 1),
     numbers \in EachOf([i \in 1..5 |-> ValueField(L!Otx, data, cur, OtxNumbers[i])]),
     masks \in EachOf([i \in 1..4 |-> BytesField(L!Otx, data, cur, OtxMasks[i])]),
     segments \in EachItem(data, Field(L!Otx, data, cur, 11), OtxAppendSegmentView),
     seals \in SealViews(L!Otx, data, cur, 12)}

(***************************************************************************)
(* push_witness.                                                           *)
(***************************************************************************)
LayoutViews(data, cur, k) ==
  CASE k = 1 -> SighashAllView(data, cur)
    [] k = 2 -> SealOnlyView(data, cur)
    [] k = 3 -> OtxView(data, cur)
    [] k = 4 -> OtxStartView(data, cur)

HasCobuildId(data, witness) ==
  \E id \in ReadAt(data, witness, NUMBER_SIZE) : id \in {E!CobuildId(k) : k \in 1..4}

Outcome(verdict, layout, view) == [verdict |-> verdict, layout |-> layout, view |-> view]

PushWitness(data, witness) ==
  IF witness.size = 0 THEN Outcome("empty", 0, {})
  ELSE IF LazyVerify(L!WitnessLayout, data, witness, FALSE)
  THEN LET k == CHOOSE k \in Variants(L!WitnessLayout, data, witness) : TRUE
           views == LayoutViews(data, Inner(witness), k)
       IN  Outcome(IF views = {} THEN "rejected" ELSE "layout", k, views)
  ELSE Outcome(IF HasCobuildId(data, witness) THEN "rejected" ELSE "legacy", 0, {})

ScriptRoles == 0..2

\* Fault: what is verified is all of the source, and not the message in it.
ParseActions_Witness(data, message) ==
  IF LazyVerify(L!Message, data, Whole(data), FALSE)
  THEN {m[1] : m \in LazyRead(L!Message, data, message)}
  ELSE {}
\* verify_message and parse_actions_from_verified_message: the actions of a
\* message, unless one of them names no script role.
ParseActions(data, message) ==
  IF LazyVerify(L!Message, data, message, FALSE)
  THEN {m[1] : m \in {v \in LazyRead(L!Message, data, message) :
                        \A i \in DOMAIN v[1] : v[1][i][2] \in ScriptRoles}}
  ELSE {}

(***************************************************************************)
(* Properties.                                                             *)
(***************************************************************************)
\* Every sample is read by both readers; these properties are about witnesses.
IsWitness == sample.entity = E!WitnessLayout
Source == bytes \o Behind
InSource(data) == IF IsWitness THEN PushWitness(data, Whole(bytes)) ELSE Outcome("empty", 0, {})
Seen == InSource(Source)

\* The cursors a view hands out, in the order they stand in the witness.
SealCursors(seals) == [i \in DOMAIN seals |-> seals[i].seal]
ViewCursors(layout, view) ==
  CASE layout = 1 -> <<view.seal, view.message>>
    [] layout = 2 -> <<view.seal>>
    [] layout = 3 ->
         <<view.message>>
           \o FlattenSeq([i \in DOMAIN view.segments |->
                            SealCursors(view.segments[i].seals)])
           \o SealCursors(view.seals)
    [] layout = 4 -> <<>>
ViewMessages(layout, view) == IF layout \in {1, 3} THEN {view.message} ELSE {}

\* What a view says, as a value of the entity: the bytes of its seals, the
\* actions of its message.
BytesOf(data, cur) == CHOOSE b \in CursorBytes(data, cur) : TRUE
MessageValue(data, cur) == CHOOSE v \in LazyRead(L!Message, data, cur) : TRUE
SealValues(data, seals) ==
  [i \in DOMAIN seals |-> <<seals[i].script_hash, BytesOf(data, seals[i].seal)>>]
SegmentValue(data, segment) == Append(segment.numbers, SealValues(data, segment.seals))
OtxValue(data, v) ==
  <<MessageValue(data, v.message), v.numbers[1], v.numbers[2], v.masks[1],
    v.numbers[3], v.masks[2], v.numbers[4], v.masks[3], v.numbers[5], v.masks[4],
    [i \in DOMAIN v.segments |-> SegmentValue(data, v.segments[i])],
    SealValues(data, v.seals)>>
ViewValue(data, layout, v) ==
  CASE layout = 1 -> <<BytesOf(data, v.seal), MessageValue(data, v.message)>>
    [] layout = 2 -> <<BytesOf(data, v.seal)>>
    [] layout = 3 -> OtxValue(data, v)
    [] layout = 4 -> v

\* A witness a conforming writer made is seen as what was written: the view
\* has every field of the entity, each in its place (view.rs, witness.rs).
ViewsAgree ==
  (IsWitness /\ Strict(bytes)) =>
    LET seen == Seen
        written == Decode(sample.entity, bytes)
    IN  /\ seen.verdict = "layout"
        /\ \A view \in seen.view :
             <<E!CobuildId(seen.layout), ViewValue(Source, seen.layout, view)>> = written

\* Whatever the bytes, the cursors of an accepted view lie inside the witness
\* and none overlaps another: filling in a seal changes no message and no
\* other seal, and what is signed with a message is that message.
ViewsDisjoint ==
  LET seen == Seen
  IN  \A view \in seen.view :
        LET curs == ViewCursors(seen.layout, view)
        IN  \A i \in DOMAIN curs :
              /\ curs[i].offset + curs[i].size <= Len(bytes)
              /\ \A j \in DOMAIN curs :
                   i < j => curs[i].offset + curs[i].size <= curs[j].offset

\* The actions of a message depend on the bytes of its cursor alone, which are
\* the ones that are hashed: cut out of the witness it has the same actions
\* (view.rs, parse_actions; hash/mod.rs, which hashes the cursor).
MessageStandsAlone ==
  LET seen == Seen
  IN  \A view \in seen.view : \A message \in ViewMessages(seen.layout, view) :
        LET alone == BytesOf(Source, message)
        IN  ParseActions(Source, message) = ParseActions(alone, Whole(alone))

\* Whatever the bytes of a witness, it is seen alike whatever follows it in the
\* transaction: a read that leaves its cursor decides nothing (witness.rs,
\* push_witness; support.rs, whose add_offset keeps the size of what it moves).
WitnessStandsAlone == Seen = InSource(bytes)

\* docs/superpowers/specs/2026-05-28-cobuild-core-community-redraft-design.md:885,
\* of a witness that starts with a reserved id "but cannot be parsed as that
\* valid layout": it "MUST fail Cobuild witness scanning".
ReservedLayoutParses ==
  Seen.verdict = "layout" => Strict(bytes)
=============================================================================
