---------------------------- MODULE OtxSigning ----------------------------
(***************************************************************************)
(* One OTX from its creator to the transaction it ends in.  The creator    *)
(* signs the base scope; others append segments behind it and sign those;  *)
(* a lock that takes no part in an OTX signs the transaction.  On the way  *)
(* anyone may change what they like: a field, a mask, the counts and       *)
(* flags, the order of the segments, what stands in front of the OTX.  A   *)
(* signature is accepted as long as some scope still has the hash it was   *)
(* made over.                                                              *)
(***************************************************************************)
EXTENDS OtxHash, FiniteSets

CONSTANTS
  ListItems,               \* of each list: the items there are
  Messages, Witnesses,     \* the messages and witnesses there are
  Composed,                \* what a creator may begin with: [tx, otx]
  Segments,                \* what is appended: [flags, items]
  Foreign,                 \* an item of each list that belongs to no OTX
  MaskBytes,               \* bound: masks that are tried
  MaxEdits, MaxSegments    \* bounds

VARIABLES
  tx, otx,                 \* as OtxHash reads them
  signed,                  \* the signatures made: [hash, content, relied]
  edits

signingVars == <<tx, otx, signed, edits>>

\* What the readers make of a transaction and of the view of an OTX.
Short(S) == {s \in Seq(S) : Len(s) < SizeLimit}
Transactions ==
  [lists : [inputs : Short(ListItems["inputs"]),
            outputs : Short(ListItems["outputs"]),
            cell_deps : Short(ListItems["cell_deps"]),
            header_deps : Short(ListItems["header_deps"])],
   message : {m \in Seq(Messages) : Len(m) <= 1},
   witnesses : Seq(Witnesses)]
Otxs ==
  [message : Messages, append_permissions : Byte,
   start : [Dim -> Nat], base : [Dim -> Nat], masks : [Dim -> Seq(Byte)],
   segments : {s \in Seq([flags : Byte, counts : [Dim -> Nat]]) : Len(s) <= MaxSegments}]

ASSUME SigningAssumption ==
  /\ \A d \in Dim : \A item \in ListItems[d] : item \in ItemsOf(d)
  /\ \A input \in ListItems["inputs"] : Resolve(input[2]) \in [output : Cells, data : Bytes]
  /\ \A message \in Messages : message \in Tables
  /\ \A witness \in Witnesses : witness \in Bytes
  /\ MaxSegments \in 0..(SizeLimit - 1)

(***************************************************************************)
(* Scopes and what a signature over each is meant to say: a definition of  *)
(* its own, by the documented meaning of masks and flags.                  *)
(***************************************************************************)
BaseScope == 0
TxScope == MaxSegments + 1
ScopesOf(t, o) == (IF Valid(t, o) THEN BaseScope..Len(o.segments) ELSE {}) \cup {TxScope}
HashAt(t, o, scope) ==
  CASE scope = BaseScope -> OtxBaseHash(t, o)
    [] scope = TxScope -> TxSigningHash(t)
    [] OTHER -> OtxAppendSegmentHash(t, o, scope)

\* The bits of a mask in their order, least significant first.
MaskBits(mask) ==
  FlattenSeq([k \in DOMAIN mask |-> [b \in 1..8 |-> (mask[k] \div 2^(b - 1)) % 2]])
SignedFields(mask, width, slot) ==
  {f \in 1..width : MaskBits(mask)[(slot - 1) * width + f] = 1}
FieldsOf(d, item) ==
  CASE d = "inputs" -> item
    [] d = "outputs" -> <<item.cell[1], item.cell[2], item.cell[3], item.data>>
    [] OTHER -> <<item>>
ResolvedOf(d, item) == IF d = "inputs" THEN {Resolve(item[2])} ELSE {}

SlotContent(mask, d, slot, item) ==
  [fields |-> [f \in SignedFields(mask, BITS_PER_CELL[d], slot) |-> FieldsOf(d, item)[f]],
   resolved |-> ResolvedOf(d, item)]
BaseContent(t, o) ==
  [message |-> o.message, append_permissions |-> o.append_permissions,
   slots |-> [d \in Dim |-> [i \in 1..o.base[d] |->
                               SlotContent(o.masks[d], d, i, BaseItems(t, o, d)[i])]]]
EntitiesContent(t, o, s) ==
  [flags |-> o.segments[s].flags,
   items |-> [d \in Dim |-> SegmentItems(t, o, s, d)],
   resolved |-> [i \in DOMAIN SegmentItems(t, o, s, "inputs") |->
                   ResolvedOf("inputs", SegmentItems(t, o, s, "inputs")[i])]]
SegmentContent(t, o, s) ==
  [base |-> BaseContent(t, o), own |-> EntitiesContent(t, o, s),
   previous |-> IF CoversPrevious(o.segments[s].flags)
                THEN [p \in 1..(s - 1) |-> EntitiesContent(t, o, p)] ELSE <<>>]
TxContent(t) ==
  [message |-> t.message, lists |-> t.lists, witnesses |-> ExtraWitnesses(t)]
ContentAt(t, o, scope) ==
  CASE scope = BaseScope -> [base |-> BaseContent(t, o)]
    [] scope = TxScope -> [tx |-> TxContent(t)]
    [] OTHER -> [segment |-> SegmentContent(t, o, scope)]

Scopes == ScopesOf(tx, otx)
HashOf(scope) == HashAt(tx, otx, scope)
ContentOf(scope) == ContentAt(tx, otx, scope)

Accepted(signature) == \E scope \in Scopes : HashOf(scope) = signature.hash
Signature(scope) ==
  [hash |-> HashOf(scope), content |-> ContentOf(scope),
   relied |-> {g.hash : g \in {g \in signed : Accepted(g)}}]
Sign(scope) == signed' = signed \cup {Signature(scope)}
-----------------------------------------------------------------------------
Init ==
  /\ \E c \in Composed : tx = c.tx /\ otx = c.otx
  /\ tx \in Transactions /\ otx \in Otxs
  /\ signed = {}
  /\ edits = 0

Holds(scope) == \E g \in signed : g.hash = HashOf(scope)
NewestScope == Len(otx.segments)

\* What is put together is again a transaction with the view of an OTX.
Put(t, o) == t \in Transactions /\ o \in Otxs /\ tx' = t /\ otx' = o

\* Each appender signs its segment, the creator the base, and whoever spends
\* an input outside the OTX signs the transaction once it is complete.
SignScope ==
  /\ edits = 0 /\ ~Holds(TxScope)
  /\ \E scope \in {NewestScope, TxScope} \cap Scopes :
       /\ ~Holds(scope)
       /\ scope = TxScope => Holds(NewestScope)
       /\ Sign(scope)
  /\ UNCHANGED <<tx, otx, edits>>

\* The lists with items put in, or taken out, behind position n of each.
Inserted(at, items) ==
  [d \in Dim |-> SubSeq(tx.lists[d], 1, at[d]) \o items[d]
                   \o SubSeq(tx.lists[d], at[d] + 1, Len(tx.lists[d]))]
Behind(s) == [d \in Dim |-> Taken(otx, s, d)]
Without(s) ==
  [d \in Dim |-> SubSeq(tx.lists[d], 1, Taken(otx, s - 1, d))
                   \o SubSeq(tx.lists[d], Taken(otx, s, d) + 1, Len(tx.lists[d]))]

AppendSegment ==
  /\ edits = 0 /\ ~Holds(TxScope) /\ Holds(NewestScope)
  /\ \E segment \in Segments :
       Put([tx EXCEPT !.lists = Inserted(Behind(Len(otx.segments)), segment.items)],
           [otx EXCEPT !.segments = Append(@,
              [flags |-> segment.flags,
               counts |-> [d \in Dim |-> Len(segment.items[d])]])])
  /\ UNCHANGED <<signed, edits>>

Edit == edits < MaxEdits /\ signed # {} /\ edits' = edits + 1 /\ UNCHANGED signed

ChangeItem ==
  /\ Edit
  /\ \E d \in Dim : \E i \in DOMAIN tx.lists[d] : \E item \in ListItems[d] \ {tx.lists[d][i]} :
       Put([tx EXCEPT !.lists[d][i] = item], otx)
ChangeTxMessage ==
  /\ Edit
  /\ \E message \in {<<>>} \cup {<<m>> : m \in Messages} : Put([tx EXCEPT !.message = message], otx)
ChangeWitness ==
  /\ Edit
  /\ \E i \in DOMAIN tx.witnesses : \E witness \in Witnesses :
       Put([tx EXCEPT !.witnesses[i] = witness], otx)

ChangeView ==
  /\ Edit
  /\ \/ \E message \in Messages : Put(tx, [otx EXCEPT !.message = message])
     \/ \E d \in Dim : \E mask \in MaskBytes : Put(tx, [otx EXCEPT !.masks[d] = mask])
     \/ \E permissions \in {0, 11, 15} : Put(tx, [otx EXCEPT !.append_permissions = permissions])
     \/ \E s \in DOMAIN otx.segments : \E flags \in 0..3 :
          Put(tx, [otx EXCEPT !.segments[s].flags = flags])

\* An item at the boundary of two segments changes sides.
MoveBoundary ==
  /\ Edit
  /\ \E d \in Dim, s \in 1..(Len(otx.segments) - 1) :
       \/ Put(tx, [otx EXCEPT !.segments[s].counts[d] = @ - 1,
                              !.segments[s + 1].counts[d] = @ + 1])
       \/ Put(tx, [otx EXCEPT !.segments[s].counts[d] = @ + 1,
                              !.segments[s + 1].counts[d] = @ - 1])

SwapSegments ==
  /\ Edit
  /\ \E s \in 1..(Len(otx.segments) - 1) :
       Put([tx EXCEPT !.lists = [d \in Dim |->
              SubSeq(tx.lists[d], 1, Taken(otx, s - 1, d))
                \o SegmentItems(tx, otx, s + 1, d) \o SegmentItems(tx, otx, s, d)
                \o SubSeq(tx.lists[d], Taken(otx, s + 1, d) + 1, Len(tx.lists[d]))]],
           [otx EXCEPT !.segments[s] = otx.segments[s + 1],
                       !.segments[s + 1] = otx.segments[s]])
DropSegment ==
  /\ Edit
  /\ \E s \in DOMAIN otx.segments :
       Put([tx EXCEPT !.lists = Without(s)], [otx EXCEPT !.segments = RemoveAt(@, s)])

\* The packer lays other items in front of those of the OTX.
PrependForeign ==
  /\ Edit
  /\ \E d \in Dim :
       Put([tx EXCEPT !.lists[d] = <<Foreign[d]>> \o @], [otx EXCEPT !.start[d] = @ + 1])

Next ==
  \/ SignScope \/ AppendSegment \/ ChangeItem \/ ChangeTxMessage \/ ChangeWitness
  \/ ChangeView \/ MoveBoundary \/ SwapSegments \/ DropSegment \/ PrependForeign
SigningSpec == Init /\ [][Next]_signingVars

(***************************************************************************)
(* Properties.                                                             *)
(***************************************************************************)
\* Which outputs of a scope have a type, as far as it is signed.
TypesSigned(content) ==
  IF "base" \notin DOMAIN content /\ "segment" \notin DOMAIN content THEN {}
  ELSE LET slots == IF "base" \in DOMAIN content THEN content.base.slots["outputs"]
                    ELSE content.segment.base.slots["outputs"]
       IN  {i \in DOMAIN slots : 3 \in DOMAIN slots[i].fields /\ slots[i].fields[3] # <<>>}

\* A signature says one thing: wherever its hash comes up again, what it was
\* made over is there again - the same scope kind, fields, counts, masks,
\* flags and, for a covering segment, the same previous segments in the same
\* order - as long as the same outputs have a signed type (hash/mod.rs).
SignatureBinds ==
  \A g \in signed, scope \in Scopes :
    HashOf(scope) = g.hash /\ TypesSigned(ContentOf(scope)) = TypesSigned(g.content)
      => ContentOf(scope) = g.content

\* And nothing else: fields the masks leave out, later segments, the place of
\* the OTX in the transaction, the order of own-only segments may change and
\* the signature is still accepted.
OnlyContentBinds ==
  \A g \in signed, scope \in Scopes : ContentOf(scope) = g.content => HashOf(scope) = g.hash

\* An appender signs on what is there.  As long as the signature of a segment
\* is accepted, so is that of the base it saw accepted, and with the coverage
\* flag those of all segments in front of it.
AcceptedTogether ==
  \A g \in signed : Accepted(g) /\ "segment" \in DOMAIN g.content =>
    \A h \in signed :
      /\ h.hash \in g.relied
      /\ \/ "base" \in DOMAIN h.content
         \/ /\ "segment" \in DOMAIN h.content
            /\ CoversPrevious(g.content.segment.own.flags)
            /\ \E p \in DOMAIN g.content.segment.previous :
                 g.content.segment.previous[p] = h.content.segment.own
      => Accepted(h)

\* One set of signed fields, one mask: the bytes of an accepted mask are its
\* bits packed in order and nothing else (view.rs, MaskView::validate).
Packed(bits) ==
  LET bit(n) == IF n \in DOMAIN bits THEN bits[n] ELSE 0
  IN  [k \in 1..((Len(bits) + 7) \div 8) |->
         bit(8*k - 7) + 2 * bit(8*k - 6) + 4 * bit(8*k - 5) + 8 * bit(8*k - 4)
           + 16 * bit(8*k - 3) + 32 * bit(8*k - 2) + 64 * bit(8*k - 1) + 128 * bit(8*k)]
MasksCanonical ==
  Valid(tx, otx) => \A d \in Dim :
    otx.masks[d] =
      Packed(SubSeq(MaskBits(otx.masks[d]), 1, otx.base[d] * BITS_PER_CELL[d]))

\* docs/superpowers/specs/2026-05-28-cobuild-core-community-redraft-design.md:451,
\* "Signing-preimage serialization MUST be injective over the ordered field
\* sequence": equal base preimages are of equal fields.
PreimageInjective ==
  \A g \in signed, scope \in Scopes \cap {BaseScope} :
    HashOf(scope) = g.hash => ContentOf(scope) = g.content
=============================================================================
