----------------------------- MODULE CobuildTx -----------------------------
(***************************************************************************)
(* What a Cobuild validation script reads: the transaction it runs in, the *)
(* witnesses of that transaction as the molecule readers classify them,    *)
(* and the wire-level flags of an OTX.                                     *)
(*                                                                         *)
(* Positions are the code's 0-based indices; element i of a TLA+ sequence  *)
(* stands for position i - 1.                                              *)
(***************************************************************************)
EXTENDS Integers, Sequences

CONSTANTS
  Script,     \* script hashes
  Seal        \* contents of a seal: what a signature is over, and by whom

\* The four lists of a transaction an OTX takes consecutive items from.
Dim == {"inputs", "outputs", "cell_deps", "header_deps"}
Counts == [Dim -> Nat]

(***************************************************************************)
(* layout.rs: Range is a start and a count.                                *)
(***************************************************************************)
Span == [start : Nat, count : Nat]
End(span) == span.start + span.count
InSpan(i, span) == span.start <= i /\ i < End(span)

(***************************************************************************)
(* protocol.rs: flag bytes as the set of their bits; every bit the masks   *)
(* 0x03 and 0x0f leave out is "reserved".                                  *)
(***************************************************************************)
SegmentFlag == {"allow_more_after", "coverage_previous"}
FlagByte == SUBSET (SegmentFlag \cup {"reserved"})
PermissionByte == SUBSET (Dim \cup {"reserved"})
FlagsParse(flags) == flags \subseteq SegmentFlag
PermissionsParse(permissions) == permissions \subseteq Dim

\* A role byte above 2 is no ScriptRole: message_actions fails on it.
ScriptRole == {"input_lock", "input_type", "output_type"}
Action == [role : ScriptRole \cup {"invalid"}, target : Script]
Message == Seq(Action)

LockSeal == [script_hash : Script, seal : Seal]

\* view.rs: OtxAppendSegmentView and OtxView.  masks_fit says that the four
\* base masks have exactly the bits their counts ask for (MaskView::validate);
\* output_types_signed are the base outputs, counted from the base's first, whose
\* type the output masks include (includes_base_output_type).  items stands for
\* the masks and the items of the scope, as far as they are hashed: equal numbers
\* are equal bytes, wherever in the transaction the items are.
SegmentView == [flags : FlagByte, counts : Counts, items : Nat, seals : Seq(LockSeal)]
OtxView == [message : Message, append_permissions : PermissionByte,
            base : Counts, items : Nat, masks_fit : BOOLEAN,
            output_types_signed : SUBSET Nat,
            segments : Seq(SegmentView), base_seals : Seq(LockSeal)]

(***************************************************************************)
(* hash/mod.rs: a signing hash is its personalization and what the hasher  *)
(* is fed, so equal contents share a hash and different ones do not.       *)
(* Nothing of it is the place of the OTX: two OTX of equal content, with   *)
(* the out points masked out, share the hash of their base.                *)
(***************************************************************************)
OtxBaseHash(view) ==
  [domain |-> "ckbcb_otb_core1", message |-> view.message,
   append_permissions |-> view.append_permissions,
   base |-> view.base, items |-> view.items]

SegmentEntities(segment) ==
  [flags |-> segment.flags, counts |-> segment.counts, items |-> segment.items]

\* How many segments the hash of append segment s - 1 takes in before its own.
PreviousCovered(view, s) ==
  IF "coverage_previous" \in view.segments[s].flags THEN s - 1 ELSE 0
OtxAppendSegmentHash(view, s) ==
  [domain |-> "ckbcb_ots_core1", base_hash |-> OtxBaseHash(view),
   previous |-> [p \in 1..PreviousCovered(view, s) |-> SegmentEntities(view.segments[p])],
   segment |-> SegmentEntities(view.segments[s])]

(***************************************************************************)
(* A witness by what push_witness makes of its bytes: nothing; bytes that  *)
(* are no Cobuild layout; a reserved Cobuild id whose content does not     *)
(* parse; or one of the four Cobuild layouts.                              *)
(***************************************************************************)
Witness ==
  [kind : {"empty", "legacy"}]
    \cup [kind : {"malformed"}, error : {"MalformedCobuild", "InvalidOtxLayout"}]
    \cup [kind : {"sighash_all"}, seal : Seal, message : Message]
    \cup [kind : {"sighash_all_only"}, seal : Seal]
    \cup [kind : {"otx_start"}, start : Counts]
    \cup [kind : {"otx"}, view : OtxView]

\* The type script of a cell: no element or one.
TypeSlot == SUBSET Script

Transaction == [counts : Counts, witnesses : Seq(Witness),
                input_locks : Seq(Script), input_types : Seq(TypeSlot),
                output_types : Seq(TypeSlot)]
=============================================================================
