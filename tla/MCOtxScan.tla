----------------------------- MODULE MCOtxScan -----------------------------
(***************************************************************************)
(* Transactions for TLC's run of OtxScan.                                  *)
(***************************************************************************)
EXTENDS OtxScan, OtxScanInv

N(inputs, outputs) ==
  [d \in Dim |-> IF d = "inputs" THEN inputs ELSE IF d = "outputs" THEN outputs ELSE 0]

Segment(flags, counts) == [flags |-> flags, counts |-> counts, items |-> 0, seals |-> <<>>]
SeqsUpTo(set, n) == UNION {[1..m -> set] : m \in 0..n}

Otx(base, permissions, fit, segments) ==
  [kind |-> "otx",
   view |-> [message |-> <<>>, append_permissions |-> permissions, base |-> base,
             items |-> 0, masks_fit |-> fit, output_types_signed |-> {}, segments |-> segments, base_seals |-> <<>>]]
OtxStart(counts) == [kind |-> "otx_start", start |-> counts]
Tx(witnesses, counts) ==
  [counts |-> counts, witnesses |-> witnesses,
   input_locks |-> <<>>, input_types |-> <<>>, output_types |-> <<>>]

More == {"allow_more_after"}

(***************************************************************************)
(* Order: every sequence of up to MaxWitnesses witnesses drawn    *)
(* from one witness of each kind, two OtxStart and two OTX, one of them    *)
(* with two append segments; the transaction is too small or large enough. *)
(***************************************************************************)
CONSTANT MaxWitnesses

anySeal == CHOOSE s \in Seal : TRUE

OrderPool ==
  { [kind |-> "empty"],
    [kind |-> "sighash_all_only", seal |-> anySeal],
    [kind |-> "malformed", error |-> "MalformedCobuild"],
    OtxStart(N(0, 0)), OtxStart(N(1, 1)),
    Otx(N(1, 0), {}, TRUE, <<>>),
    Otx(N(1, 1), {"inputs", "outputs"}, TRUE,
        <<Segment(More, N(1, 1)), Segment({}, N(1, 0))>>) }

OrderTransactions ==
  {Tx(ws, counts) : ws \in SeqsUpTo(OrderPool, MaxWitnesses),
                    counts \in {N(3, 2), N(4, 3)}}

(***************************************************************************)
(* Views: an OtxStart and one OTX, over every view with up to two *)
(* segments of the small field values below; a second OTX follows it.      *)
(***************************************************************************)
ViewSegments == {Segment(flags, counts) : flags \in {{}, More, {"coverage_previous"}, {"reserved"}},
                                          counts \in {N(1, 0), N(0, 1)}}
ViewTransactions ==
  {Tx(<<OtxStart(N(0, 0)), Otx(base, permissions, fit, segments),
        Otx(N(1, 1), {}, TRUE, <<>>)>>, N(4, 4)) :
     base \in {N(0, 1), N(1, 0), N(2, 1)},
     permissions \in SUBSET {"inputs", "outputs", "reserved"},
     fit \in BOOLEAN,
     segments \in SeqsUpTo(ViewSegments, 2)}

ScanTransactions == OrderTransactions \cup ViewTransactions
=============================================================================
