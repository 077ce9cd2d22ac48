----------------------------- MODULE MCLockPlan -----------------------------
(***************************************************************************)
(* Transactions for TLC's runs of LockPlan and the refinement of           *)
(* LockRules.  Two locks, "L" and "M"; "T" is the type script of every     *)
(* input; "X" is a script no transaction has.                              *)
(* Each run takes every lock of a transaction for the group that runs.     *)
(***************************************************************************)
EXTENDS LockPlanInv

Names == {"L", "M", "T", "X"}

By(signer, over) == [signer |-> signer, over |-> over]
For(lockName, seal) == [script_hash |-> lockName, seal |-> seal]

act(target) == [role |-> "input_lock", target |-> target]
noRole == [role |-> "invalid", target |-> "L"]
typed(role) == [role |-> role, target |-> "T"]
Messages == {<<>>, <<typed("input_type"), act("L")>>, <<act("L"), typed("output_type")>>,
             <<act("L")>>, <<act("M"), act("L")>>, <<act("L"), act("X")>>,
             <<act("X")>>, <<noRole>>}
FewMessages == Messages \ {<<act("M"), act("L")>>, <<typed("input_type"), act("L")>>}

N(inputs) == [d \in Dim |-> IF d = "inputs" THEN inputs ELSE 0]
SeqsUpTo(set, n) == UNION {[1..m -> set] : m \in 0..n}
SeqsOf(set, n) == [1..n -> set]

Empty == [kind |-> "empty"]
Legacy == [kind |-> "legacy"]
SighashAll(seal, message) == [kind |-> "sighash_all", seal |-> seal, message |-> message]
SighashAllOnly(seal) == [kind |-> "sighash_all_only", seal |-> seal]
Start(inputs) == [kind |-> "otx_start", start |-> N(inputs)]

\* Views without their seals, which no hash of a scope takes in.  Items that are
\* signed with their out points are named by the position of the first, no items by
\* 0, and a base input whose out point is masked out by its lock: what is hashed of
\* it is the cell.
Segment(flags, inputs, first) ==
  [flags |-> flags, counts |-> N(inputs), items |-> IF inputs = 0 THEN 0 ELSE first,
   seals |-> <<>>]
View(message, items, segments) ==
  [message |-> message, append_permissions |-> {"inputs"}, base |-> N(1), items |-> items,
   masks_fit |-> TRUE, output_types_signed |-> {}, segments |-> segments, base_seals |-> <<>>]
Masked(lockName) == IF lockName = "L" THEN 11 ELSE 12
Own == {"allow_more_after"}
Covering == {"allow_more_after", "coverage_previous"}

Otx(view, seals) == [kind |-> "otx", view |-> [view EXCEPT !.base_seals = seals]]

Tx(witnesses, locks) ==
  [counts |-> N(Len(locks)), witnesses |-> witnesses, input_locks |-> locks,
   input_types |-> [i \in 1..Len(locks) |-> {"T"}], output_types |-> <<>>]

Locks == {"L", "M"}

(***************************************************************************)
(* Tx level: no OTX.  One or two inputs, up to three witnesses.   *)
(***************************************************************************)
TxLevelPool ==
  {Empty, Legacy}
    \cup {SighashAll(By("L", TxWithMessageHash(m)), m) :
            m \in Messages}
    \cup {SighashAllOnly(By("L", over)) :
            over \in {TxWithoutMessageHash, TxWithMessageHash(<<>>),
                      TxWithMessageHash(<<act("L")>>)}}
    \cup {SighashAllOnly(By("M", TxWithoutMessageHash))}

TxLevelCases == SeqsUpTo(TxLevelPool, 3) \X (SeqsOf(Locks, 1) \cup SeqsOf(Locks, 2))

(***************************************************************************)
(* Scopes: one OTX whose base, and append segments if any, spend           *)
(* some of three inputs of either lock; the rest is before or behind it.   *)
(***************************************************************************)
Good(l, over) == For(l, By(l, over))
SealChoice(over) ==
  <<<<>>, <<Good("L", over)>>, <<Good("L", over), Good("M", over)>>,
    <<Good("L", over), Good("L", over)>>,
    <<For("L", By("L", TxWithoutMessageHash)), Good("M", over)>>>>
Choices == 1..5
SealChoices(over) == {SealChoice(over)[c] : c \in Choices}

\* OTX whose base is input n, without seals: no segment, one, or two, the second of
\* them with the first in its hash or without.
OneSegment(n) == {View(<<>>, n, <<Segment(Own, inputs, n + 1)>>) : inputs \in 0..1}
TwoSegments(n) ==
  {View(<<>>, n, <<Segment(Own, 1, n + 1), Segment(flags, 1, n + 2)>>) : flags \in {Own, Covering}}

\* Their segments sealed, for the segment or for its neighbour.
Sealed(view, seals) ==
  [view EXCEPT !.segments = [s \in 1..Len(seals) |-> [view.segments[s] EXCEPT !.seals = seals[s]]]]
SegmentsSealed(n) ==
  {View(<<>>, n, <<>>)}
    \cup UNION {{Sealed(view, <<seals>>) : seals \in SealChoices(OtxAppendSegmentHash(view, 1))} :
                  view \in OneSegment(n)}
    \cup UNION {{Sealed(view, <<s1, s2>>) :
                   s1 \in {<<Good("L", OtxAppendSegmentHash(view, s))>> : s \in 1..2},
                   s2 \in {<<Good("L", OtxAppendSegmentHash(view, 2))>>, <<>>}} :
                  view \in TwoSegments(n)}

Prefixes ==
  {<<>>, <<Empty>>, <<SighashAll(By("L", TxWithMessageHash(<<>>)), <<>>)>>,
   <<SighashAllOnly(By("L", TxWithoutMessageHash))>>,
   <<SighashAll(By("L", TxWithMessageHash(<<act("L"), act("X")>>)), <<act("L"), act("X")>>)>>}

Spent ==
  {Tx(prefix \o <<Start(otx[1]), Otx(otx[2], SealChoice(OtxBaseHash(otx[2]))[c])>>, locks) :
     prefix \in Prefixes, otx \in UNION {{n} \X SegmentsSealed(n) : n \in 0..1},
     c \in Choices, locks \in SeqsOf(Locks, 3)}

\* Two OTX of one input each that differ in their out point, or that mask it out: then
\* inputs of one lock give them one content and one hash.
Twins(a, b, locks) ==
  LET first == View(<<>>, a, <<>>)
      second == View(<<>>, b, <<>>)
  IN  {Tx(<<Start(0), Otx(first, s0), Otx(second, s1)>>, locks) :
         s0 \in SealChoices(OtxBaseHash(first)),
         s1 \in SealChoices(OtxBaseHash(second)) \cup {<<Good("L", OtxBaseHash(first))>>}}
TwinTransactions ==
  UNION {Twins(0, 1, locks) \cup Twins(Masked(locks[1]), Masked(locks[2]), locks) :
           locks \in SeqsOf(Locks, 2)}

ScopeTransactions == Spent \cup TwinTransactions

(***************************************************************************)
(* Two OTX: two OTX, messages and seals that name either; again with out   *)
(* points signed or, for OTX of one message, masked out.                   *)
(***************************************************************************)
Behind == {<<>>, <<Segment(Own, 1, 1)>>}
SealedBehind(view) ==
  Sealed(view, [s \in 1..Len(view.segments) |-> <<Good("L", OtxAppendSegmentHash(view, s))>>])

\* Messages of the two, and whether their out points are signed or masked out.
Pairs == (Messages \X FewMessages \X {"signed"}) \cup {<<m, m, "masked">> : m \in FewMessages}
TwoOtx(pair, segments, locks) ==
  LET Items(i) == IF pair[3] = "masked" THEN Masked(locks[i + 1]) ELSE i
  IN  <<View(pair[1], Items(0), segments), View(pair[2], Items(Len(segments) + 1), <<>>)>>
\* No seal, one for the first of the OTX, or one for the second.
SealOver(otx, c) == IF c = 0 THEN <<>> ELSE <<Good("L", OtxBaseHash(otx[c]))>>
TwoSealed(otx, c0, c1) ==
  <<Start(0), Otx(SealedBehind(otx[1]), SealOver(otx, c0)), Otx(otx[2], SealOver(otx, c1))>>
TwoOtxCases ==
  {<<TwoSealed(TwoOtx(pair, segments, locks), c0, c1), locks>> :
     pair \in Pairs, segments \in Behind, c0 \in 0..2, c1 \in 0..2,
     locks \in {<<"L", "L", "M">>, <<"L", "M", "L">>, <<"M", "L", "L">>, <<"M", "M", "L">>}}

MessageTransactions == {Tx(case[1], case[2]) : case \in TxLevelCases \cup TwoOtxCases}

(***************************************************************************)
(* What a seal of the runs is a signature over.                            *)
(***************************************************************************)
Views ==
  UNION {OneSegment(n) \cup TwoSegments(n) : n \in 0..1}
    \cup {View(m, items, segments) :
            m \in Messages, items \in 0..2 \cup {11, 12}, segments \in Behind}
Contents ==
  {TxWithMessageHash(m) : m \in Messages} \cup {TxWithoutMessageHash}
    \cup {OtxBaseHash(view) : view \in Views}
    \cup UNION {{OtxAppendSegmentHash(view, s) : s \in 1..Len(view.segments)} : view \in Views}
Seals == {By(signer, over) : signer \in Locks, over \in Contents}
=============================================================================
