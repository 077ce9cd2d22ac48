------------------------------ MODULE LockPlan ------------------------------
(***************************************************************************)
(* The lock script of one lock group: CobuildContext::build (OtxScan),     *)
(* then plan_lock_validation (engine.rs, LockPlanBuilder::build) and the   *)
(* verification of every planned signature (cobuild-otx-lock, entry.rs).   *)
(*                                                                         *)
(* The program is sequential.  One step is one stage of build, or one      *)
(* iteration of its loops over OTX, append segments and requirements.      *)
(***************************************************************************)
EXTENDS ScriptContext, FiniteSets

VARIABLES
  lock,                    \* the script hash of the lock group that runs
  stage,                   \* where the lock script is
  lock_error,              \* the error it exits with, or "none"
  required_signatures,     \* LockPlanBuilder.required_signatures
  related_actions,         \* LockPlanBuilder.related_actions
  tx_level_action_cache,   \* LockPlanBuilder.tx_level_action_cache
  otx_index,               \* the OTX add_otx_requirements is at
  segment_index,           \* 0: that OTX is to be entered; s: append segment s - 1
  verified                 \* how many requirements the verifier has accepted

plan == <<required_signatures, related_actions, tx_level_action_cache>>
position == <<otx_index, segment_index>>
lockVars == <<lock, stage, lock_error, plan, position, verified>>
vars == <<scanVars, lockVars>>

Stage == {"scan", "tx_requirement", "tx_actions", "otx", "coverage", "verify",
          "accepted", "rejected"}
LockError == {"none", "MalformedCobuild", "InvalidOtxLayout", "InvalidLockGroupWitness",
              "DuplicateSighashAll", "InvalidMessageTarget", "MissingLockSeal",
              "DuplicateLockSeal", "MissingLockGroupCoverage", "LockSemanticFailure",
              "VerifyFailure"}
-----------------------------------------------------------------------------
(***************************************************************************)
(* context.rs: the inputs of the group; the actions addressed to it.       *)
(***************************************************************************)
CurrentLockInputs ==
  {i \in 0..(Len(tx.input_locks) - 1) : tx.input_locks[i + 1] = lock}

LockActions(message) ==
  {a \in 1..Len(message) : message[a].role = "input_lock" /\ message[a].target = lock}

ContainsCurrentLock(span) == \E i \in CurrentLockInputs : InSpan(i, span)
InputRange == AggregateRange("inputs")

\* layout.rs: the input range of append segment s - 1 of OTX k, of its base for s = 0.
InputSpan(k, s) ==
  pieces[CHOOSE i \in 1..Len(pieces) : pieces[i].otx = k /\ pieces[i].segment = s].span["inputs"]

(***************************************************************************)
(* hash/mod.rs: the tx-level hashes.  Those of the scopes of an OTX are    *)
(* CobuildTx's.                                                            *)
(***************************************************************************)
TxWithMessageHash(message) == [domain |-> "ckbcb_twm_core1", message |-> message]
TxWithoutMessageHash == [domain |-> "ckbcb_tnm_core1"]

\* verify/local.rs: the signature recovers to the key in the lock's args.
Verifies(seal, hash) == seal.signer = lock /\ seal.over = hash

Requirement(origin, carrier, segment, seal, hash) ==
  [origin |-> origin, carrier_witness_index |-> carrier, segment |-> segment,
   seal |-> seal, signing_message_hash |-> hash]

NoCache == [witness_index |-> None, targets_checked |-> FALSE]

LockFails(e) == stage' = "rejected" /\ lock_error' = e
-----------------------------------------------------------------------------
InitLock ==
  /\ lock \in {tx.input_locks[i] : i \in 1..Len(tx.input_locks)}
  /\ stage = "scan"
  /\ lock_error = "none"
  /\ required_signatures = <<>>
  /\ related_actions = {}
  /\ tx_level_action_cache = NoCache
  /\ otx_index = 0
  /\ segment_index = 0
  /\ verified = 0

ScanStep == stage = "scan" /\ Next /\ UNCHANGED lockVars

\* CobuildContext::build has returned.
BeginPlan ==
  /\ stage = "scan"
  /\ \/ phase \in {"none", "complete"} /\ stage' = "tx_requirement" /\ UNCHANGED lock_error
     \/ phase = "rejected" /\ LockFails(error)
  /\ UNCHANGED <<scanVars, lock, plan, position, verified>>

(***************************************************************************)
(* add_tx_level_requirement.                                               *)
(***************************************************************************)
\* Fault: a transaction with OTX needs no tx-level signature.
NeedsTxLevelSignature_NoMix == phase = "none"
NeedsTxLevelSignature ==
  \/ phase = "none"
  \/ phase = "complete" /\ \E i \in CurrentLockInputs : ~InSpan(i, InputRange)

Carrier == CHOOSE i \in CurrentLockInputs : \A j \in CurrentLockInputs : i <= j

\* Fault: the inputs of the group must all have a witness.
GroupWitnessesOk_NoneAbsent ==
  /\ \A i \in CurrentLockInputs \ {Carrier} : SummaryKind(i) = "empty"
  /\ SummaryKind(Carrier) \in {"sighash_all", "sighash_all_only"}
\* ensure_non_carrier_witnesses_empty and tx_level_carrier_view.
GroupWitnessesOk ==
  /\ \A i \in CurrentLockInputs \ {Carrier} : SummaryKind(i) \in {"empty", "absent"}
  /\ SummaryKind(Carrier) \in {"sighash_all", "sighash_all_only"}

\* Fault: the targets are left to add_tx_level_actions, but marked as checked.
TxLevelError_TargetsLater ==
  IF ~GroupWitnessesOk THEN "InvalidLockGroupWitness"
  ELSE IF DuplicateSighashAll THEN "DuplicateSighashAll"
  ELSE IF SighashAlls # {} /\ ~Parses(TxMessage) THEN "InvalidMessageTarget"
  ELSE "none"
TxLevelError ==
  IF ~GroupWitnessesOk THEN "InvalidLockGroupWitness"
  ELSE IF DuplicateSighashAll THEN "DuplicateSighashAll"
  ELSE IF SighashAlls # {} /\ ~(Parses(TxMessage) /\ TargetsPresent(TxMessage))
    THEN "InvalidMessageTarget"
  ELSE "none"

TxLevelRequirement ==
  Requirement("tx_level", Carrier, 0, summaries[Carrier + 1].seal,
              IF SighashAlls = {} THEN TxWithoutMessageHash ELSE TxWithMessageHash(TxMessage))

AddTxLevelRequirement ==
  /\ stage = "tx_requirement"
  /\ \/ /\ ~(has_cobuild_witness_layout /\ NeedsTxLevelSignature)
        /\ stage' = "tx_actions"
        /\ UNCHANGED <<lock_error, required_signatures, tx_level_action_cache>>
     \/ /\ has_cobuild_witness_layout /\ NeedsTxLevelSignature
        /\ TxLevelError # "none"
        /\ LockFails(TxLevelError)
        /\ UNCHANGED <<required_signatures, tx_level_action_cache>>
     \/ /\ has_cobuild_witness_layout /\ NeedsTxLevelSignature
        /\ TxLevelError = "none"
        /\ stage' = "tx_actions"
        /\ required_signatures' = Append(required_signatures, TxLevelRequirement)
        /\ tx_level_action_cache' =
             IF SighashAlls = {} THEN tx_level_action_cache
             ELSE [witness_index |-> MessageIndex, targets_checked |-> TRUE]
        /\ UNCHANGED lock_error
  /\ UNCHANGED <<scanVars, lock, related_actions, position, verified>>

(***************************************************************************)
(* add_tx_level_actions: parses the message, or takes the actions of the   *)
(* cache, and checks all targets when one action is for this lock, unless  *)
(* the cache says they were checked.                                       *)
(***************************************************************************)
Cached == tx_level_action_cache.witness_index = MessageIndex
CheckedBefore == Cached /\ tx_level_action_cache.targets_checked

TxActionsError ==
  IF DuplicateSighashAll THEN "DuplicateSighashAll"
  ELSE IF SighashAlls # {} /\ ~Cached /\ ~Parses(TxMessage) THEN "InvalidMessageTarget"
  ELSE IF /\ SighashAlls # {} /\ LockActions(TxMessage) # {}
          /\ ~CheckedBefore /\ ~TargetsPresent(TxMessage)
    THEN "InvalidMessageTarget"
  ELSE "none"

TxRelatedActions ==
  {TxRef(MessageIndex, a - 1) : a \in LockActions(TxMessage)}

AddTxLevelActions ==
  /\ stage = "tx_actions"
  /\ \/ /\ TxActionsError # "none"
        /\ LockFails(TxActionsError)
        /\ UNCHANGED <<related_actions, tx_level_action_cache>>
     \/ /\ TxActionsError = "none"
        /\ stage' = "otx"
        /\ IF SighashAlls = {}
             THEN UNCHANGED <<related_actions, tx_level_action_cache>>
             ELSE /\ related_actions' = related_actions \cup TxRelatedActions
                  /\ tx_level_action_cache' =
                       [witness_index |-> MessageIndex,
                        targets_checked |-> CheckedBefore \/ LockActions(TxMessage) # {}]
        /\ UNCHANGED lock_error
  /\ UNCHANGED <<scanVars, lock, required_signatures, position, verified>>

(***************************************************************************)
(* add_otx_requirements: one OTX, then each of its append segments.        *)
(***************************************************************************)
Matching(seals) == {i \in 1..Len(seals) : seals[i].script_hash = lock}
\* Fault: the first of several seals is taken.
UniqueSealError_FirstTaken(seals) ==
  IF Matching(seals) = {} THEN "MissingLockSeal" ELSE "none"
UniqueSealError(seals) ==
  IF Matching(seals) = {} THEN "MissingLockSeal"
  ELSE IF \E i, j \in Matching(seals) : i # j THEN "DuplicateLockSeal"
  ELSE "none"
UniqueSeal(seals) == seals[CHOOSE i \in Matching(seals) : TRUE].seal

BaseSignature(k) == ContainsCurrentLock(InputSpan(k, 0))
\* Fault: the signature over the base is taken to cover the segments.
SegmentSignature_BaseCovers(k, s) == ~BaseSignature(k) /\ ContainsCurrentLock(InputSpan(k, s))
\* Fault: who signs the base signs every segment.
SegmentSignature_All(k, s) == BaseSignature(k) \/ ContainsCurrentLock(InputSpan(k, s))
SegmentSignature(k, s) == ContainsCurrentLock(InputSpan(k, s))
NeedsSignature(k) ==
  \E s \in 0..Len(OtxViewAt(k).segments) : ContainsCurrentLock(InputSpan(k, s))

\* The loop position after segment s of OTX k.
MoveOn(k, s) ==
  IF s < Len(OtxViewAt(k).segments)
    THEN otx_index' = k /\ segment_index' = s + 1
    ELSE otx_index' = k + 1 /\ segment_index' = 0

\* Fault: the position of an action is one too low.
OtxRelatedActions_OneLess(k) ==
  {OtxRef(otx_entries[k + 1], k, a - 2) : a \in LockActions(OtxViewAt(k).message)}
OtxRelatedActions(k) ==
  {OtxRef(otx_entries[k + 1], k, a - 1) : a \in LockActions(OtxViewAt(k).message)}

EnterOtxError(k) ==
  LET view == OtxViewAt(k) IN
    IF ~Parses(view.message) THEN "InvalidMessageTarget"
    ELSE IF /\ NeedsSignature(k) \/ LockActions(view.message) # {}
            /\ ~TargetsPresent(view.message)
      THEN "InvalidMessageTarget"
    ELSE IF BaseSignature(k) THEN UniqueSealError(view.base_seals)
    ELSE "none"

BaseRequirement(k) ==
  Requirement("otx_base", otx_entries[k + 1], 0,
              UniqueSeal(OtxViewAt(k).base_seals), OtxBaseHash(OtxViewAt(k)))
SegmentRequirement(k, s) ==
  Requirement("otx_append_segment", otx_entries[k + 1], s,
              UniqueSeal(OtxViewAt(k).segments[s].seals),
              OtxAppendSegmentHash(OtxViewAt(k), s))

\* add_otx_requirement, up to the loop over the required segments.
EnterOtx ==
  /\ stage = "otx"
  /\ phase = "complete" /\ otx_index < Len(otx_entries) /\ segment_index = 0
  /\ \/ /\ EnterOtxError(otx_index) # "none"
        /\ LockFails(EnterOtxError(otx_index))
        /\ UNCHANGED <<required_signatures, related_actions, position>>
     \/ /\ EnterOtxError(otx_index) = "none"
        /\ related_actions' = related_actions \cup OtxRelatedActions(otx_index)
        /\ IF BaseSignature(otx_index)
             THEN required_signatures' =
                    Append(required_signatures, BaseRequirement(otx_index))
             ELSE UNCHANGED required_signatures
        /\ MoveOn(otx_index, 0)
        /\ UNCHANGED <<stage, lock_error>>
  /\ UNCHANGED <<scanVars, lock, tx_level_action_cache, verified>>

\* One append segment: a requirement if it holds an input of this lock.
VisitSegment ==
  /\ stage = "otx"
  /\ segment_index > 0
  /\ LET seals == OtxViewAt(otx_index).segments[segment_index].seals IN
       \/ /\ ~SegmentSignature(otx_index, segment_index)
          /\ MoveOn(otx_index, segment_index)
          /\ UNCHANGED <<stage, lock_error, required_signatures>>
       \/ /\ SegmentSignature(otx_index, segment_index)
          /\ UniqueSealError(seals) # "none"
          /\ LockFails(UniqueSealError(seals))
          /\ UNCHANGED <<required_signatures, position>>
       \/ /\ SegmentSignature(otx_index, segment_index)
          /\ UniqueSealError(seals) = "none"
          /\ required_signatures' =
               Append(required_signatures, SegmentRequirement(otx_index, segment_index))
          /\ MoveOn(otx_index, segment_index)
          /\ UNCHANGED <<stage, lock_error>>
  /\ UNCHANGED <<scanVars, lock, related_actions, tx_level_action_cache, verified>>

AllOtxVisited ==
  /\ stage = "otx"
  /\ phase = "none" \/ otx_index = Len(otx_entries)
  /\ stage' = "coverage"
  /\ UNCHANGED <<scanVars, lock, lock_error, plan, position, verified>>

(***************************************************************************)
(* ensure_otx_lock_group_coverage.                                         *)
(***************************************************************************)
Planned(origins) ==
  \E r \in 1..Len(required_signatures) : required_signatures[r].origin \in origins

UncoveredByOtx ==
  /\ Planned({"otx_base", "otx_append_segment"})
  /\ ~Planned({"tx_level"})
  /\ phase = "complete"
  /\ \E i \in CurrentLockInputs : ~InSpan(i, InputRange)

EnsureCoverage ==
  /\ stage = "coverage"
  /\ IF UncoveredByOtx
       THEN LockFails("MissingLockGroupCoverage")
       ELSE stage' = "verify" /\ UNCHANGED lock_error
  /\ UNCHANGED <<scanVars, lock, plan, position, verified>>

(***************************************************************************)
(* entry.rs: no requirement at all is a failure; every requirement is      *)
(* verified, in the order planned.                                         *)
(***************************************************************************)
VerifyNext ==
  /\ stage = "verify"
  /\ verified < Len(required_signatures)
  /\ LET r == required_signatures[verified + 1] IN
       \/ /\ Verifies(r.seal, r.signing_message_hash)
          /\ verified' = verified + 1
          /\ UNCHANGED <<stage, lock_error>>
       \/ /\ ~Verifies(r.seal, r.signing_message_hash)
          /\ LockFails("VerifyFailure")
          /\ UNCHANGED verified
  /\ UNCHANGED <<scanVars, lock, plan, position>>

Exit ==
  /\ stage = "verify"
  /\ verified = Len(required_signatures)
  /\ \/ /\ required_signatures = <<>>
        /\ LockFails("LockSemanticFailure")
     \/ /\ required_signatures # <<>>
        /\ stage' = "accepted"
        /\ UNCHANGED lock_error
  /\ UNCHANGED <<scanVars, lock, plan, position, verified>>

LockNext ==
  \/ ScanStep
  \/ BeginPlan
  \/ AddTxLevelRequirement
  \/ AddTxLevelActions
  \/ EnterOtx
  \/ VisitSegment
  \/ AllOtxVisited
  \/ EnsureCoverage
  \/ VerifyNext
  \/ Exit

LockInit == Init /\ InitLock
LockSpec == LockInit /\ [][LockNext]_vars
-----------------------------------------------------------------------------
(***************************************************************************)
(* Properties.                                                             *)
(***************************************************************************)
Requirements == {required_signatures[r] : r \in 1..Len(required_signatures)}

\* What is known of requirement r: it is for this scope, and over this hash.
ForTxLevel(r) ==
  /\ r.origin = "tx_level"
  /\ r.signing_message_hash =
       IF SighashAlls = {} THEN TxWithoutMessageHash ELSE TxWithMessageHash(TxMessage)
ForPiece(r, p) ==
  /\ r.carrier_witness_index = otx_entries[p.otx + 1]
  /\ r.segment = p.segment
  /\ \/ /\ p.segment = 0 /\ r.origin = "otx_base"
        /\ r.signing_message_hash = OtxBaseHash(OtxViewAt(p.otx))
     \/ /\ p.segment > 0 /\ r.origin = "otx_append_segment"
        /\ r.signing_message_hash = OtxAppendSegmentHash(OtxViewAt(p.otx), p.segment)

\* Two requirements are for the transaction, or for one base or segment of one OTX.
SameScope(r, q) ==
  /\ r.origin = q.origin
  /\ r.origin # "tx_level" =>
       r.carrier_witness_index = q.carrier_witness_index /\ r.segment = q.segment

InPiece(i, p) == InSpan(i, pieces[p].span["inputs"])
OutsideOtx(i) == phase = "none" \/ \A p \in 1..Len(pieces) : ~InPiece(i, p)
\* Requirement r is over the scope input i is spent in.
SignsFor(r, i) ==
  \/ OutsideOtx(i) /\ ForTxLevel(r)
  \/ \E p \in 1..Len(pieces) : InPiece(i, p) /\ ForPiece(r, pieces[p])

Planning == {"scan", "tx_requirement", "tx_actions", "otx"}

BaseHash == [domain : {"ckbcb_otb_core1"}, message : Message,
             append_permissions : PermissionByte, base : Counts, items : Nat]
Entities == [flags : FlagByte, counts : Counts, items : Nat]
SigningRequirement ==
  [origin : {"tx_level", "otx_base", "otx_append_segment"},
   carrier_witness_index : Nat, segment : Nat, seal : Seal,
   signing_message_hash :
     [domain : {"ckbcb_twm_core1"}, message : Message]
       \cup [domain : {"ckbcb_tnm_core1"}]
       \cup BaseHash
       \cup [domain : {"ckbcb_ots_core1"}, base_hash : BaseHash,
             previous : Seq(Entities), segment : Entities]]

\* The values the lock script's own variables range over.
LockTypeOK ==
  /\ lock \in Script
  /\ stage \in Stage
  /\ lock_error \in LockError
  /\ required_signatures \in Seq(SigningRequirement)
  /\ related_actions \subseteq ActionRef
  /\ tx_level_action_cache \in
       [witness_index : Nat \cup {None}, targets_checked : BOOLEAN]
  /\ otx_index \in Nat
  /\ segment_index \in Nat
  /\ verified \in 0..Len(required_signatures)

\* entry.rs, engine.rs build: when the lock script succeeds, every input of its
\* group is under a verified signature of its own scope: of the OTX base or the
\* append segment it lies in, or, outside all OTX, of the whole transaction.
AuthorisedInputs ==
  stage = "accepted" =>
    \A i \in CurrentLockInputs : \E r \in Requirements :
      SignsFor(r, i) /\ Verifies(r.seal, r.signing_message_hash)

\* engine.rs add_tx_level_requirement, add_otx_signatures: in a transaction with a
\* Cobuild layout a finished plan holds exactly one requirement for each scope that
\* spends an input of the group, over the content of that scope, and none for a scope
\* that spends none.  Two OTX of equal content are two scopes: each is asked for its
\* own seal, over the hash they share.
OneRequirementPerScope ==
  stage \notin Planning \cup {"rejected"} =>
    /\ \A r, q \in 1..Len(required_signatures) : r # q =>
         ~SameScope(required_signatures[r], required_signatures[q])
    /\ \A r \in Requirements : \E i \in CurrentLockInputs : SignsFor(r, i)
    /\ has_cobuild_witness_layout =>
         \A i \in CurrentLockInputs : \E r \in Requirements : SignsFor(r, i)

\* The message of the witness at this index, if it holds one.
MessageAt(w) ==
  IF WitnessAt(w).kind = "otx" THEN WitnessAt(w).view.message ELSE WitnessAt(w).message
OtxWitnesses == {w \in 0..(Len(tx.witnesses) - 1) : WitnessAt(w).kind = "otx"}
MessageWitnesses ==
  {w \in 0..(Len(tx.witnesses) - 1) : WitnessAt(w).kind \in {"otx", "sighash_all"}}

\* engine.rs checked_tx_level_message_actions, push_otx_actions: a finished plan
\* relates every action any message addresses to this lock, and nothing else;
\* every message one of them comes from, and every message the lock signs for,
\* names only scripts the transaction has, cached result or not.
RelatedActionsChecked ==
  stage \notin Planning \cup {"rejected"} =>
    /\ related_actions =
         UNION {{IF WitnessAt(w).kind = "otx"
                   THEN OtxRef(w, Cardinality({v \in OtxWitnesses : v < w}), a - 1)
                   ELSE TxRef(w, a - 1) : a \in LockActions(MessageAt(w))} :
                  w \in MessageWitnesses}
    /\ \A action \in related_actions : TargetsPresent(MessageAt(action.witness_index))
    /\ \A r \in Requirements :
         /\ r.origin = "tx_level" =>
              \A w \in SighashAlls : TargetsPresent(MessageAt(w))
         /\ r.origin # "tx_level" => TargetsPresent(MessageAt(r.carrier_witness_index))

\* engine.rs ensure_otx_lock_group_coverage: the check is a second line of
\* defence.  An input of the group outside every OTX has already led to a
\* tx-level requirement or to an error, so it never fires.
CoverageGuardRedundant == lock_error # "MissingLockGroupCoverage"
-----------------------------------------------------------------------------
(***************************************************************************)
(* LockPlan implements LockRules.                                          *)
(***************************************************************************)
MadePlan ==
  stage \in {"verify", "accepted"} \/ lock_error \in {"VerifyFailure", "LockSemanticFailure"}
LockPromise == INSTANCE LockRules
  WITH verdict <- IF stage \in {"accepted", "rejected"} THEN stage
                  ELSE IF stage = "verify" THEN "planned" ELSE "pending",
       related <- IF MadePlan THEN related_actions ELSE {}

\* entry.rs main: the plan is made for exactly the transactions the rules plan for,
\* with the same related actions, and verification ends in success exactly where all
\* the signatures the rules ask for are there, whatever the order of the checks.
ImplementsLockRules == LockPromise!LockSpec
=============================================================================
