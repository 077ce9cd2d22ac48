---------------------------- MODULE LedgerProofs ----------------------------
(***************************************************************************)
(* Proofs about Ledger, for every genesis without orders and minters, and  *)
(* whatever transactions are put forward: the escrow of an order, the cap  *)
(* of a minter, that no NFT is minted twice, that a UDT does not grow      *)
(* without its owner, and that owners are paid for each of their orders.   *)
(***************************************************************************)
EXTENDS Ledger, Sums

\* The rules of the planners count with the same operator.
LEMMA SameCardinality ==
  ASSUME NEW S
  PROVE  TypePlans!Cardinality(S) = Cardinality(S)
BY DEF TypePlans!Cardinality, Cardinality

\* A set of positions of a list, counted from one, is finite.
LEMMA PartIsFinite ==
  ASSUME NEW n \in Nat, NEW S, S \subseteq 1..n
  PROVE  IsFiniteSet(S)
<1>1. IsFiniteSet(1..n)
  BY FS_Interval
<1> QED
  BY <1>1, FS_Subset

\* A set of positions of a list, counted from zero, is finite.
LEMMA PositionsAreFinite ==
  ASSUME NEW n \in Nat, NEW S, S \subseteq 0..(n - 1)
  PROVE  IsFiniteSet(S)
<1>1. IsFiniteSet(0..(n - 1))
  BY FS_Interval
<1> QED
  BY <1>1, FS_Subset

\* A message at tx level relates finitely many actions to a type script.
LEMMA TxRelationsFinite ==
  ASSUME NEW t, NEW ty, NEW w, IsList(t.witnesses[w + 1].message)
  PROVE  IsFiniteSet(TypePlans!TxRelations(t, w, ty))
<1> DEFINE own == TypePlans!Own(t.witnesses[w + 1].message, ty)
           f == [a \in own |-> [ref |-> [origin |-> "tx_level", witness_index |-> w, action_index |-> a - 1],
                                otx_type_scope |-> {}]]
<1>1. IsFiniteSet(own)
  BY PartIsFinite DEF IsList, TypePlans!Own
<1>2. f \in Surjection(own, TypePlans!TxRelations(t, w, ty))
  BY DEF Surjection, TypePlans!TxRelations
<1> QED
  BY <1>1, <1>2, FS_Surjection

\* The message of an OTX relates finitely many actions to a type script.
LEMMA OtxRelationsFinite ==
  ASSUME NEW t, NEW ty, NEW k, IsList(TypePlans!ViewOf(t, k).message)
  PROVE  IsFiniteSet(TypePlans!OtxRelations(t, k, ty))
<1> DEFINE own == TypePlans!Own(TypePlans!ViewOf(t, k).message, ty)
           scope == IF TypePlans!HasCellsIn(t, k, ty) THEN {TypePlans!Relation(t, k, ty)} ELSE {}
           f == [a \in own |-> [ref |-> [origin |-> "otx", witness_index |-> TypePlans!FirstOtx(t) + k,
                                         otx_index |-> k, action_index |-> a - 1],
                                otx_type_scope |-> scope]]
<1>1. IsFiniteSet(own)
  BY PartIsFinite DEF IsList, TypePlans!Own
<1>2. f \in Surjection(own, TypePlans!OtxRelations(t, k, ty))
  BY DEF Surjection, TypePlans!OtxRelations
<1> QED
  BY <1>1, <1>2, FS_Surjection

\* The witnesses of a kind are finitely many.
LEMMA KindIsFinite ==
  ASSUME NEW t, IsList(t.witnesses), NEW kind
  PROVE  IsFiniteSet(TypePlans!At(t, kind))
BY PositionsAreFinite DEF IsList, TypePlans!At, TypePlans!Positions

\* A finite union of finite sets is finite.
LEMMA FiniteUnion ==
  ASSUME NEW S, IsFiniteSet(S), NEW f, \A x \in S : IsFiniteSet(f[x])
  PROVE  IsFiniteSet(UNION {f[x] : x \in S})
<1> DEFINE g == [x \in S |-> f[x]]
<1>1. g \in Surjection(S, {f[x] : x \in S})
  BY DEF Surjection
<1>2. IsFiniteSet({f[x] : x \in S})
  BY <1>1, FS_Surjection
<1>3. \A T \in {f[x] : x \in S} : IsFiniteSet(T)
  OBVIOUS
<1> QED
  BY <1>2, <1>3, FS_UNION

\* In a plan the OTX are one run of witnesses, so OTX k is the witness k places after the
\* first.
LEMMA OtxWitness ==
  ASSUME NEW t, NEW ty, Readable(t.witnesses), TypePlans!Plans(t, ty), TypePlans!At(t, "otx") # {}
  PROVE  /\ Cardinality(TypePlans!At(t, "otx")) \in Nat
         /\ TypePlans!FirstOtx(t) \in Nat
         /\ \A k \in TypePlans!OtxNumbers(t) :
              k \in Nat /\ TypePlans!FirstOtx(t) + k \in TypePlans!At(t, "otx")
<1> IsList(t.witnesses)
  BY DEF Readable
<1>1. TypePlans!OneRun(t)
  BY DEF TypePlans!Plans, TypePlans!Verdict
<1>2. Cardinality(TypePlans!At(t, "otx")) \in Nat
  BY KindIsFinite, FS_CardinalityType
<1>3. PICK s \in TypePlans!Positions(t) :
        /\ TypePlans!At(t, "otx_start") = {s}
        /\ TypePlans!At(t, "otx") = (s + 1)..(s + Cardinality(TypePlans!At(t, "otx")))
  BY <1>1, SameCardinality DEF TypePlans!OneRun
<1>4. TypePlans!FirstOtx(t) = s + 1
  BY <1>3 DEF TypePlans!FirstOtx
<1>5. s \in Nat
  BY <1>3 DEF TypePlans!Positions, IsList
<1> QED
  BY <1>2, <1>3, <1>4, <1>5, SameCardinality DEF TypePlans!OtxNumbers

\* A plan relates finitely many actions to a type script: it has one run of OTX, and
\* every message ends.
LEMMA RelationsFinite ==
  ASSUME NEW t, NEW ty, Readable(t.witnesses), TypePlans!Plans(t, ty)
  PROVE  IsFiniteSet(TypePlans!Relations(t, ty))
<1> DEFINE tx == [w \in TypePlans!At(t, "sighash_all") |-> TypePlans!TxRelations(t, w, ty)]
           otx == [k \in TypePlans!OtxNumbers(t) |-> TypePlans!OtxRelations(t, k, ty)]
<1> IsList(t.witnesses)
  BY DEF Readable
<1>1. \A kind : \A w \in TypePlans!At(t, kind) : w + 1 \in DOMAIN t.witnesses /\ t.witnesses[w + 1].kind = kind
  BY DEF IsList, TypePlans!At, TypePlans!Positions
<1>2. IsFiniteSet(UNION {tx[w] : w \in TypePlans!At(t, "sighash_all")})
  <2>1. ASSUME NEW w \in TypePlans!At(t, "sighash_all")
        PROVE  IsFiniteSet(tx[w])
    <3>1. IsList(t.witnesses[w + 1].message)
      BY <1>1 DEF Readable
    <3> QED
      BY <3>1, TxRelationsFinite
  <2>2. IsFiniteSet(TypePlans!At(t, "sighash_all"))
    BY KindIsFinite
  <2> HIDE DEF tx
  <2> QED
    BY <2>1, <2>2, FiniteUnion
<1>3. ASSUME TypePlans!At(t, "otx") # {}
      PROVE  IsFiniteSet(UNION {otx[k] : k \in TypePlans!OtxNumbers(t)})
  <2>1. /\ Cardinality(TypePlans!At(t, "otx")) \in Nat
        /\ \A k \in TypePlans!OtxNumbers(t) : TypePlans!FirstOtx(t) + k \in TypePlans!At(t, "otx")
    BY <1>3, OtxWitness
  <2>2. \A k \in TypePlans!OtxNumbers(t) : IsList(TypePlans!ViewOf(t, k).message)
    BY <2>1, <1>1 DEF Readable, TypePlans!ViewOf
  <2>3. ASSUME NEW k \in TypePlans!OtxNumbers(t)
        PROVE  IsFiniteSet(otx[k])
    BY <2>2, OtxRelationsFinite
  <2>4. IsFiniteSet(TypePlans!OtxNumbers(t))
    BY <2>1, PositionsAreFinite, SameCardinality DEF TypePlans!OtxNumbers
  <2> HIDE DEF otx
  <2> QED
    BY <2>3, <2>4, FiniteUnion
<1>4. TypePlans!Relations(t, ty) =
        (UNION {tx[w] : w \in TypePlans!At(t, "sighash_all")})
          \cup (IF TypePlans!At(t, "otx") = {} THEN {}
                ELSE UNION {otx[k] : k \in TypePlans!OtxNumbers(t)})
  BY DEF TypePlans!Relations
<1> DEFINE atTx == UNION {tx[w] : w \in TypePlans!At(t, "sighash_all")}
           atOtx == UNION {otx[k] : k \in TypePlans!OtxNumbers(t)}
<1>5. IsFiniteSet(atTx)
  BY <1>2
<1>6. TypePlans!At(t, "otx") = {} => TypePlans!Relations(t, ty) = atTx
  BY <1>4
<1>7. TypePlans!At(t, "otx") # {} => /\ IsFiniteSet(atOtx)
                                    /\ TypePlans!Relations(t, ty) = atTx \cup atOtx
  BY <1>3, <1>4
<1> HIDE DEF atTx, atOtx
<1> QED
  BY <1>5, <1>6, <1>7, FS_Union

\* The actions a plan relates can be counted: what mint.rs adds to a counter is a number.
LEMMA ActionsAreFinite ==
  ASSUME NEW t, NEW ty, Readable(t.witnesses), TypePlans!Plans(t, ty)
  PROVE  /\ IsFiniteSet({r.ref : r \in TypePlans!Relations(t, ty)})
         /\ Cardinality({r.ref : r \in TypePlans!Relations(t, ty)}) \in Nat
<1> DEFINE relations == TypePlans!Relations(t, ty)
           f == [r \in relations |-> r.ref]
<1>1. IsFiniteSet(relations)
  BY RelationsFinite
<1>2. f \in Surjection(relations, {r.ref : r \in relations})
  BY DEF Surjection
<1>3. IsFiniteSet({r.ref : r \in relations})
  BY <1>1, <1>2, FS_Surjection
<1> QED
  BY <1>3, FS_CardinalityType

\* A related action stands at a place: a witness, and an action of its message.  Two
\* related actions stand at different places.
LEMMA ActionPlaces ==
  ASSUME NEW t, NEW ty, Readable(t.witnesses), TypePlans!Plans(t, ty)
  PROVE  LET refs == {r.ref : r \in TypePlans!Relations(t, ty)} IN
         /\ \A ref \in refs : ref.witness_index \in Nat /\ ref.action_index \in Int
         /\ \A one, other \in refs : one = other \/ Precedes(one, other) \/ Precedes(other, one)
<1> DEFINE refs == {r.ref : r \in TypePlans!Relations(t, ty)}
           TxRefAt(w, a) == [origin |-> "tx_level", witness_index |-> w, action_index |-> a - 1]
           OtxRefAt(k, a) == [origin |-> "otx", witness_index |-> TypePlans!FirstOtx(t) + k,
                              otx_index |-> k, action_index |-> a - 1]
           AtTx(ref) == \E w \in TypePlans!At(t, "sighash_all"), a \in Int : ref = TxRefAt(w, a)
           AtOtx(ref) == /\ TypePlans!At(t, "otx") # {}
                         /\ \E k \in TypePlans!OtxNumbers(t), a \in Int : ref = OtxRefAt(k, a)
<1>1. \A message, script : TypePlans!Own(message, script) \subseteq Int
  BY DEF TypePlans!Own
<1>2. ASSUME NEW r \in TypePlans!Relations(t, ty)
      PROVE  AtTx(r.ref) \/ AtOtx(r.ref)
  <2>1. CASE \E w \in TypePlans!At(t, "sighash_all") : r \in TypePlans!TxRelations(t, w, ty)
    BY <1>1, <2>1 DEF TypePlans!TxRelations
  <2>2. CASE /\ TypePlans!At(t, "otx") # {}
             /\ \E k \in TypePlans!OtxNumbers(t) : r \in TypePlans!OtxRelations(t, k, ty)
    BY <1>1, <2>2 DEF TypePlans!OtxRelations
  <2> QED
    BY <2>1, <2>2 DEF TypePlans!Relations
<1>3. \A ref \in refs : AtTx(ref) \/ AtOtx(ref)
  BY <1>2
<1>4. \A w \in TypePlans!At(t, "sighash_all") :
        w \in Nat /\ t.witnesses[w + 1].kind = "sighash_all"
  BY DEF TypePlans!At, TypePlans!Positions, Readable, IsList
<1>5. ASSUME TypePlans!At(t, "otx") # {}, NEW k \in TypePlans!OtxNumbers(t)
      PROVE  /\ k \in Nat /\ TypePlans!FirstOtx(t) \in Nat
             /\ t.witnesses[TypePlans!FirstOtx(t) + k + 1].kind = "otx"
  <2>1. /\ k \in Nat /\ TypePlans!FirstOtx(t) \in Nat
        /\ TypePlans!FirstOtx(t) + k \in TypePlans!At(t, "otx")
    BY <1>5, OtxWitness
  <2> QED
    BY <2>1 DEF TypePlans!At
<1>6. ASSUME NEW ref \in refs
      PROVE  ref.witness_index \in Nat /\ ref.action_index \in Int
  BY <1>3, <1>4, <1>5
<1>7. ASSUME NEW one \in refs, NEW other \in refs,
             one.witness_index = other.witness_index, one.action_index = other.action_index
      PROVE  one = other
  <2>1. CASE AtTx(one) /\ AtTx(other)
    <3>1. PICK w \in TypePlans!At(t, "sighash_all"), a \in Int : one = TxRefAt(w, a)
      BY <2>1
    <3>2. PICK v \in TypePlans!At(t, "sighash_all"), b \in Int : other = TxRefAt(v, b)
      BY <2>1
    <3> QED
      BY <1>7, <3>1, <3>2
  <2>2. CASE AtOtx(one) /\ AtOtx(other)
    <3>1. PICK k \in TypePlans!OtxNumbers(t), a \in Int : one = OtxRefAt(k, a)
      BY <2>2
    <3>2. PICK l \in TypePlans!OtxNumbers(t), b \in Int : other = OtxRefAt(l, b)
      BY <2>2
    <3>3. k \in Nat /\ l \in Nat /\ TypePlans!FirstOtx(t) \in Nat
      BY <2>2, <1>5
    <3> QED
      BY <1>7, <3>1, <3>2, <3>3
  <2>3. CASE (AtTx(one) /\ AtOtx(other)) \/ (AtOtx(one) /\ AtTx(other))
    BY <1>4, <1>5, <1>7, <2>3
  <2> QED
    BY <1>3, <2>1, <2>2, <2>3
<1>8. ASSUME NEW one \in refs, NEW other \in refs
      PROVE  one = other \/ Precedes(one, other) \/ Precedes(other, one)
  <2>1. /\ one.witness_index \in Nat /\ one.action_index \in Int
        /\ other.witness_index \in Nat /\ other.action_index \in Int
    BY <1>6
  <2> HIDE DEF refs
  <2> QED
    BY <1>7, <2>1 DEF Precedes
<1> QED
  BY <1>6, <1>8

\* mint_actions: served in the order of their places, the actions take the serials from the
\* counter on, and leave none out.
LEMMA EverySerialTaken ==
  ASSUME NEW refs, IsFiniteSet(refs), NEW counter \in Nat,
         \A ref \in refs : ref.witness_index \in Nat /\ ref.action_index \in Int,
         \A one, other \in refs : one = other \/ Precedes(one, other) \/ Precedes(other, one),
         NEW serial \in counter..(counter + Cardinality(refs) - 1)
  PROVE  \E ref \in refs : SerialOf(counter, refs, ref) = serial
<1> DEFINE Earlier(ref) == {other \in refs : Precedes(other, ref)}
           n == Cardinality(refs)
           rank == [ref \in refs |-> Cardinality(Earlier(ref))]
<1>1. n \in Nat
  BY FS_CardinalityType
<1>2. \A ref \in refs : ~Precedes(ref, ref)
  BY DEF Precedes
<1>3. \A one, other \in refs : Precedes(one, other) => Earlier(one) \subseteq Earlier(other)
  BY DEF Precedes
<1>4. ASSUME NEW ref \in refs
      PROVE  /\ IsFiniteSet(Earlier(ref)) /\ Cardinality(Earlier(ref)) \in Nat
             /\ Cardinality(Earlier(ref)) < n
  <2>1. Earlier(ref) \in SUBSET refs
    OBVIOUS
  <2>2. Earlier(ref) # refs
    BY <1>2
  <2> DEFINE E == Earlier(ref)
  <2> HIDE DEF E
  <2>3. IsFiniteSet(E) /\ Cardinality(E) <= n /\ Cardinality(E) # n
    BY <2>1, <2>2, FS_Subset DEF E
  <2>4. Cardinality(E) \in Nat
    BY <2>3, FS_CardinalityType
  <2>5. Cardinality(E) < n
    BY <1>1, <2>3, <2>4
  <2> QED
    BY <2>3, <2>4, <2>5 DEF E
<1>5. ASSUME NEW one \in refs, NEW other \in refs, Precedes(one, other)
      PROVE  rank[one] # rank[other]
  <2> DEFINE A == Earlier(one)
             B == Earlier(other)
  <2>1. A \in SUBSET B /\ A # B
    BY <1>2, <1>3, <1>5
  <2>2. IsFiniteSet(B)
    BY <1>4
  <2> HIDE DEF A, B
  <2>3. Cardinality(A) # Cardinality(B)
    BY <2>1, <2>2, FS_Subset
  <2> QED
    BY <2>3 DEF A, B
<1>6. rank \in Injection(refs, 0..(n - 1))
  <2>1. ASSUME NEW ref \in refs
        PROVE  rank[ref] \in 0..(n - 1)
    <3>1. rank[ref] \in Nat /\ rank[ref] < n
      BY <1>4
    <3> HIDE DEF rank, n
    <3> QED
      BY <1>1, <3>1
  <2>2. \A one, other \in refs : rank[one] = rank[other] => one = other
    BY <1>5
  <2> HIDE DEF rank, n
  <2>3. rank \in [refs -> 0..(n - 1)]
    BY <2>1 DEF rank
  <2> QED
    BY <2>2, <2>3 DEF Injection, IsInjective
<1>7. IsFiniteSet(0..(n - 1)) /\ Cardinality(0..(n - 1)) = n
  <2> HIDE DEF n
  <2> QED
    BY <1>1, FS_Interval
<1>8. rank \in Surjection(refs, 0..(n - 1))
  <2> HIDE DEF rank
  <2> QED
    BY <1>6, <1>7, FS_Injection
<1>9. serial - counter \in 0..(n - 1)
  <2>1. serial \in counter..(counter + n - 1)
    OBVIOUS
  <2> HIDE DEF n
  <2> QED
    BY <1>1, <2>1
<1>10. PICK ref \in refs : rank[ref] = serial - counter
  BY <1>8, <1>9 DEF Surjection
<1>11. SerialOf(counter, refs, ref) = counter + rank[ref]
  BY DEF SerialOf
<1>12. serial \in Int
  BY <1>1
<1> QED
  BY <1>10, <1>11, <1>12

\* The size of a script's group: none, one or more cells of a list that ends.
LEMMA GroupSize ==
  ASSUME NEW list, NEW script, IsFiniteSet(DOMAIN list)
  PROVE  LET group == TypeGroup(list, script) IN
         /\ Cardinality(group) \in Nat
         /\ Cardinality(group) = 0 <=> group = {}
         /\ Cardinality(group) = 1 => \E i \in DOMAIN list : group = {i}
         /\ Cardinality(group) <= 1 => \A i, j \in group : i = j
<1> DEFINE group == TypeGroup(list, script)
<1>1. group \subseteq DOMAIN list
  BY DEF TypeGroup
<1>2. IsFiniteSet(group)
  BY <1>1, FS_Subset
<1>3. Cardinality(group) \in Nat /\ (Cardinality(group) = 0 <=> group = {})
  BY <1>2, FS_CardinalityType, FS_EmptySet
<1>4. Cardinality(group) = 1 => \E i \in DOMAIN list : group = {i}
  BY <1>1, <1>2, FS_Singleton
<1>5. Cardinality(group) <= 1 => \A i, j \in group : i = j
  <2>1. Cardinality(group) <= 1 => Cardinality(group) = 0 \/ Cardinality(group) = 1
    BY <1>3
  <2> QED
    BY <2>1, <1>3, <1>4
<1> QED
  BY <1>3, <1>4, <1>5

\* The one cell of a group is the cell the contracts read.
LEMMA OnlyCell ==
  ASSUME NEW list, NEW script, NEW i \in TypeGroup(list, script),
         \A j, k \in TypeGroup(list, script) : j = k
  PROVE  CellIn(list, script) = list[i]
BY DEF CellIn

\* A type script occurs in a list when its group is not empty.
LEMMA TypesInList ==
  ASSUME NEW list, NEW script
  PROVE  script \in Types(list) <=> TypeGroup(list, script) # {}
BY DEF Types, TypeGroup

-----------------------------------------------------------------------------
\* A transaction that can be committed, as Next puts it.
Valid(inputs, outputs, witnesses) ==
  /\ Spendable(inputs)
  /\ Creatable(outputs)
  /\ Readable(witnesses)
  /\ Accepted(Tx(inputs, outputs, <<>>), CodeNames \ Cobuild)
  /\ Accepted(Tx(inputs, outputs, witnesses), Cobuild)

\* The inputs and the outputs of a transaction end.
LEMMA ListsAreFinite ==
  ASSUME NEW inputs, NEW outputs, NEW witnesses, Valid(inputs, outputs, witnesses)
  PROVE  IsFiniteSet(DOMAIN CellsOf(inputs)) /\ IsFiniteSet(DOMAIN outputs)
<1>1. DOMAIN CellsOf(inputs) = 1..Len(inputs) /\ Len(inputs) \in Nat
  BY DEF Valid, Spendable, IsList, CellsOf
<1>2. DOMAIN outputs = 1..Len(outputs) /\ Len(outputs) \in Nat
  BY DEF Valid, Creatable, IsList
<1> QED
  BY <1>1, <1>2, FS_Interval

\* An input of a script's group is a live cell of that type.
LEMMA SpentCell ==
  ASSUME NEW inputs, NEW outputs, NEW witnesses, Valid(inputs, outputs, witnesses),
         NEW script, NEW i \in TypeGroup(CellsOf(inputs), script)
  PROVE  /\ inputs[i] \in live /\ inputs[i] \in Range(inputs)
         /\ script \in inputs[i].cell.type
         /\ CellsOf(inputs)[i] = inputs[i].cell
BY DEF Valid, Spendable, TypeGroup, CellsOf, Range

\* A committed transaction with a minter's script was accepted by it.
LEMMA MinterAccepted ==
  ASSUME NEW inputs, NEW outputs, NEW witnesses, Valid(inputs, outputs, witnesses),
         NEW script \in Types(CellsOf(inputs)) \cup Types(outputs),
         Code(script) = "nft_minter_type"
  PROVE  MinterAccepts(Tx(inputs, outputs, witnesses), script, taken)
<1>1. TypeAccepts(Tx(inputs, outputs, witnesses), script)
  BY DEF Valid, Accepted, Tx, Cobuild
<1> QED
  BY <1>1 DEF TypeAccepts

\* A committed transaction with an order's script was accepted by it.
LEMMA OrderAccepted ==
  ASSUME NEW inputs, NEW outputs, NEW witnesses, Valid(inputs, outputs, witnesses),
         NEW script \in Types(CellsOf(inputs)) \cup Types(outputs),
         Code(script) = "limit_order_type"
  PROVE  OrderTypeAccepts(Tx(inputs, outputs, witnesses), script, taken)
<1>1. TypeAccepts(Tx(inputs, outputs, witnesses), script)
  BY DEF Valid, Accepted, Tx, Cobuild
<1> QED
  BY <1>1 DEF TypeAccepts

\* A committed transaction with a minted NFT's script was accepted by it.
LEMMA NftAccepted ==
  ASSUME NEW inputs, NEW outputs, NEW witnesses, Valid(inputs, outputs, witnesses),
         NEW script \in Types(CellsOf(inputs)) \cup Types(outputs),
         Code(script) = "minted_nft_type"
  PROVE  MintedNftAccepts(Tx(inputs, outputs, <<>>), script)
<1>1. TypeAccepts(Tx(inputs, outputs, <<>>), script)
  BY DEF Valid, Accepted, Tx, Cobuild, CodeNames
<1> QED
  BY <1>1 DEF TypeAccepts

\* A transaction that spends a cell under a proxy lock spends a cell of the type the
\* lock names.
LEMMA ProxyOpened ==
  ASSUME NEW inputs, NEW outputs, NEW witnesses, Valid(inputs, outputs, witnesses),
         NEW script, ProxyLock(script) \in Locks(CellsOf(inputs))
  PROVE  script \in Types(CellsOf(inputs))
<1>1. Code(ProxyLock(script)) = "input_type_proxy_lock" /\ Args(ProxyLock(script)) = script
  BY DEF ProxyLock, ScriptOf, Code, Args
<1>2. LockAccepts(Tx(inputs, outputs, <<>>), ProxyLock(script))
  BY <1>1 DEF Valid, Accepted, Tx, Cobuild, CodeNames
<1>3. ProxyAccepts(Tx(inputs, outputs, <<>>), ProxyLock(script))
  BY <1>1, <1>2 DEF LockAccepts
<1> QED
  BY <1>1, <1>3 DEF ProxyAccepts, Tx

-----------------------------------------------------------------------------
\* A live cell's type script is among those that were ever used.
TypesTaken ==
  \A entry \in live : entry.cell.type \subseteq taken

\* No two live cells are of the same order or the same minter: their entry.rs accept one
\* cell on either side, and a type ID is not taken twice.
Lone == {"limit_order_type", "nft_minter_type"}
LoneCells ==
  \A script : Code(script) \in Lone =>
    \A one, other \in {entry \in live : script \in entry.cell.type} : one = other

\* The minter of an NFT ever issued has existed, and the serial is a number.
NftsKnown ==
  \A nft \in OfCode(taken, "minted_nft_type") :
    Args(nft)[1] \in taken /\ Args(nft)[2] \in Nat

\* A live minter has not passed its cap, and has issued serials below its counter alone.
SerialsBelow(minter, counter) ==
  \A nft \in OfCode(taken, "minted_nft_type") : Args(nft)[1] = minter => Args(nft)[2] < counter
CountersHold ==
  \A entry \in live : \A minter \in Minters(entry.cell.type) :
    LET data == entry.cell.data
    IN  /\ data.counter \in Nat /\ data.cap \in Nat
        /\ data.counter <= data.cap
        /\ SerialsBelow(minter, data.counter)

\* The inductive invariant.  EscrowHeld needs that no second cell of the order can open
\* the proxy lock; SupplyCapped needs that no second cell of the minter counts as well,
\* and that a new minter has no NFT already.
LedgerInv == TypesTaken /\ LoneCells /\ NftsKnown /\ CountersHold /\ EscrowHeld

\* It holds at first, as no cell of the genesis is an order, a minter or a minted NFT.
LEMMA LedgerInvAtGenesis == Init => LedgerInv
<1> SUFFICES ASSUME Init PROVE LedgerInv
  OBVIOUS
<1>1. \A entry \in live : entry.cell.type \subseteq taken
  BY DEF Init, Placed, Types
<1>2. \A script \in taken : Code(script) \notin Issuing
  BY GenesisAssumption DEF Init
<1> QED
  BY <1>1, <1>2 DEF LedgerInv, TypesTaken, LoneCells, NftsKnown, CountersHold, EscrowHeld,
                    OfCode, Minters, Lone, Issuing

\* A new cell of a type is an output of the script's group.
LEMMA CellMade ==
  ASSUME NEW outputs, NEW h, NEW entry \in Placed(outputs, h), NEW script \in entry.cell.type
  PROVE  \E o \in TypeGroup(outputs, script) : entry = [at |-> <<h, o>>, cell |-> outputs[o]]
BY DEF Placed, TypeGroup

\* An order or a minter is at most one output; new, it was never before.
LEMMA LoneOutput ==
  ASSUME NEW inputs, NEW outputs, NEW witnesses, Valid(inputs, outputs, witnesses),
         NEW script \in Types(outputs), Code(script) \in Lone
  PROVE  /\ \A i, j \in TypeGroup(outputs, script) : i = j
         /\ script \notin Types(CellsOf(inputs)) => script \notin taken
<1> DEFINE t == Tx(inputs, outputs, witnesses)
           ins == TypeGroup(CellsOf(inputs), script)
           outs == TypeGroup(outputs, script)
<1>1. t.inputs = CellsOf(inputs) /\ t.outputs = outputs
  BY DEF Tx
<1>2. Shape(t, script) = <<Cardinality(ins), Cardinality(outs)>>
  BY <1>1 DEF Shape
<1>3. /\ Cardinality(ins) \in Nat /\ (Cardinality(ins) = 0 <=> ins = {})
      /\ Cardinality(outs) \in Nat /\ (Cardinality(outs) = 0 <=> outs = {})
      /\ Cardinality(outs) <= 1 => \A i, j \in outs : i = j
  BY ListsAreFinite, GroupSize
<1>4. outs # {}
  BY TypesInList
<1>5. CASE Code(script) = "limit_order_type"
  <2>1. OrderTypeAccepts(t, script, taken)
    BY <1>5, OrderAccepted
  <2>2. Cardinality(outs) = 1 /\ Cardinality(ins) = 0 /\ CreateAccepts(t, script, taken)
    BY <2>1, <1>2, <1>3, <1>4 DEF OrderTypeAccepts
  <2> QED
    BY <2>2, <1>1, <1>3, TypesInList DEF CreateAccepts, CheckTypeId
<1>6. CASE Code(script) = "nft_minter_type"
  <2>1. MinterAccepts(t, script, taken)
    BY <1>6, MinterAccepted
  <2>2. Cardinality(outs) = 1 /\ (ins = {} => MinterCreateAccepts(t, script, taken))
    BY <2>1, <1>2, <1>3, <1>4 DEF MinterAccepts
  <2> QED
    BY <2>2, <1>1, <1>3, TypesInList DEF MinterCreateAccepts, CheckTypeId
<1> QED
  BY <1>5, <1>6 DEF Lone

\* When an order's or a minter's script is among the inputs, its one live cell is spent.
LEMMA SpentTogether ==
  ASSUME NEW inputs, NEW outputs, NEW witnesses, Valid(inputs, outputs, witnesses), LoneCells,
         NEW script \in Types(CellsOf(inputs)), Code(script) \in Lone,
         NEW entry \in live, script \in entry.cell.type
  PROVE  entry \in Range(inputs)
<1>1. PICK i \in TypeGroup(CellsOf(inputs), script) : TRUE
  BY TypesInList
<1>2. inputs[i] \in live /\ inputs[i] \in Range(inputs) /\ script \in inputs[i].cell.type
  BY <1>1, SpentCell
<1> QED
  BY <1>2 DEF LoneCells

\* What is spent was there before.
LEMMA KnownInputs ==
  ASSUME NEW inputs, NEW outputs, NEW witnesses, Valid(inputs, outputs, witnesses), TypesTaken
  PROVE  Types(CellsOf(inputs)) \subseteq taken
BY DEF Valid, Spendable, TypesTaken, Types, CellsOf

\* A new NFT comes with the one cell of its minter on either side, and its serial lies
\* between the two counters.
LEMMA MintedFromMinter ==
  ASSUME NEW inputs, NEW outputs, NEW witnesses, Valid(inputs, outputs, witnesses),
         NEW nft \in Types(outputs), Code(nft) = "minted_nft_type",
         nft \notin Types(CellsOf(inputs))
  PROVE  /\ Args(nft)[2] \in Nat
         /\ \E i \in DOMAIN inputs, o \in DOMAIN outputs :
              /\ TypeGroup(CellsOf(inputs), Args(nft)[1]) = {i}
              /\ TypeGroup(outputs, Args(nft)[1]) = {o}
              /\ inputs[i].cell.data.counter <= Args(nft)[2]
              /\ Args(nft)[2] < outputs[o].data.counter
<1> DEFINE t == Tx(inputs, outputs, <<>>)
           ins == TypeGroup(CellsOf(inputs), nft)
           outs == TypeGroup(outputs, nft)
           data == CellIn(outputs, nft).data
<1>1. t.inputs = CellsOf(inputs) /\ t.outputs = outputs
  BY DEF Tx
<1>2. \A script : Shape(t, script) = <<Cardinality(TypeGroup(CellsOf(inputs), script)),
                                       Cardinality(TypeGroup(outputs, script))>>
  BY <1>1 DEF Shape
<1>3. /\ Cardinality(ins) \in Nat /\ (Cardinality(ins) = 0 <=> ins = {})
      /\ Cardinality(outs) \in Nat /\ (Cardinality(outs) = 0 <=> outs = {})
  BY ListsAreFinite, GroupSize
<1>4. ins = {} /\ outs # {}
  BY TypesInList
<1>5. MintedNftAccepts(t, nft)
  BY NftAccepted
<1>6. Shape(t, nft) = <<0, 1>>
  <2>1. Shape(t, nft) \in {<<0, 1>>, <<1, 1>>, <<1, 0>>}
    BY <1>5 DEF MintedNftAccepts
  <2>2. Shape(t, nft) = <<Cardinality(ins), Cardinality(outs)>>
    BY <1>2
  <2>3. Cardinality(ins) = 0 /\ Cardinality(outs) # 0
    BY <1>3, <1>4
  <2> HIDE DEF ins, outs, t
  <2> QED
    BY <2>1, <2>2, <2>3
<1>7. IsMinted(CellIn(outputs, nft)) /\ NftCreateAccepts(t, nft)
  BY <1>1, <1>5, <1>6 DEF MintedNftAccepts
<1>8. /\ Args(nft)[1] = data.minter /\ Args(nft)[2] = data.serial
      /\ Shape(t, data.minter) = <<1, 1>>
      /\ SerialIsMinted(CellIn(CellsOf(inputs), data.minter).data,
                        CellIn(outputs, data.minter).data, data.serial)
  BY <1>1, <1>7 DEF NftCreateAccepts, nft_id
<1>9. \E i \in DOMAIN inputs : TypeGroup(CellsOf(inputs), data.minter) = {i}
  <2>1. DOMAIN CellsOf(inputs) = DOMAIN inputs
    BY DEF CellsOf
  <2> QED
    BY <1>2, <1>8, <2>1, ListsAreFinite, GroupSize
<1>10. \E o \in DOMAIN outputs : TypeGroup(outputs, data.minter) = {o}
  BY <1>2, <1>8, ListsAreFinite, GroupSize
<1>11. PICK i \in DOMAIN inputs, o \in DOMAIN outputs :
         TypeGroup(CellsOf(inputs), data.minter) = {i} /\ TypeGroup(outputs, data.minter) = {o}
  BY <1>9, <1>10
<1>12. /\ CellIn(CellsOf(inputs), data.minter) = inputs[i].cell
       /\ CellIn(outputs, data.minter) = outputs[o]
  <2>1. CellsOf(inputs)[i] = inputs[i].cell
    BY DEF CellsOf
  <2> QED
    BY <1>11, <2>1 DEF CellIn
<1>13. data.serial \in Nat
  <2>1. PICK p \in outs : TRUE
    BY <1>4
  <2>2. CellIn(outputs, nft) \in {outputs[q] : q \in outs}
    BY <2>1 DEF CellIn
  <2>3. \A q \in outs : NumbersFit(outputs[q])
    BY DEF Valid, Creatable, Storable, TypeGroup
  <2> QED
    BY <2>2, <2>3, <1>7, WidthAssumption DEF NumbersFit, IsMinted
<1> QED
  BY <1>8, <1>11, <1>12, <1>13 DEF SerialIsMinted

-----------------------------------------------------------------------------
\* A transaction leaves one cell of an order and of a minter.
LEMMA LoneCellsKept ==
  ASSUME NEW inputs, NEW outputs, NEW witnesses, Valid(inputs, outputs, witnesses),
         TypesTaken, LoneCells, Commit(inputs, outputs)
  PROVE  LoneCells'
<1> SUFFICES ASSUME NEW script, Code(script) \in Lone,
                    NEW one \in live', NEW other \in live',
                    script \in one.cell.type, script \in other.cell.type
             PROVE  one = other
  BY DEF LoneCells
<1> DEFINE kept == live \ Range(inputs)
           made == Placed(outputs, height + 1)
<1>1. live' = kept \cup made
  BY DEF Commit
<1>2. \A entry \in made : script \in entry.cell.type => script \in Types(outputs)
  BY DEF Placed, Types
<1>3. \A entry \in kept : script \in entry.cell.type =>
        script \in taken /\ script \notin Types(CellsOf(inputs))
  BY SpentTogether DEF TypesTaken
<1>4. CASE one \in kept /\ other \in kept
  BY <1>4 DEF LoneCells
<1>5. CASE one \in made /\ other \in made
  <2>1. \A i, j \in TypeGroup(outputs, script) : i = j
    BY <1>2, <1>5, LoneOutput
  <2> QED
    BY <1>5, <2>1, CellMade
<1>6. CASE (one \in kept /\ other \in made) \/ (one \in made /\ other \in kept)
  <2>1. script \in Types(outputs) /\ script \in taken /\ script \notin Types(CellsOf(inputs))
    BY <1>2, <1>3, <1>6
  <2> QED
    BY <2>1, LoneOutput
<1> QED
  BY <1>1, <1>4, <1>5, <1>6

\* A transaction issues NFTs of minters it has among its outputs.
LEMMA NftsStayKnown ==
  ASSUME NEW inputs, NEW outputs, NEW witnesses, Valid(inputs, outputs, witnesses),
         TypesTaken, NftsKnown, Commit(inputs, outputs)
  PROVE  NftsKnown'
<1> SUFFICES ASSUME NEW nft \in taken', Code(nft) = "minted_nft_type"
             PROVE  Args(nft)[1] \in taken' /\ Args(nft)[2] \in Nat
  BY DEF NftsKnown, OfCode
<1>1. taken' = taken \cup Types(outputs)
  BY DEF Commit
<1>2. CASE nft \in taken
  BY <1>1, <1>2 DEF NftsKnown, OfCode
<1>3. CASE nft \notin taken
  <2>1. nft \in Types(outputs) /\ nft \notin Types(CellsOf(inputs))
    BY <1>1, <1>3, KnownInputs
  <2>2. /\ Args(nft)[2] \in Nat
        /\ \E i \in DOMAIN inputs, o \in DOMAIN outputs : TypeGroup(outputs, Args(nft)[1]) = {o}
    BY <2>1, MintedFromMinter
  <2>3. Args(nft)[1] \in Types(outputs)
    BY <2>2, TypesInList
  <2> QED
    BY <1>1, <2>2, <2>3
<1> QED
  BY <1>2, <1>3

\* A transaction leaves every counter above the serials issued and at most at the cap: a
\* minter that is not spent issues nothing, a new one has issued nothing, and one that
\* mints counts on from where it was.
LEMMA CountersKept ==
  ASSUME NEW inputs, NEW outputs, NEW witnesses, Valid(inputs, outputs, witnesses),
         TypesTaken, LoneCells, NftsKnown, CountersHold, Commit(inputs, outputs)
  PROVE  CountersHold'
<1> SUFFICES ASSUME NEW entry \in live', NEW minter \in entry.cell.type,
                    Code(minter) = "nft_minter_type"
             PROVE  /\ entry.cell.data.counter \in Nat /\ entry.cell.data.cap \in Nat
                    /\ entry.cell.data.counter <= entry.cell.data.cap
                    /\ \A nft \in taken' :
                         (Code(nft) = "minted_nft_type" /\ Args(nft)[1] = minter)
                           => Args(nft)[2] < entry.cell.data.counter
  BY DEF CountersHold, SerialsBelow, Minters, OfCode
<1> DEFINE t == Tx(inputs, outputs, witnesses)
           fresh(nft) == /\ nft \in Types(outputs) /\ Code(nft) = "minted_nft_type"
                         /\ nft \notin Types(CellsOf(inputs)) /\ Args(nft)[1] = minter
<1>1. /\ live' = (live \ Range(inputs)) \cup Placed(outputs, height + 1)
      /\ taken' = taken \cup Types(outputs)
  BY DEF Commit
<1>2. \A nft \in taken' : (Code(nft) = "minted_nft_type" /\ Args(nft)[1] = minter) =>
        nft \in taken \/ fresh(nft)
  BY <1>1, KnownInputs
<1>3. \A nft : fresh(nft) =>
        /\ Args(nft)[2] \in Nat
        /\ \E i \in DOMAIN inputs, o \in DOMAIN outputs :
             /\ TypeGroup(CellsOf(inputs), minter) = {i} /\ TypeGroup(outputs, minter) = {o}
             /\ Args(nft)[2] < outputs[o].data.counter
  BY MintedFromMinter
<1>4. minter \notin Types(CellsOf(inputs)) => \A nft : ~fresh(nft)
  BY <1>3, TypesInList
<1>5. CASE entry \in live \ Range(inputs)
  <2>1. minter \notin Types(CellsOf(inputs))
    BY <1>5, SpentTogether DEF Lone
  <2>2. /\ entry.cell.data.counter \in Nat /\ entry.cell.data.cap \in Nat
        /\ entry.cell.data.counter <= entry.cell.data.cap
        /\ SerialsBelow(minter, entry.cell.data.counter)
    BY <1>5 DEF CountersHold, Minters, OfCode
  <2> QED
    BY <1>2, <1>4, <2>1, <2>2 DEF SerialsBelow, OfCode
<1>6. CASE entry \in Placed(outputs, height + 1)
  <2>1. PICK o \in TypeGroup(outputs, minter) : entry.cell = outputs[o]
    BY <1>6, CellMade
  <2>2. minter \in Types(outputs)
    BY <2>1, TypesInList
  <2>3. \A i, j \in TypeGroup(outputs, minter) : i = j
    BY <2>2, LoneOutput DEF Lone
  <2>4. CellIn(outputs, minter) = entry.cell
    BY <2>1, <2>3, OnlyCell
  <2>5. NumbersFit(entry.cell)
    BY <2>1 DEF Valid, Creatable, Storable, TypeGroup
  <2>6. MinterAccepts(t, minter, taken)
    BY <2>2, MinterAccepted
  <2>7. /\ t.inputs = CellsOf(inputs) /\ t.outputs = outputs /\ t.witnesses = witnesses
    BY DEF Tx
  <2>8. Shape(t, minter) = <<Cardinality(TypeGroup(CellsOf(inputs), minter)),
                             Cardinality(TypeGroup(outputs, minter))>>
    BY <2>7 DEF Shape
  <2>9. CASE Shape(t, minter) = <<0, 1>>
    <3>1. MinterCreateAccepts(t, minter, taken)
      BY <2>6, <2>9 DEF MinterAccepts
    <3>2. TypeGroup(CellsOf(inputs), minter) = {}
      BY <2>8, <2>9, ListsAreFinite, GroupSize
    <3>3. minter \notin taken /\ minter \notin Types(CellsOf(inputs))
      BY <2>7, <3>1, <3>2, TypesInList DEF MinterCreateAccepts, CheckTypeId
    <3>4. entry.cell.data.counter = 0 /\ IsMinterState(entry.cell)
      <4>1. \E r \in TypePlans!Relations(CobuildOf(t), minter) : TRUE
        BY <3>1, FS_EmptySet DEF MinterCreateAccepts
      <4> QED
        BY <2>4, <2>7, <3>1, <4>1 DEF MinterCreateAccepts
    <3>5. entry.cell.data.cap \in Nat
      BY <2>5, <3>4, WidthAssumption DEF NumbersFit, IsMinterState
    <3>6. \A nft \in taken : Code(nft) = "minted_nft_type" => Args(nft)[1] # minter
      BY <3>3 DEF NftsKnown, OfCode
    <3> QED
      BY <1>2, <1>4, <3>3, <3>4, <3>5, <3>6
  <2>10. CASE Shape(t, minter) = <<1, 1>>
    <3>1. PICK i \in DOMAIN CellsOf(inputs) : TypeGroup(CellsOf(inputs), minter) = {i}
      BY <2>8, <2>10, ListsAreFinite, GroupSize
    <3> DEFINE before == inputs[i].cell
    <3>2. /\ inputs[i] \in live /\ minter \in before.type
          /\ CellIn(CellsOf(inputs), minter) = before
      BY <3>1, SpentCell, OnlyCell
    <3>3. /\ before.data.counter \in Nat
          /\ SerialsBelow(minter, before.data.counter)
      BY <3>2 DEF CountersHold, Minters, OfCode
    <3>4. MinterMintAccepts(t, minter) /\ TypePlans!Plans(CobuildOf(t), minter)
      BY <2>6, <2>10 DEF MinterAccepts
    <3> DEFINE increment == Cardinality({r.ref : r \in TypePlans!Relations(CobuildOf(t), minter)})
    <3>5. increment \in Nat
      <4>1. Readable(CobuildOf(t).witnesses)
        BY <2>7 DEF Valid, CobuildOf
      <4> QED
        BY <3>4, <4>1, ActionsAreFinite
    <3>6. IsMinterState(entry.cell) /\ MintState(before.data, entry.cell.data, increment)
      BY <2>4, <2>7, <3>2, <3>4 DEF MinterMintAccepts
    <3> HIDE DEF increment
    <3>7. /\ entry.cell.data.counter \in Nat /\ entry.cell.data.cap \in Nat
          /\ before.data.counter <= entry.cell.data.counter
          /\ entry.cell.data.counter <= entry.cell.data.cap
      BY <2>5, <3>3, <3>5, <3>6, WidthAssumption DEF NumbersFit, IsMinterState, MintState
    <3>8. \A nft \in taken : (Code(nft) = "minted_nft_type" /\ Args(nft)[1] = minter) =>
            Args(nft)[2] < entry.cell.data.counter
      BY <3>3, <3>7 DEF SerialsBelow, NftsKnown, OfCode
    <3>9. \A nft : fresh(nft) => Args(nft)[2] < entry.cell.data.counter
      BY <1>3, <2>1
    <3> QED
      BY <1>2, <3>7, <3>8, <3>9
  <2> QED
    BY <2>6, <2>9, <2>10 DEF MinterAccepts
<1> QED
  BY <1>1, <1>5, <1>6

\* validate_expected_output_at: the output a mint is answered by carries the args of its NFT.
LEMMA ServedByOutput ==
  ASSUME NEW t, NEW script, NEW ref, NEW serial, IsList(t.outputs),
         ExpectedOutput(t, script, ref, serial)
  PROVE  \E type \in Types(t.outputs) : Args(type) = nft_id(script, serial)
<1> DEFINE matches == {i \in Candidates(t, ref) :
                         \E type \in t.outputs[i].type : Args(type) = nft_id(script, serial)}
<1>1. Cardinality(matches) = 1
  BY DEF ExpectedOutput
<1>2. matches # {}
  <2> HIDE DEF matches
  <2> QED
    BY <1>1, FS_EmptySet
<1>3. Candidates(t, ref) \subseteq DOMAIN t.outputs
  BY DEF Candidates, OtxOutputs, IsList
<1>4. PICK i \in DOMAIN t.outputs :
        \E type \in t.outputs[i].type : Args(type) = nft_id(script, serial)
  BY <1>2, <1>3
<1> QED
  BY <1>4 DEF Types

\* A transaction leaves no serial below a counter without the NFT that had it: a minter that
\* mints counts on by the number of its actions, these take the serials between the two
\* counters, and each is answered by an output.
LEMMA SerialsStayServed ==
  ASSUME NEW inputs, NEW outputs, NEW witnesses, Valid(inputs, outputs, witnesses),
         LoneCells, CountersHold, SerialsServed, Commit(inputs, outputs)
  PROVE  SerialsServed'
<1> SUFFICES ASSUME NEW entry \in live', NEW minter \in entry.cell.type,
                    Code(minter) = "nft_minter_type",
                    NEW serial \in 0..(entry.cell.data.counter - 1)
             PROVE  \E script \in taken' : Args(script) = nft_id(minter, serial)
  BY DEF SerialsServed, Minters, OfCode
<1> DEFINE t == Tx(inputs, outputs, witnesses)
<1>1. /\ live' = (live \ Range(inputs)) \cup Placed(outputs, height + 1)
      /\ taken' = taken \cup Types(outputs)
  BY DEF Commit
<1>2. CASE entry \in live \ Range(inputs)
  BY <1>1, <1>2 DEF SerialsServed, Minters, OfCode
<1>3. CASE entry \in Placed(outputs, height + 1)
  <2>1. PICK o \in TypeGroup(outputs, minter) : entry.cell = outputs[o]
    BY <1>3, CellMade
  <2>2. minter \in Types(outputs)
    BY <2>1, TypesInList
  <2>3. CellIn(outputs, minter) = entry.cell
    BY <2>1, <2>2, LoneOutput, OnlyCell DEF Lone
  <2>4. MinterAccepts(t, minter, taken)
    BY <2>2, MinterAccepted
  <2>5. /\ t.inputs = CellsOf(inputs) /\ t.outputs = outputs /\ t.witnesses = witnesses
    BY DEF Tx
  <2>6. CASE Shape(t, minter) = <<0, 1>>
    <3>1. MinterCreateAccepts(t, minter, taken)
      BY <2>4, <2>6 DEF MinterAccepts
    <3>2. \E r \in TypePlans!Relations(CobuildOf(t), minter) : TRUE
      BY <3>1, FS_EmptySet DEF MinterCreateAccepts
    <3>3. entry.cell.data.counter = 0
      BY <2>3, <2>5, <3>1, <3>2 DEF MinterCreateAccepts
    <3> QED
      BY <3>3
  <2>7. CASE Shape(t, minter) = <<1, 1>>
    <3>1. PICK i \in DOMAIN CellsOf(inputs) : TypeGroup(CellsOf(inputs), minter) = {i}
      BY <2>5, <2>7, ListsAreFinite, GroupSize DEF Shape
    <3> DEFINE before == inputs[i].cell
               refs == {r.ref : r \in TypePlans!Relations(CobuildOf(t), minter)}
               increment == Cardinality(refs)
    <3>2. /\ inputs[i] \in live /\ minter \in before.type
          /\ CellIn(CellsOf(inputs), minter) = before
      BY <3>1, SpentCell, OnlyCell
    <3>3. /\ before.data.counter \in Nat
          /\ \A n \in 0..(before.data.counter - 1) :
               \E script \in taken : Args(script) = nft_id(minter, n)
      BY <3>2 DEF CountersHold, SerialsServed, Minters, OfCode
    <3>4. MinterMintAccepts(t, minter) /\ TypePlans!Plans(CobuildOf(t), minter)
      BY <2>4, <2>7 DEF MinterAccepts
    <3>5. Readable(CobuildOf(t).witnesses)
      BY <2>5 DEF Valid, CobuildOf
    <3>6. IsFiniteSet(refs) /\ increment \in Nat
      BY <3>4, <3>5, ActionsAreFinite
    <3>7. /\ \A ref \in refs : ref.witness_index \in Nat /\ ref.action_index \in Int
          /\ \A one, other \in refs : one = other \/ Precedes(one, other) \/ Precedes(other, one)
      BY <3>4, <3>5, ActionPlaces
    <3>8. /\ entry.cell.data.counter = before.data.counter + increment
          /\ \A ref \in refs :
               ExpectedOutput(t, minter, ref, SerialOf(before.data.counter, refs, ref))
      BY <2>3, <2>5, <3>2, <3>4 DEF MinterMintAccepts, MintState
    <3>9. \/ serial \in 0..(before.data.counter - 1)
          \/ serial \in before.data.counter..(before.data.counter + increment - 1)
      <4> HIDE DEF increment
      <4> QED
        BY <3>3, <3>6, <3>8
    <3>10. CASE serial \in 0..(before.data.counter - 1)
      BY <1>1, <3>3, <3>10
    <3>11. CASE serial \in before.data.counter..(before.data.counter + increment - 1)
      <4>1. PICK ref \in refs : SerialOf(before.data.counter, refs, ref) = serial
        <5> HIDE DEF refs
        <5> QED
          BY <3>3, <3>6, <3>7, <3>11, EverySerialTaken
      <4>2. ExpectedOutput(t, minter, ref, serial)
        BY <3>8, <4>1
      <4>3. IsList(t.outputs)
        BY <2>5 DEF Valid, Creatable
      <4>4. \E type \in Types(t.outputs) : Args(type) = nft_id(minter, serial)
        BY <4>2, <4>3, ServedByOutput
      <4> QED
        BY <1>1, <2>5, <4>4
    <3> QED
      BY <3>9, <3>10, <3>11
  <2> QED
    BY <2>4, <2>6, <2>7 DEF MinterAccepts
<1> QED
  BY <1>1, <1>2, <1>3

\* A transaction leaves every order its NFT: a new order brings it along, and the proxy
\* lock of a live order stays shut as long as the order is not spent.
LEMMA EscrowKept ==
  ASSUME NEW inputs, NEW outputs, NEW witnesses, Valid(inputs, outputs, witnesses),
         LoneCells, EscrowHeld, Commit(inputs, outputs)
  PROVE  EscrowHeld'
<1> SUFFICES ASSUME NEW entry \in live', NEW script \in entry.cell.type,
                    Code(script) = "limit_order_type"
             PROVE  \E other \in live' : /\ other.cell.lock = ProxyLock(script)
                                         /\ other.cell.type = {entry.cell.data.order.offered}
  BY DEF EscrowHeld, OfCode
<1>1. live' = (live \ Range(inputs)) \cup Placed(outputs, height + 1)
  BY DEF Commit
<1>2. CASE entry \in live \ Range(inputs)
  <2>1. PICK other \in live : /\ other.cell.lock = ProxyLock(script)
                              /\ other.cell.type = {entry.cell.data.order.offered}
    BY <1>2 DEF EscrowHeld, OfCode
  <2>2. script \notin Types(CellsOf(inputs))
    BY <1>2, SpentTogether DEF Lone
  <2>3. other \notin Range(inputs)
    <3>1. SUFFICES ASSUME NEW i \in DOMAIN inputs, inputs[i] = other
                   PROVE  FALSE
      BY DEF Range
    <3>2. ProxyLock(script) \in Locks(CellsOf(inputs))
      BY <2>1, <3>1 DEF Locks, CellsOf
    <3> QED
      BY <2>2, <3>2, ProxyOpened
  <2> QED
    BY <1>1, <2>1, <2>3
<1>3. CASE entry \in Placed(outputs, height + 1)
  <2> DEFINE t == Tx(inputs, outputs, witnesses)
  <2>1. PICK o \in TypeGroup(outputs, script) : entry.cell = outputs[o]
    BY <1>3, CellMade
  <2>2. script \in Types(outputs)
    BY <2>1, TypesInList
  <2>3. CellIn(outputs, script) = entry.cell
    BY <2>1, <2>2, LoneOutput, OnlyCell DEF Lone
  <2>4. t.inputs = CellsOf(inputs) /\ t.outputs = outputs
    BY DEF Tx
  <2>5. Shape(t, script)[2] # 0
    BY <2>1, <2>4, ListsAreFinite, GroupSize DEF Shape
  <2>6. OrderTypeAccepts(t, script, taken)
    BY <2>2, OrderAccepted
  <2>7. CreateAccepts(t, script, taken)
    BY <2>5, <2>6 DEF OrderTypeAccepts
  <2>8. PICK p \in DOMAIN outputs : /\ outputs[p].lock = ProxyLock(script)
                                    /\ outputs[p].type = {entry.cell.data.order.offered}
    BY <2>3, <2>4, <2>7 DEF CreateAccepts
  <2>9. [at |-> <<height + 1, p>>, cell |-> outputs[p]] \in Placed(outputs, height + 1)
    BY DEF Placed
  <2> QED
    BY <1>1, <2>8, <2>9
<1> QED
  BY <1>1, <1>2, <1>3

\* A transaction takes the type scripts of its outputs.
LEMMA TypesStayTaken ==
  ASSUME NEW inputs, NEW outputs, TypesTaken, Commit(inputs, outputs)
  PROVE  TypesTaken'
BY DEF TypesTaken, Commit, Placed, Types

\* A step commits a transaction that every script accepts.
LEMMA NextIsValid ==
  ASSUME Next
  PROVE  \E inputs, outputs, witnesses : Valid(inputs, outputs, witnesses) /\ Commit(inputs, outputs)
BY DEF Next, Valid

\* Every step keeps the inductive invariant.
LEMMA LedgerInvKept == LedgerInv /\ [Next]_vars => LedgerInv'
<1> SUFFICES ASSUME LedgerInv, [Next]_vars PROVE LedgerInv'
  OBVIOUS
<1>1. CASE Next
  <2>1. PICK inputs, outputs, witnesses :
          Valid(inputs, outputs, witnesses) /\ Commit(inputs, outputs)
    BY <1>1, NextIsValid
  <2> QED
    BY <2>1, TypesStayTaken, LoneCellsKept, NftsStayKnown, CountersKept, EscrowKept DEF LedgerInv
<1>2. CASE UNCHANGED vars
  BY <1>2 DEF vars, LedgerInv, TypesTaken, LoneCells, NftsKnown, CountersHold, SerialsBelow,
              EscrowHeld
<1> QED
  BY <1>1, <1>2

\* On every chain, whatever transactions are put forward, the inductive invariant holds.
THEOREM LedgerInvariant == Spec => []LedgerInv
BY LedgerInvAtGenesis, LedgerInvKept, PTL DEF Spec

\* create.rs and fill.rs of the order type: a live order's NFT is in escrow.
THEOREM EscrowIsHeld == Spec => []EscrowHeld
<1>1. LedgerInv => EscrowHeld
  BY DEF LedgerInv
<1> QED
  BY <1>1, LedgerInvariant, PTL

\* mint.rs: the serials of every NFT a live minter ever issued are below its counter, and
\* the counter at most at the cap.
THEOREM SupplyIsCapped == Spec => []SupplyCapped
<1>1. LedgerInv => SupplyCapped
  BY DEF LedgerInv, CountersHold, SerialsBelow, SupplyCapped, IdsOf
<1> QED
  BY <1>1, LedgerInvariant, PTL

\* validate_expected_outputs: every serial below a live minter's counter was given to a cell
\* that has it in its type args.
THEOREM SerialsAreServed == Spec => []SerialsServed
<1>1. Init => SerialsServed
  <2> SUFFICES ASSUME Init PROVE SerialsServed
    OBVIOUS
  <2>1. \A entry \in live : entry.cell.type \subseteq Types(Genesis)
    BY DEF Init, Placed, Types
  <2> QED
    BY <2>1, GenesisAssumption DEF SerialsServed, Minters, OfCode, Issuing
<1>2. LedgerInv /\ SerialsServed /\ [Next]_vars => SerialsServed'
  <2> SUFFICES ASSUME LedgerInv, SerialsServed, [Next]_vars PROVE SerialsServed'
    OBVIOUS
  <2>1. CASE Next
    <3>1. PICK inputs, outputs, witnesses :
            Valid(inputs, outputs, witnesses) /\ Commit(inputs, outputs)
      BY <2>1, NextIsValid
    <3> QED
      BY <3>1, SerialsStayServed DEF LedgerInv
  <2>2. CASE UNCHANGED vars
    BY <2>2 DEF vars, SerialsServed
  <2> QED
    BY <2>1, <2>2
<1> QED
  BY <1>1, <1>2, LedgerInvariant, PTL DEF Spec

\* create.rs of the minted NFT type: no NFT comes into being twice.
THEOREM NftsAreMintedOnce == Spec => MintedOnce
<1> DEFINE Once ==
      \A nft \in OfCode(Types(last'.outputs), "minted_nft_type") :
        (nft \notin Types(last'.inputs) /\ Code(Args(nft)[1]) = "nft_minter_type") => nft \notin taken
<1>1. LedgerInv /\ Next => Once
  <2> SUFFICES ASSUME LedgerInv, Next PROVE Once
    OBVIOUS
  <2>1. PICK inputs, outputs, witnesses :
          Valid(inputs, outputs, witnesses) /\ Commit(inputs, outputs)
    BY NextIsValid
  <2>2. last'.outputs = outputs /\ last'.inputs = CellsOf(inputs)
    BY <2>1 DEF Commit
  <2> SUFFICES ASSUME NEW nft \in Types(outputs), Code(nft) = "minted_nft_type",
                      nft \notin Types(CellsOf(inputs)),
                      Code(Args(nft)[1]) = "nft_minter_type", nft \in taken
               PROVE  FALSE
    BY <2>2 DEF OfCode
  <2> DEFINE minter == Args(nft)[1]
  <2>3. PICK i \in DOMAIN inputs :
          /\ TypeGroup(CellsOf(inputs), minter) = {i}
          /\ inputs[i].cell.data.counter <= Args(nft)[2]
    BY <2>1, MintedFromMinter
  <2>4. inputs[i] \in live /\ minter \in inputs[i].cell.type
    BY <2>1, <2>3, SpentCell
  <2>5. /\ inputs[i].cell.data.counter \in Nat
        /\ SerialsBelow(minter, inputs[i].cell.data.counter)
    BY <2>4 DEF LedgerInv, CountersHold, Minters, OfCode
  <2>6. Args(nft)[2] \in Nat /\ Args(nft)[2] < inputs[i].cell.data.counter
    BY <2>5 DEF SerialsBelow, LedgerInv, NftsKnown, OfCode
  <2> QED
    BY <2>3, <2>5, <2>6
<1>2. LedgerInv /\ [Next]_vars => [Once]_vars
  BY <1>1
<1> QED
  BY <1>2, LedgerInvariant, PTL DEF Spec, MintedOnce
-----------------------------------------------------------------------------
\* The amounts the cells of a list hold.
AmountsOf(list) == [i \in DOMAIN list |-> list[i].data.amount]

\* Total, as collect_amounts adds it up, is SumOf the amounts of the group.
LEMMA TotalIs ==
  ASSUME NEW list, NEW script
  PROVE  Total(list, script) = SumOf(AmountsOf(list), TypeGroup(list, script))
<1> DEFINE S == TypeGroup(list, script)
           f == AmountsOf(list)
           left(g, s) == IF s = {} THEN 0 ELSE list[One(s)].data.amount + g[s \ {One(s)}]
           right(g, s) == IF s = {} THEN 0 ELSE f[One(s)] + g[s \ {One(s)}]
           Left(g) == g = [s \in SUBSET S |-> left(g, s)]
<1>1. ASSUME NEW g, NEW s \in SUBSET S
      PROVE  left(g, s) = right(g, s)
  BY OneIsElement DEF AmountsOf, TypeGroup
<1>2. Total(list, script) = (CHOOSE g : Left(g))[S]
  BY DEF Total, MapThenSumSet, MapThenFoldSet, One
<1>3. \A g : Left(g) <=> Summing(g, f, S)
  <2> HIDE DEF left, f, S
  <2>1. \A g : Left(g) <=> g = [s \in SUBSET S |-> right(g, s)]
    <3> HIDE DEF right
    <3> QED
      BY <1>1
  <2> QED
    BY <2>1 DEF Summing
<1>4. SumOf(f, S) = (CHOOSE g : Summing(g, f, S))[S]
  BY SumOfIs DEF Summer
<1> HIDE DEF Left, f, S
<1>5. (CHOOSE g : Left(g)) = (CHOOSE g : Summing(g, f, S))
  BY <1>3, Zenon
<1> QED
  BY <1>2, <1>4, <1>5 DEF f, S

\* The amounts that cells hold, and the cells that hold a UDT.
Amounts(cells) == [entry \in cells |-> entry.cell.data.amount]
Holders(cells, script) ==
  {entry \in cells : entry.cell.type = {script} /\ IsAmount(entry.cell)}

\* Supply is SumOf the amounts of its holders.
LEMMA SupplyIs ==
  ASSUME NEW cells, NEW script
  PROVE  Supply(cells, script) = SumOf(Amounts(cells), Holders(cells, script))
<1> DEFINE S == Holders(cells, script)
           f == Amounts(cells)
           left(g, s) == IF s = {} THEN 0 ELSE One(s).cell.data.amount + g[s \ {One(s)}]
           right(g, s) == IF s = {} THEN 0 ELSE f[One(s)] + g[s \ {One(s)}]
           Left(g) == g = [s \in SUBSET S |-> left(g, s)]
<1>1. ASSUME NEW g, NEW s \in SUBSET S
      PROVE  left(g, s) = right(g, s)
  BY OneIsElement DEF Amounts, Holders
<1>2. Supply(cells, script) = (CHOOSE g : Left(g))[S]
  BY DEF Supply, Holders, MapThenSumSet, MapThenFoldSet, One
<1>3. \A g : Left(g) <=> Summing(g, f, S)
  <2> HIDE DEF left, f, S
  <2>1. \A g : Left(g) <=> g = [s \in SUBSET S |-> right(g, s)]
    <3> HIDE DEF right
    <3> QED
      BY <1>1
  <2> QED
    BY <2>1 DEF Summing
<1>4. SumOf(f, S) = (CHOOSE g : Summing(g, f, S))[S]
  BY SumOfIs DEF Summer
<1> HIDE DEF Left, f, S
<1>5. (CHOOSE g : Left(g)) = (CHOOSE g : Summing(g, f, S))
  BY <1>3, Zenon
<1> QED
  BY <1>2, <1>4, <1>5 DEF f, S

\* Live cells are finitely many, each storable: the numbers that are added up.
CellsStorable == IsFiniteSet(live) /\ \A entry \in live : Storable(entry.cell)

\* The cells a list becomes are as many as its elements.
LEMMA PlacedIsFinite ==
  ASSUME NEW list, IsList(list), NEW h
  PROVE  IsFiniteSet(Placed(list, h))
<1> DEFINE D == DOMAIN list
           f == [i \in D |-> [at |-> <<h, i>>, cell |-> list[i]]]
<1>1. IsFiniteSet(D)
  BY FS_Interval DEF IsList
<1>2. f \in Surjection(D, Placed(list, h))
  BY DEF Surjection, Placed
<1> QED
  BY <1>1, <1>2, FS_Surjection

\* The cells of the genesis can be stored.
LEMMA CellsStorableAtGenesis == Init => CellsStorable
<1>1. IsList(Genesis) /\ \A i \in DOMAIN Genesis : Storable(Genesis[i])
  BY GenesisAssumption
<1>2. IsFiniteSet(Placed(Genesis, 0))
  BY <1>1, PlacedIsFinite
<1>3. \A entry \in Placed(Genesis, 0) : Storable(entry.cell)
  BY <1>1 DEF Placed
<1> QED
  BY <1>2, <1>3 DEF Init, CellsStorable

\* A transaction makes cells that can be stored.
LEMMA CellsStayStorable ==
  ASSUME NEW inputs, NEW outputs, NEW witnesses, Valid(inputs, outputs, witnesses),
         CellsStorable, Commit(inputs, outputs)
  PROVE  CellsStorable'
<1> DEFINE kept == live \ Range(inputs)
           made == Placed(outputs, height + 1)
<1>1. live' = kept \cup made
  BY DEF Commit
<1>2. IsFiniteSet(kept)
  BY FS_Subset DEF CellsStorable
<1>3. IsFiniteSet(made) /\ \A entry \in made : Storable(entry.cell)
  <2>1. IsList(outputs) /\ \A o \in DOMAIN outputs : Storable(outputs[o])
    BY DEF Valid, Creatable
  <2> QED
    BY <2>1, PlacedIsFinite DEF Placed
<1>4. \A entry \in kept : Storable(entry.cell)
  BY DEF CellsStorable
<1> HIDE DEF kept, made
<1>5. IsFiniteSet(kept \cup made)
  BY <1>2, <1>3, FS_Union
<1> QED
  BY <1>1, <1>3, <1>4, <1>5 DEF CellsStorable

\* On every chain the cells that live can be added up.
THEOREM CellsAreStorable == Spec => []CellsStorable
<1>1. CellsStorable /\ [Next]_vars => CellsStorable'
  <2> SUFFICES ASSUME CellsStorable, [Next]_vars PROVE CellsStorable'
    OBVIOUS
  <2>1. CASE Next
    BY <2>1, NextIsValid, CellsStayStorable
  <2>2. CASE UNCHANGED vars
    BY <2>2 DEF vars, CellsStorable
  <2> QED
    BY <2>1, <2>2
<1> QED
  BY CellsStorableAtGenesis, <1>1, PTL DEF Spec

\* An amount in the data of a storable cell is a number.
LEMMA AmountIsNatural ==
  ASSUME NEW cell, Storable(cell), IsAmount(cell)
  PROVE  cell.data.amount \in Nat
BY WidthAssumption DEF Storable, NumbersFit, IsAmount

\* A committed transaction with a UDT's script was accepted by it.
LEMMA UdtAccepted ==
  ASSUME NEW inputs, NEW outputs, NEW witnesses, Valid(inputs, outputs, witnesses),
         NEW script \in Types(CellsOf(inputs)) \cup Types(outputs),
         Code(script) = "test_udt"
  PROVE  UdtAccepts(Tx(inputs, outputs, <<>>), script)
<1>1. TypeAccepts(Tx(inputs, outputs, <<>>), script)
  BY DEF Valid, Accepted, Tx, Cobuild, CodeNames
<1> QED
  BY <1>1 DEF TypeAccepts

\* entry.rs of the UDT: without its owner the cells it makes hold no more than those it
\* spends, and each holds an amount.
LEMMA UdtTotals ==
  ASSUME NEW inputs, NEW outputs, NEW witnesses, Valid(inputs, outputs, witnesses),
         NEW script, Code(script) = "test_udt", Args(script) \notin Locks(CellsOf(inputs))
  PROVE  /\ \A i \in TypeGroup(CellsOf(inputs), script) : IsAmount(CellsOf(inputs)[i])
         /\ \A o \in TypeGroup(outputs, script) : IsAmount(outputs[o])
         /\ Total(outputs, script) <= Total(CellsOf(inputs), script)
<1>1. CASE script \in Types(CellsOf(inputs)) \cup Types(outputs)
  <2> DEFINE t == Tx(inputs, outputs, <<>>)
  <2>1. t.inputs = CellsOf(inputs) /\ t.outputs = outputs
    BY DEF Tx
  <2>2. UdtAccepts(t, script) /\ ~OwnerMode(t, script)
    BY <1>1, <2>1, UdtAccepted DEF OwnerMode
  <2> HIDE DEF t
  <2>3. PICK spent \in CheckedTotal(CellsOf(inputs), script),
             made \in CheckedTotal(outputs, script) : made <= spent
    BY <2>1, <2>2 DEF UdtAccepts
  <2> QED
    BY <2>3 DEF CheckedTotal
<1>2. CASE script \notin Types(CellsOf(inputs)) \cup Types(outputs)
  <2>1. TypeGroup(CellsOf(inputs), script) = {} /\ TypeGroup(outputs, script) = {}
    BY <1>2, TypesInList
  <2>2. Total(CellsOf(inputs), script) = 0 /\ Total(outputs, script) = 0
    BY <2>1, TotalIs, SumEmpty
  <2> QED
    BY <2>1, <2>2
<1> QED
  BY <1>1, <1>2

\* The cells a transaction spends of a UDT hold what their inputs do.
LEMMA SpentTotal ==
  ASSUME NEW inputs, NEW outputs, NEW witnesses, Valid(inputs, outputs, witnesses),
         CellsStorable, NEW script, NEW cells, live \subseteq cells,
         \A i \in TypeGroup(CellsOf(inputs), script) : IsAmount(CellsOf(inputs)[i])
  PROVE  Total(CellsOf(inputs), script)
           = SumOf(Amounts(cells), Holders(live, script) \cap Range(inputs))
<1> DEFINE G == TypeGroup(CellsOf(inputs), script)
           R == Holders(live, script) \cap Range(inputs)
           f == AmountsOf(CellsOf(inputs))
           g == Amounts(cells)
           h == [i \in G |-> inputs[i]]
<1>1. IsFiniteSet(G)
  BY ListsAreFinite, FS_Subset DEF TypeGroup
<1>2. \A i \in G : /\ i \in DOMAIN inputs /\ inputs[i] \in live /\ inputs[i] \in Range(inputs)
                   /\ script \in inputs[i].cell.type /\ CellsOf(inputs)[i] = inputs[i].cell
  BY SpentCell DEF TypeGroup, CellsOf
<1>3. \A i \in G : /\ Storable(inputs[i].cell) /\ IsAmount(inputs[i].cell)
                   /\ inputs[i].cell.type = {script}
  BY <1>2 DEF CellsStorable, Storable
<1>4. \A i \in G : f[i] \in Nat /\ f[i] = g[h[i]]
  BY <1>2, <1>3, AmountIsNatural DEF AmountsOf, Amounts, TypeGroup
<1>5. h \in Bijection(G, R)
  <2>1. \A i \in G : h[i] \in R
    BY <1>2, <1>3 DEF Holders
  <2>2. \A i, j \in G : h[i] = h[j] => i = j
    BY <1>2 DEF Valid, Spendable
  <2>3. \A entry \in R : \E i \in G : h[i] = entry
    BY DEF Range, Holders, TypeGroup, CellsOf
  <2> HIDE DEF G, R
  <2> QED
    BY <2>1, <2>2, <2>3 DEF Bijection, Injection, Surjection, IsInjective
<1>6. Total(CellsOf(inputs), script) = SumOf(f, G)
  BY TotalIs
<1> HIDE DEF f, g, h, G, R
<1>7. SumOf(f, G) = SumOf(g, R)
  BY <1>1, <1>4, <1>5, SumRenamed
<1> QED
  BY <1>6, <1>7 DEF g, R

\* The cells a transaction makes of a UDT hold what its outputs do.
LEMMA MadeTotal ==
  ASSUME NEW outputs, Creatable(outputs), NEW script, NEW h,
         NEW cells, Placed(outputs, h) \subseteq cells,
         \A o \in TypeGroup(outputs, script) : IsAmount(outputs[o])
  PROVE  Total(outputs, script) = SumOf(Amounts(cells), Holders(Placed(outputs, h), script))
<1> DEFINE G == TypeGroup(outputs, script)
           M == Holders(Placed(outputs, h), script)
           f == AmountsOf(outputs)
           g == Amounts(cells)
           p == [o \in G |-> [at |-> <<h, o>>, cell |-> outputs[o]]]
<1>1. IsFiniteSet(G)
  <2>1. G \subseteq 1..Len(outputs) /\ Len(outputs) \in Nat
    BY DEF Creatable, IsList, TypeGroup
  <2> QED
    BY <2>1, PartIsFinite
<1>2. \A o \in G : /\ o \in DOMAIN outputs /\ Storable(outputs[o]) /\ IsAmount(outputs[o])
                   /\ outputs[o].type = {script}
  BY DEF Creatable, Storable, TypeGroup
<1>3. \A o \in G : p[o] \in Placed(outputs, h)
  BY <1>2 DEF Placed
<1>4. \A o \in G : f[o] \in Nat /\ f[o] = g[p[o]]
  BY <1>2, <1>3, AmountIsNatural DEF AmountsOf, Amounts
<1>5. p \in Bijection(G, M)
  <2>1. \A o \in G : p[o] \in M
    BY <1>2, <1>3 DEF Holders
  <2>2. \A i, j \in G : p[i] = p[j] => i = j
    OBVIOUS
  <2>3. \A entry \in M : \E o \in G : p[o] = entry
    BY DEF Placed, Holders, TypeGroup
  <2> HIDE DEF G, M
  <2> QED
    BY <2>1, <2>2, <2>3 DEF Bijection, Injection, Surjection, IsInjective
<1>6. Total(outputs, script) = SumOf(f, G)
  BY TotalIs
<1> HIDE DEF f, g, p, G, M
<1>7. SumOf(f, G) = SumOf(g, M)
  BY <1>1, <1>4, <1>5, SumRenamed
<1> QED
  BY <1>6, <1>7 DEF g, M

\* Without the owner of a UDT among its inputs, a transaction makes no more of it.
LEMMA SupplyKept ==
  ASSUME NEW inputs, NEW outputs, NEW witnesses, Valid(inputs, outputs, witnesses),
         CellsStorable, Commit(inputs, outputs),
         NEW script, Code(script) = "test_udt", Args(script) \notin Locks(CellsOf(inputs))
  PROVE  Supply(live', script) <= Supply(live, script)
<1> DEFINE made == Placed(outputs, height + 1)
           all == live \cup made
           A == Amounts(all)
           before == Holders(live, script)
           spent == before \cap Range(inputs)
           kept == before \ spent
           new == Holders(made, script)
           after == Holders(live', script)
<1>1. live' = (live \ Range(inputs)) \cup made
  BY DEF Commit
<1>2. Creatable(outputs) /\ IsList(outputs)
  BY DEF Valid, Creatable
<1>3. \A entry \in made : Storable(entry.cell)
  BY <1>2 DEF Creatable, Placed
<1>4. \A entry \in live : Storable(entry.cell)
  BY DEF CellsStorable
<1>5. after = kept \cup (new \ kept)
  BY <1>1 DEF Holders
<1>6. /\ \A entry \in before : A[entry] \in Nat /\ A[entry] = Amounts(live)[entry]
      /\ \A entry \in after : A[entry] \in Nat /\ A[entry] = Amounts(live')[entry]
      /\ \A entry \in new : A[entry] \in Nat
  BY <1>1, <1>3, <1>4, AmountIsNatural DEF Holders, Amounts
<1>7. IsFiniteSet(before) /\ IsFiniteSet(new)
  <2>1. IsFiniteSet(live) /\ IsFiniteSet(made)
    BY <1>2, PlacedIsFinite DEF CellsStorable
  <2>2. before \subseteq live /\ new \subseteq made
    BY DEF Holders
  <2> HIDE DEF made, before, new
  <2> QED
    BY <2>1, <2>2, FS_Subset
<1>8. Supply(live, script) = SumOf(Amounts(live), before) /\ Supply(live', script) = SumOf(Amounts(live'), after)
  BY SupplyIs
<1>9. SumOf(A, new) <= SumOf(A, spent)
  <2>1. /\ \A i \in TypeGroup(CellsOf(inputs), script) : IsAmount(CellsOf(inputs)[i])
        /\ \A o \in TypeGroup(outputs, script) : IsAmount(outputs[o])
        /\ Total(outputs, script) <= Total(CellsOf(inputs), script)
    BY UdtTotals
  <2>2. live \subseteq all /\ made \subseteq all
    OBVIOUS
  <2>3. Total(CellsOf(inputs), script) = SumOf(Amounts(all), spent)
    <3> HIDE DEF all
    <3> QED
      BY <2>1, <2>2, SpentTotal
  <2>4. Total(outputs, script) = SumOf(Amounts(all), new)
    <3> HIDE DEF all
    <3> QED
      BY <1>2, <2>1, <2>2, MadeTotal
  <2> QED
    BY <2>1, <2>3, <2>4
<1> HIDE DEF made, all, A, before, new, after
<1>10. IsFiniteSet(spent) /\ IsFiniteSet(kept) /\ IsFiniteSet(new \ kept)
  BY <1>7, FS_Subset
<1>11. before = kept \cup spent /\ kept \cap spent = {} /\ kept \cap (new \ kept) = {}
  OBVIOUS
<1>12. \A entry \in kept \cup spent \cup new : A[entry] \in Nat
  BY <1>6
<1> DEFINE fresh == new \ kept
<1>13. fresh \subseteq new
  OBVIOUS
<1> HIDE DEF kept, spent, fresh
<1>14. SumOf(A, kept \cup spent) = SumOf(A, kept) + SumOf(A, spent)
  BY <1>10, <1>11, <1>12, SumUnion
<1>15. SumOf(A, kept \cup fresh) = SumOf(A, kept) + SumOf(A, fresh)
  BY <1>10, <1>11, <1>12, SumUnion DEF fresh
<1>16. SumOf(A, fresh) <= SumOf(A, new)
  BY <1>7, <1>12, <1>13, SumPart
<1>17. SumOf(A, kept) \in Nat /\ SumOf(A, spent) \in Nat /\ SumOf(A, fresh) \in Nat /\ SumOf(A, new) \in Nat
  BY <1>7, <1>10, <1>12, SumFacts DEF fresh
<1>18. SumOf(Amounts(live), before) = SumOf(A, kept \cup spent)
  BY <1>6, <1>7, <1>11, SumSame
<1>19. IsFiniteSet(after)
  BY <1>5, <1>10, FS_Union
<1>20. SumOf(Amounts(live'), after) = SumOf(A, after) /\ after = kept \cup fresh
  BY <1>5, <1>6, <1>19, SumSame DEF fresh
<1> QED
  BY <1>8, <1>9, <1>14, <1>15, <1>16, <1>17, <1>18, <1>20

\* test-udt entry.rs: what there is of a UDT grows only with its owner among the inputs.
THEOREM SupplyIsConserved == Spec => SupplyConserved
<1> DEFINE Conserved ==
      \A script \in OfCode(taken, "test_udt") :
        Args(script) \notin Locks(last'.inputs) => Supply(live', script) <= Supply(live, script)
<1>1. CellsStorable /\ Next => Conserved
  <2> SUFFICES ASSUME CellsStorable, Next,
                      NEW script \in taken, Code(script) = "test_udt",
                      Args(script) \notin Locks(last'.inputs)
               PROVE  Supply(live', script) <= Supply(live, script)
    BY DEF OfCode
  <2>1. PICK inputs, outputs, witnesses :
          Valid(inputs, outputs, witnesses) /\ Commit(inputs, outputs)
    BY NextIsValid
  <2>2. last'.inputs = CellsOf(inputs)
    BY <2>1 DEF Commit
  <2> QED
    BY <2>1, <2>2, SupplyKept
<1>2. CellsStorable /\ [Next]_vars => [Conserved]_vars
  BY <1>1
<1> QED
  BY CellsAreStorable, <1>2, PTL DEF Spec, SupplyConserved
-----------------------------------------------------------------------------
\* The outputs that pay an owner with an asset.
PaymentsTo(outputs, owner, asset) ==
  {i \in DOMAIN outputs : /\ outputs[i].lock = owner /\ outputs[i].type = {asset}
                          /\ IsAmount(outputs[i])}

\* PaidTo is SumOf the amounts of the payments.
LEMMA PaidToIs ==
  ASSUME NEW outputs, NEW owner, NEW asset
  PROVE  PaidTo(outputs, owner, asset)
           = SumOf(AmountsOf(outputs), PaymentsTo(outputs, owner, asset))
<1> DEFINE S == PaymentsTo(outputs, owner, asset)
           f == AmountsOf(outputs)
           left(g, s) == IF s = {} THEN 0 ELSE outputs[One(s)].data.amount + g[s \ {One(s)}]
           right(g, s) == IF s = {} THEN 0 ELSE f[One(s)] + g[s \ {One(s)}]
           Left(g) == g = [s \in SUBSET S |-> left(g, s)]
<1>1. ASSUME NEW g, NEW s \in SUBSET S
      PROVE  left(g, s) = right(g, s)
  BY OneIsElement DEF AmountsOf, PaymentsTo
<1>2. PaidTo(outputs, owner, asset) = (CHOOSE g : Left(g))[S]
  BY DEF PaidTo, PaymentsTo, MapThenSumSet, MapThenFoldSet, One
<1>3. \A g : Left(g) <=> Summing(g, f, S)
  <2> HIDE DEF left, f, S
  <2>1. \A g : Left(g) <=> g = [s \in SUBSET S |-> right(g, s)]
    <3> HIDE DEF right
    <3> QED
      BY <1>1
  <2> QED
    BY <2>1 DEF Summing
<1>4. SumOf(f, S) = (CHOOSE g : Summing(g, f, S))[S]
  BY SumOfIs DEF Summer
<1> HIDE DEF Left, f, S
<1>5. (CHOOSE g : Left(g)) = (CHOOSE g : Summing(g, f, S))
  BY <1>3, Zenon
<1> QED
  BY <1>2, <1>4, <1>5 DEF f, S

\* What each of some orders asks for.
RequestsOf(orders) == [g \in orders |-> g.order.requested]

\* Requested is SumOf the requests.
LEMMA RequestedIs ==
  ASSUME NEW orders
  PROVE  Requested(orders) = SumOf(RequestsOf(orders), orders)
<1> DEFINE f == RequestsOf(orders)
           left(g, s) == IF s = {} THEN 0 ELSE One(s).order.requested + g[s \ {One(s)}]
           right(g, s) == IF s = {} THEN 0 ELSE f[One(s)] + g[s \ {One(s)}]
           Left(g) == g = [s \in SUBSET orders |-> left(g, s)]
<1>1. ASSUME NEW g, NEW s \in SUBSET orders
      PROVE  left(g, s) = right(g, s)
  BY OneIsElement DEF RequestsOf
<1>2. Requested(orders) = (CHOOSE g : Left(g))[orders]
  BY DEF Requested, MapThenSumSet, MapThenFoldSet, One
<1>3. \A g : Left(g) <=> Summing(g, f, orders)
  <2> HIDE DEF left, f
  <2>1. \A g : Left(g) <=> g = [s \in SUBSET orders |-> right(g, s)]
    <3> HIDE DEF right
    <3> QED
      BY <1>1
  <2> QED
    BY <2>1 DEF Summing
<1>4. SumOf(f, orders) = (CHOOSE g : Summing(g, f, orders))[orders]
  BY SumOfIs DEF Summer
<1> HIDE DEF Left, f
<1>5. (CHOOSE g : Left(g)) = (CHOOSE g : Summing(g, f, orders))
  BY <1>3, Zenon
<1> QED
  BY <1>2, <1>4, <1>5 DEF f

\* In a run of OTX, OTX k is the witness k places after the first, which is the one after
\* the OtxStart.
LEMMA RunOfWitnesses ==
  ASSUME NEW t, Readable(t.witnesses), TypePlans!OneRun(t)
  PROVE  /\ Cardinality(TypePlans!At(t, "otx")) \in Nat
         /\ TypePlans!FirstOtx(t) \in Nat
         /\ TypePlans!FirstOtx(t) \in DOMAIN t.witnesses
         /\ t.witnesses[TypePlans!FirstOtx(t)].kind = "otx_start"
         /\ TypePlans!OtxNumbers(t) = 0..(Cardinality(TypePlans!At(t, "otx")) - 1)
         /\ \A k \in TypePlans!OtxNumbers(t) :
              k \in Nat /\ TypePlans!FirstOtx(t) + k \in TypePlans!At(t, "otx")
<1>1. IsList(t.witnesses)
  BY DEF Readable
<1>2. Cardinality(TypePlans!At(t, "otx")) \in Nat
  BY <1>1, KindIsFinite, FS_CardinalityType
<1>3. PICK s \in TypePlans!Positions(t) :
        /\ TypePlans!At(t, "otx_start") = {s}
        /\ TypePlans!At(t, "otx") = (s + 1)..(s + Cardinality(TypePlans!At(t, "otx")))
  BY SameCardinality DEF TypePlans!OneRun
<1>4. TypePlans!FirstOtx(t) = s + 1
  BY <1>3 DEF TypePlans!FirstOtx
<1>5. s \in Nat /\ s + 1 \in DOMAIN t.witnesses
  BY <1>1, <1>3 DEF TypePlans!Positions, IsList
<1>6. t.witnesses[s + 1].kind = "otx_start"
  BY <1>3 DEF TypePlans!At
<1>7. TypePlans!OtxNumbers(t) = 0..(Cardinality(TypePlans!At(t, "otx")) - 1)
  BY SameCardinality DEF TypePlans!OtxNumbers
<1> QED
  BY <1>2, <1>3, <1>4, <1>5, <1>6, <1>7

\* The scopes of a run of OTX are finitely many, and each takes a number of items.
LEMMA ScopesAreFinite ==
  ASSUME NEW t, Readable(t.witnesses), TypePlans!OneRun(t)
  PROVE  /\ IsFiniteSet(TypePlans!Scopes(t))
         /\ \A scope \in TypePlans!Scopes(t) :
              /\ scope[1] \in Nat /\ scope[2] \in Nat
              /\ TypePlans!ItemsIn(t, scope, "outputs") \in Nat
         /\ t.witnesses[TypePlans!FirstOtx(t)].start["outputs"] \in Nat
<1> DEFINE K == TypePlans!OtxNumbers(t)
           view(k) == TypePlans!ViewOf(t, k)
           scopes == [k \in K |-> {<<k, s>> : s \in 0..Len(view(k).segments)}]
<1>1. "outputs" \in Dim
  BY DEF Dim
<1>2. ASSUME NEW k \in K
      PROVE  k \in Nat /\ Counted(view(k))
  <2>1. k \in Nat /\ TypePlans!FirstOtx(t) \in Nat /\ TypePlans!FirstOtx(t) + k \in TypePlans!At(t, "otx")
    BY RunOfWitnesses
  <2>2. /\ TypePlans!FirstOtx(t) + k + 1 \in DOMAIN t.witnesses
        /\ t.witnesses[TypePlans!FirstOtx(t) + k + 1].kind = "otx"
    BY <2>1 DEF TypePlans!At, TypePlans!Positions, Readable, IsList
  <2> QED
    BY <2>1, <2>2 DEF Readable, TypePlans!ViewOf
<1>3. IsFiniteSet(K)
  BY RunOfWitnesses, PositionsAreFinite
<1>4. ASSUME NEW k \in K
      PROVE  IsFiniteSet(scopes[k])
  <2> DEFINE n == Len(view(k).segments)
             S == 0..n
             h == [s \in S |-> <<k, s>>]
  <2>1. n \in Nat
    BY <1>2 DEF Counted, IsList
  <2>2. IsFiniteSet(S)
    <3> HIDE DEF n
    <3> QED
      BY <2>1, FS_Interval
  <2>3. h \in Surjection(S, scopes[k])
    BY DEF Surjection
  <2> QED
    BY <2>2, <2>3, FS_Surjection
<1>5. TypePlans!Scopes(t) = UNION {scopes[k] : k \in K}
  BY DEF TypePlans!Scopes
<1>6. IsFiniteSet(TypePlans!Scopes(t))
  <2> HIDE DEF scopes, K
  <2> QED
    BY <1>3, <1>4, <1>5, FiniteUnion
<1>7. ASSUME NEW scope \in TypePlans!Scopes(t)
      PROVE  /\ scope[1] \in Nat /\ scope[2] \in Nat
             /\ TypePlans!ItemsIn(t, scope, "outputs") \in Nat
  <2>1. PICK k \in K : \E s \in 0..Len(view(k).segments) : scope = <<k, s>>
    BY DEF TypePlans!Scopes
  <2>2. PICK s \in 0..Len(view(k).segments) : scope = <<k, s>>
    BY <2>1
  <2>3. k \in Nat /\ s \in Nat /\ scope[1] = k /\ scope[2] = s
    BY <1>2, <2>2
  <2>4. s # 0 => s \in DOMAIN view(k).segments
    BY <1>2, <2>2, <2>3 DEF Counted, IsList
  <2>5. view(k).base["outputs"] \in Nat
    BY <1>1, <1>2 DEF Counted, Counts
  <2>6. s # 0 => view(k).segments[s].counts["outputs"] \in Nat
    BY <1>1, <1>2, <2>4 DEF Counted, Counts
  <2>7. TypePlans!ItemsIn(t, scope, "outputs")
          = IF s = 0 THEN view(k).base["outputs"] ELSE view(k).segments[s].counts["outputs"]
    BY <2>3 DEF TypePlans!ItemsIn
  <2> QED
    BY <2>3, <2>5, <2>6, <2>7
<1>8. t.witnesses[TypePlans!FirstOtx(t)].start["outputs"] \in Nat
  BY <1>1, RunOfWitnesses DEF Readable, Counts
<1> QED
  BY <1>6, <1>7, <1>8

\* How many items of a list each scope takes.
ItemsOf(t, d) == [c \in TypePlans!Scopes(t) |-> TypePlans!ItemsIn(t, c, d)]

\* The start of a scope is that of its run and SumOf the items of the scopes before it.
LEMMA ScopeStartIs ==
  ASSUME NEW t, NEW scope, NEW d
  PROVE  TypePlans!ScopeStart(t, scope, d)
           = t.witnesses[TypePlans!FirstOtx(t)].start[d]
               + SumOf(ItemsOf(t, d), TypePlans!Before(t, scope))
<1> DEFINE S == TypePlans!Before(t, scope)
           f == ItemsOf(t, d)
           left(g, s) == IF s = {} THEN 0 ELSE TypePlans!ItemsIn(t, One(s), d) + g[s \ {One(s)}]
           right(g, s) == IF s = {} THEN 0 ELSE f[One(s)] + g[s \ {One(s)}]
           Left(g) == g = [s \in SUBSET S |-> left(g, s)]
<1>1. ASSUME NEW g, NEW s \in SUBSET S
      PROVE  left(g, s) = right(g, s)
  BY OneIsElement DEF ItemsOf, TypePlans!Before
<1>2. TypePlans!ScopeStart(t, scope, d)
        = t.witnesses[TypePlans!FirstOtx(t)].start[d] + (CHOOSE g : Left(g))[S]
  BY DEF TypePlans!ScopeStart, TypePlans!MapThenSumSet, TypePlans!MapThenFoldSet, One
<1>3. \A g : Left(g) <=> Summing(g, f, S)
  <2> HIDE DEF left, f, S
  <2>1. \A g : Left(g) <=> g = [s \in SUBSET S |-> right(g, s)]
    <3> HIDE DEF right
    <3> QED
      BY <1>1
  <2> QED
    BY <2>1 DEF Summing
<1>4. SumOf(f, S) = (CHOOSE g : Summing(g, f, S))[S]
  BY SumOfIs DEF Summer
<1> HIDE DEF Left, f, S
<1>5. (CHOOSE g : Left(g)) = (CHOOSE g : Summing(g, f, S))
  BY <1>3, Zenon
<1> QED
  BY <1>2, <1>4, <1>5 DEF f, S

\* A scope ends before the next begins.
LEMMA ScopesApart ==
  ASSUME NEW t, Readable(t.witnesses), TypePlans!OneRun(t),
         NEW scope \in TypePlans!Scopes(t), NEW other \in TypePlans!Before(t, scope)
  PROVE  /\ TypePlans!ScopeStart(t, scope, "outputs") \in Nat
         /\ TypePlans!ScopeStart(t, other, "outputs") \in Nat
         /\ TypePlans!ScopeStart(t, other, "outputs") + TypePlans!ItemsIn(t, other, "outputs")
              <= TypePlans!ScopeStart(t, scope, "outputs")
<1> DEFINE f == ItemsOf(t, "outputs")
           A == TypePlans!Before(t, scope)
           B == TypePlans!Before(t, other)
           start == t.witnesses[TypePlans!FirstOtx(t)].start["outputs"]
<1>1. /\ IsFiniteSet(TypePlans!Scopes(t))
      /\ \A c \in TypePlans!Scopes(t) : /\ c[1] \in Nat /\ c[2] \in Nat
                                        /\ TypePlans!ItemsIn(t, c, "outputs") \in Nat
      /\ start \in Nat
  BY ScopesAreFinite
<1>2. A \subseteq TypePlans!Scopes(t) /\ B \subseteq TypePlans!Scopes(t)
  BY DEF TypePlans!Before
<1>3. other \in A /\ other \notin B /\ B \subseteq A
  BY <1>1, <1>2 DEF TypePlans!Before
<1>4. \A c \in A : f[c] = TypePlans!ItemsIn(t, c, "outputs") /\ f[c] \in Nat
  BY <1>1, <1>2 DEF ItemsOf
<1>5. IsFiniteSet(A) /\ IsFiniteSet(B)
  BY <1>1, <1>2, FS_Subset
<1>6. /\ TypePlans!ScopeStart(t, scope, "outputs") = start + SumOf(f, A)
      /\ TypePlans!ScopeStart(t, other, "outputs") = start + SumOf(f, B)
  BY ScopeStartIs
<1> DEFINE C == B \cup {other}
<1> HIDE DEF f, A, B, start
<1>7. SumOf(f, C) = SumOf(f, B) + f[other]
  BY <1>3, <1>4, <1>5, SumAdd
<1>8. C \subseteq A
  BY <1>3
<1> HIDE DEF C
<1>9. SumOf(f, C) <= SumOf(f, A)
  BY <1>4, <1>5, <1>8, SumPart
<1>10. SumOf(f, A) \in Nat /\ SumOf(f, B) \in Nat /\ f[other] \in Nat
  BY <1>3, <1>4, <1>5, SumFacts
<1>11. TypePlans!ItemsIn(t, other, "outputs") = f[other]
  BY <1>3, <1>4
<1> QED
  BY <1>1, <1>6, <1>7, <1>9, <1>10, <1>11

\* No output belongs to two OTX.
LEMMA OutputsApart ==
  ASSUME NEW t, Readable(t.witnesses), TypePlans!OneRun(CobuildOf(t)),
         NEW k, NEW l, NEW i \in OtxOutputs(t, k), i \in OtxOutputs(t, l)
  PROVE  k = l
<1> DEFINE c == CobuildOf(t)
<1>1. Readable(c.witnesses)
  BY DEF CobuildOf
<1>2. PICK one \in TypePlans!Scopes(c) : one[1] = k /\ TypePlans!Holds(c, one, "outputs", i - 1)
  BY DEF OtxOutputs
<1>3. PICK other \in TypePlans!Scopes(c) : other[1] = l /\ TypePlans!Holds(c, other, "outputs", i - 1)
  BY DEF OtxOutputs
<1>4. i \in Int
  BY DEF OtxOutputs
<1> HIDE DEF c
<1>5. k \in Nat /\ l \in Nat
  BY <1>1, <1>2, <1>3, ScopesAreFinite DEF c
<1>6. \A a, b \in TypePlans!Scopes(c) :
        /\ TypePlans!ItemsIn(c, a, "outputs") \in Nat
        /\ a[1] < b[1] =>
             /\ TypePlans!ScopeStart(c, a, "outputs") \in Nat
             /\ TypePlans!ScopeStart(c, b, "outputs") \in Nat
             /\ TypePlans!ScopeStart(c, a, "outputs") + TypePlans!ItemsIn(c, a, "outputs")
                  <= TypePlans!ScopeStart(c, b, "outputs")
  <2> TAKE a, b \in TypePlans!Scopes(c)
  <2>1. TypePlans!ItemsIn(c, a, "outputs") \in Nat
    BY <1>1, ScopesAreFinite DEF c
  <2>2. a[1] < b[1] => a \in TypePlans!Before(c, b)
    BY DEF TypePlans!Before
  <2> QED
    BY <1>1, <2>1, <2>2, ScopesApart DEF c
<1>7. ~(k < l)
  BY <1>2, <1>3, <1>4, <1>6 DEF TypePlans!Holds
<1>8. ~(l < k)
  BY <1>2, <1>3, <1>4, <1>6 DEF TypePlans!Holds
<1> QED
  BY <1>5, <1>7, <1>8
-----------------------------------------------------------------------------
\* A script with a plan runs in a transaction whose OTX, if it has any, are one run.
LEMMA PlannedIsOneRun ==
  ASSUME NEW t, NEW script, TypePlans!At(t, "otx") # {},
         TypePlans!Plans(t, script) \/ LockPlans!Plans(t, script)
  PROVE  TypePlans!OneRun(t)
<1>1. CASE TypePlans!Plans(t, script)
  BY <1>1 DEF TypePlans!Plans, TypePlans!Verdict
<1>2. CASE LockPlans!Plans(t, script)
  <2>1. /\ \A kind : LockPlans!At(t, kind) = TypePlans!At(t, kind)
        /\ LockPlans!Positions(t) = TypePlans!Positions(t)
    BY DEF LockPlans!At, LockPlans!Positions, TypePlans!At, TypePlans!Positions
  <2>2. LockPlans!OneRun(t)
    BY <1>2, <2>1 DEF LockPlans!Plans, LockPlans!Verdict
  <2>3. \A S : LockPlans!Cardinality(S) = TypePlans!Cardinality(S)
    BY DEF LockPlans!Cardinality, TypePlans!Cardinality
  <2> QED
    BY <2>1, <2>2, <2>3 DEF LockPlans!OneRun, TypePlans!OneRun
<1> QED
  BY <1>1, <1>2

\* An action is for order g: its script is the lock, or a type, of that one input.
ForOrder(t, g, action) ==
  \/ /\ action.role = "input_lock"
     /\ LockGroup(t.inputs, action.target) = {g.at}
     /\ g.order = Args(action.target)
  \/ /\ action.role \in {"input_type", "output_type"}
     /\ TypeGroup(t.inputs, action.target) = {g.at}
     /\ g.order = t.inputs[g.at].data.order

\* Action a of OTX k fills order g: it is for g and names the payment of g, which no other
\* fill of its OTX names.
FillsIt(t, g, k, a) ==
  LET message == OtxMessage(t, k)
      payment == message[a].data.payment
  IN  /\ a \in FillsOf(message) /\ ForOrder(t, g, message[a])
      /\ \A b \in FillsOf(message) \ {a} : message[b].data.payment # payment
      /\ payment \in Nat
      /\ BoundPaymentPays(t, k, payment, g.order)

\* settlement.rs: what an action must do to settle an order makes it fill that order.
LEMMA SettlingFills ==
  ASSUME NEW t, Readable(t.witnesses), TypePlans!OneRun(CobuildOf(t)),
         NEW ref, NEW k \in Int, NEW a \in Int, NEW script, NEW g,
         ref.otx_index = k, ref.witness_index = TypePlans!FirstOtx(CobuildOf(t)) + k,
         ref.action_index = a - 1, ref.origin = "otx",
         ref.witness_index \in TypePlans!At(CobuildOf(t), "otx"),
         a \in DOMAIN OtxMessage(t, k),
         OtxMessage(t, k)[a].role \in OrderRoles,
         ForOrder(t, g, OtxMessage(t, k)[a]),
         Settles(t, ref, script, g.order)
  PROVE  FillsIt(t, g, k, a)
<1> DEFINE c == CobuildOf(t)
           w == TypePlans!FirstOtx(c) + k
           message == OtxMessage(t, k)
<1>1. c.witnesses = t.witnesses
  BY DEF CobuildOf
<1>2. TypePlans!FirstOtx(c) \in Nat
  BY <1>1, RunOfWitnesses
<1>3. w + 1 \in DOMAIN t.witnesses /\ t.witnesses[w + 1].kind = "otx"
  BY <1>1 DEF TypePlans!At, TypePlans!Positions, Readable, IsList
<1>4. message = t.witnesses[w + 1].view.message
  BY <1>1 DEF OtxMessage, TypePlans!ViewOf
<1>5. ActionAt(t, ref) = message[a]
  BY <1>4 DEF ActionAt, MessageOf
<1>6. /\ PaymentsDistinct(message, script)
      /\ message[a].data.tag = "fill"
      /\ BoundPaymentPays(t, k, message[a].data.payment, g.order)
  BY <1>5 DEF Settles
<1>7. a \in FillsOf(message)
  BY <1>6 DEF FillsOf
<1>8. message[a].data.payment \in Nat
  BY <1>3, <1>4, <1>6, <1>7 DEF Readable, FillsCount
<1> QED
  BY <1>6, <1>7, <1>8 DEF FillsIt, PaymentsDistinct

\* A committed transaction with an order lock among its inputs was accepted by it.
LEMMA OrderLockAccepted ==
  ASSUME NEW inputs, NEW outputs, NEW witnesses, Valid(inputs, outputs, witnesses),
         NEW i \in DOMAIN inputs, Code(inputs[i].cell.lock) = "limit_order_lock"
  PROVE  OrderLockAccepts(Tx(inputs, outputs, witnesses), inputs[i].cell.lock)
<1>1. inputs[i].cell.lock \in Locks(CellsOf(inputs))
  BY DEF Locks, CellsOf
<1>2. LockAccepts(Tx(inputs, outputs, witnesses), inputs[i].cell.lock)
  BY <1>1 DEF Valid, Accepted, Tx, Cobuild
<1> QED
  BY <1>2 DEF LockAccepts

\* limit-order-lock entry.rs: an order that is a lock is filled by an action of an OTX.
LEMMA LockOrderFilled ==
  ASSUME NEW inputs, NEW outputs, NEW witnesses, Valid(inputs, outputs, witnesses),
         NEW i \in DOMAIN inputs, Code(inputs[i].cell.lock) = "limit_order_lock"
  PROVE  LET t == Tx(inputs, outputs, witnesses) IN
         /\ TypePlans!OneRun(CobuildOf(t))
         /\ \E k, a : FillsIt(t, [at |-> i, order |-> Args(inputs[i].cell.lock)], k, a)
<1> DEFINE t == Tx(inputs, outputs, witnesses)
           c == CobuildOf(t)
           script == inputs[i].cell.lock
           g == [at |-> i, order |-> Args(script)]
<1>1. /\ t.inputs = CellsOf(inputs) /\ t.witnesses = witnesses /\ c.witnesses = witnesses
      /\ Readable(witnesses)
  BY DEF Tx, CobuildOf, Valid
<1>2. OrderLockAccepts(t, script)
  BY OrderLockAccepted
<1>3. LockGroup(t.inputs, script) = {i}
  <2>1. LockGroup(t.inputs, script) \subseteq DOMAIN CellsOf(inputs) /\ i \in LockGroup(t.inputs, script)
    BY <1>1 DEF LockGroup, CellsOf
  <2>2. IsFiniteSet(LockGroup(t.inputs, script))
    BY <2>1, ListsAreFinite, FS_Subset
  <2>3. Cardinality(LockGroup(t.inputs, script)) = 1
    BY <1>2 DEF OrderLockAccepts
  <2> DEFINE L == LockGroup(t.inputs, script)
  <2> HIDE DEF L
  <2>4. \E x : L = {x}
    BY <2>2, <2>3, FS_Singleton DEF L
  <2>5. L = {i}
    BY <2>1, <2>4 DEF L
  <2> QED
    BY <2>5 DEF L
<1> DEFINE related == LockPlans!Related(c, script)
<1>4. /\ LockPlans!Plans(c, script)
      /\ Cardinality(related) = 1
      /\ \A ref \in related : ref.origin = "otx" /\ Settles(t, ref, script, Args(script))
  BY <1>2 DEF OrderLockAccepts
<1>5. PICK ref \in related : TRUE
  <2> HIDE DEF related
  <2> QED
    BY <1>4, FS_EmptySet
<1>6. /\ \A kind : LockPlans!At(c, kind) = TypePlans!At(c, kind)
      /\ LockPlans!FirstOtx(c) = TypePlans!FirstOtx(c)
  BY DEF LockPlans!At, LockPlans!Positions, TypePlans!At, TypePlans!Positions,
         LockPlans!FirstOtx, TypePlans!FirstOtx
<1>7. PICK w \in TypePlans!At(c, "otx") : ref \in LockPlans!OtxRelated(c, script, w)
  <2>1. ref.origin = "otx"
    BY <1>4, <1>5
  <2>2. \A w : ref \notin LockPlans!TxRelated(c, script, w)
    BY <2>1 DEF LockPlans!TxRelated
  <2> QED
    BY <1>5, <1>6, <2>2 DEF LockPlans!Related
<1>8. PICK a \in LockPlans!Own(witnesses[w + 1].view.message, script) :
        ref = [origin |-> "otx", witness_index |-> w, otx_index |-> w - TypePlans!FirstOtx(c),
               action_index |-> a - 1]
  BY <1>1, <1>6, <1>7 DEF LockPlans!OtxRelated
<1>9. TypePlans!OneRun(c)
  BY <1>4, <1>7, PlannedIsOneRun
<1> DEFINE k == w - TypePlans!FirstOtx(c)
<1>10. /\ TypePlans!FirstOtx(c) \in Nat /\ w \in Int /\ k \in Int
       /\ w = TypePlans!FirstOtx(c) + k
  <2>1. TypePlans!FirstOtx(c) \in Nat
    BY <1>1, <1>9, RunOfWitnesses
  <2>2. w \in Int
    BY DEF TypePlans!At, TypePlans!Positions
  <2> QED
    BY <2>1, <2>2
<1>11. OtxMessage(t, k) = witnesses[w + 1].view.message
  BY <1>1, <1>10 DEF OtxMessage, TypePlans!ViewOf
<1>12. /\ a \in Int /\ a \in DOMAIN OtxMessage(t, k)
       /\ OtxMessage(t, k)[a].role = "input_lock" /\ OtxMessage(t, k)[a].target = script
  <2>1. IsList(witnesses[w + 1].view.message)
    <3>1. w + 1 \in DOMAIN witnesses /\ witnesses[w + 1].kind = "otx"
      BY <1>1, <1>7 DEF TypePlans!At, TypePlans!Positions, Readable, IsList
    <3> QED
      BY <1>1, <3>1 DEF Readable
  <2> QED
    BY <1>8, <1>11, <2>1 DEF LockPlans!Own, IsList
<1>13. ForOrder(t, g, OtxMessage(t, k)[a])
  BY <1>3, <1>12 DEF ForOrder
<1>14. Settles(t, ref, script, g.order)
  BY <1>4, <1>5
<1>15. FillsIt(t, g, k, a)
  <2>1. /\ ref.otx_index = k /\ ref.witness_index = TypePlans!FirstOtx(CobuildOf(t)) + k
        /\ ref.action_index = a - 1 /\ ref.origin = "otx"
        /\ ref.witness_index \in TypePlans!At(CobuildOf(t), "otx")
    BY <1>7, <1>8, <1>10
  <2>2. OtxMessage(t, k)[a].role \in OrderRoles
    BY <1>12 DEF OrderRoles
  <2> HIDE DEF t, k, g
  <2> QED
    BY <1>1, <1>9, <1>10, <1>12, <1>13, <1>14, <2>1, <2>2, SettlingFills
<1> QED
  BY <1>9, <1>15

\* limit-order-type entry.rs: an order cell that is spent is filled by an action of an OTX.
LEMMA TypeOrderFilled ==
  ASSUME NEW inputs, NEW outputs, NEW witnesses, Valid(inputs, outputs, witnesses),
         NEW i \in DOMAIN inputs, NEW script \in inputs[i].cell.type,
         Code(script) = "limit_order_type"
  PROVE  LET t == Tx(inputs, outputs, witnesses) IN
         /\ IsOrder(inputs[i].cell)
         /\ TypePlans!OneRun(CobuildOf(t))
         /\ \E k, a : FillsIt(t, [at |-> i, order |-> inputs[i].cell.data.order], k, a)
<1> DEFINE t == Tx(inputs, outputs, witnesses)
           c == CobuildOf(t)
           g == [at |-> i, order |-> inputs[i].cell.data.order]
<1>1. /\ t.inputs = CellsOf(inputs) /\ t.witnesses = witnesses /\ c.witnesses = witnesses
      /\ Readable(witnesses)
  BY DEF Tx, CobuildOf, Valid
<1>2. i \in TypeGroup(CellsOf(inputs), script)
  BY DEF TypeGroup, CellsOf
<1>3. OrderTypeAccepts(t, script, taken)
  BY <1>2, TypesInList, OrderAccepted
<1>4. Shape(t, script) = <<1, 0>>
  <2> DEFINE n == Cardinality(TypeGroup(CellsOf(inputs), script))
  <2>1. Shape(t, script)[1] = n
    BY <1>1 DEF Shape
  <2>2. n # 0
    BY <1>2, ListsAreFinite, GroupSize
  <2>3. Shape(t, script) \in {<<0, 1>>, <<1, 0>>}
    BY <1>3 DEF OrderTypeAccepts
  <2> HIDE DEF n, t
  <2> QED
    BY <2>1, <2>2, <2>3
<1>5. TypeGroup(CellsOf(inputs), script) = {i}
  <2>1. Cardinality(TypeGroup(CellsOf(inputs), script)) = 1
    BY <1>1, <1>4 DEF Shape
  <2>2. \E j \in DOMAIN CellsOf(inputs) : TypeGroup(CellsOf(inputs), script) = {j}
    BY <2>1, ListsAreFinite, GroupSize
  <2> QED
    BY <1>2, <2>2
<1>6. CellIn(t.inputs, script) = inputs[i].cell
  <2>1. CellsOf(inputs)[i] = inputs[i].cell
    BY DEF CellsOf
  <2> QED
    BY <1>1, <1>5, <2>1 DEF CellIn
<1> DEFINE relations == TypePlans!Relations(c, script)
<1>7. /\ IsOrder(inputs[i].cell)
      /\ TypePlans!Plans(c, script)
      /\ Cardinality(relations) = 1
      /\ \A r \in relations : r.ref.origin = "otx" /\ Settles(t, r.ref, script, g.order)
  BY <1>3, <1>4, <1>6 DEF OrderTypeAccepts, FillAccepts
<1>8. PICK r \in relations : TRUE
  <2> HIDE DEF relations
  <2> QED
    BY <1>7, FS_EmptySet
<1>9. TypePlans!At(c, "otx") # {} /\ \E k \in TypePlans!OtxNumbers(c) : r \in TypePlans!OtxRelations(c, k, script)
  <2>1. r.ref.origin = "otx"
    BY <1>7, <1>8
  <2>2. \A w : r \notin TypePlans!TxRelations(c, w, script)
    BY <2>1 DEF TypePlans!TxRelations
  <2> QED
    BY <1>8, <2>2 DEF TypePlans!Relations
<1>10. PICK k \in TypePlans!OtxNumbers(c) : r \in TypePlans!OtxRelations(c, k, script)
  BY <1>9
<1>11. TypePlans!OneRun(c)
  BY <1>7, <1>9, PlannedIsOneRun
<1> DEFINE w == TypePlans!FirstOtx(c) + k
<1>12. /\ TypePlans!FirstOtx(c) \in Nat /\ k \in Int /\ w \in TypePlans!At(c, "otx")
  BY <1>1, <1>11, RunOfWitnesses
<1>13. OtxMessage(t, k) = TypePlans!ViewOf(c, k).message
  BY DEF OtxMessage
<1>14. PICK a \in TypePlans!Own(OtxMessage(t, k), script) :
         r.ref = [origin |-> "otx", witness_index |-> w, otx_index |-> k, action_index |-> a - 1]
  BY <1>10, <1>13 DEF TypePlans!OtxRelations
<1>15. /\ a \in Int /\ a \in DOMAIN OtxMessage(t, k)
       /\ OtxMessage(t, k)[a].role \in {"input_type", "output_type"}
       /\ OtxMessage(t, k)[a].target = script
  <2>1. IsList(OtxMessage(t, k))
    <3>1. w + 1 \in DOMAIN witnesses /\ witnesses[w + 1].kind = "otx"
      BY <1>1, <1>12 DEF TypePlans!At, TypePlans!Positions, Readable, IsList
    <3> QED
      BY <1>1, <1>13, <3>1 DEF Readable, TypePlans!ViewOf
  <2> QED
    BY <1>14, <2>1 DEF TypePlans!Own, TypePlans!TypeRoles, IsList
<1>16. ForOrder(t, g, OtxMessage(t, k)[a])
  <2>1. t.inputs[i] = inputs[i].cell
    BY <1>1 DEF CellsOf
  <2> QED
    BY <1>1, <1>5, <1>15, <2>1 DEF ForOrder
<1>17. Settles(t, r.ref, script, g.order)
  BY <1>7, <1>8
<1>18. FillsIt(t, g, k, a)
  <2>1. /\ r.ref.otx_index = k /\ r.ref.witness_index = TypePlans!FirstOtx(CobuildOf(t)) + k
        /\ r.ref.action_index = a - 1 /\ r.ref.origin = "otx"
        /\ r.ref.witness_index \in TypePlans!At(CobuildOf(t), "otx")
    BY <1>12, <1>14
  <2>2. OtxMessage(t, k)[a].role \in OrderRoles
    BY <1>15 DEF OrderRoles
  <2> HIDE DEF t, g
  <2> QED
    BY <1>1, <1>11, <1>12, <1>15, <1>16, <1>17, <2>1, <2>2, SettlingFills
<1> QED
  BY <1>7, <1>11, <1>18

\* The place of the payment that an action of an OTX names.
PaidAt(t, k, a) == PaymentIndex(t, k, OtxMessage(t, k)[a].data.payment)

\* An output that pays for two orders pays for one: an OTX names it once, and only the OTX
\* that has it among its outputs.
LEMMA OnePayment ==
  ASSUME NEW t, Readable(t.witnesses), TypePlans!OneRun(CobuildOf(t)),
         NEW g, NEW k, NEW a, FillsIt(t, g, k, a),
         NEW h, NEW l, NEW b, FillsIt(t, h, l, b),
         PaidAt(t, k, a) = PaidAt(t, l, b)
  PROVE  g.at = h.at /\ g.order = h.order
<1>1. PaidAt(t, k, a) \in OtxOutputs(t, k) /\ PaidAt(t, l, b) \in OtxOutputs(t, l)
  BY DEF FillsIt, BoundPaymentPays, PaidAt
<1>2. k = l
  BY <1>1, OutputsApart
<1> DEFINE message == OtxMessage(t, k)
           start == TypePlans!ScopeStart(CobuildOf(t), <<k, 0>>, "outputs")
<1>3. start \in Int
  <2> DEFINE c == CobuildOf(t)
             first == c.witnesses[TypePlans!FirstOtx(c)].start["outputs"]
             B == TypePlans!Before(c, <<k, 0>>)
             f == ItemsOf(c, "outputs")
  <2>1. Readable(c.witnesses)
    BY DEF CobuildOf
  <2>2. /\ IsFiniteSet(TypePlans!Scopes(c)) /\ first \in Nat
        /\ \A scope \in TypePlans!Scopes(c) : TypePlans!ItemsIn(c, scope, "outputs") \in Nat
    BY <2>1, ScopesAreFinite
  <2>3. B \subseteq TypePlans!Scopes(c)
    BY DEF TypePlans!Before
  <2>4. start = first + SumOf(f, B)
    BY ScopeStartIs
  <2>5. \A x \in B : f[x] \in Nat
    BY <2>2, <2>3 DEF ItemsOf
  <2>6. IsFiniteSet(B)
    BY <2>2, <2>3, FS_Subset
  <2> HIDE DEF f, B, first
  <2>7. SumOf(f, B) \in Nat
    BY <2>5, <2>6, SumFacts
  <2> QED
    BY <2>2, <2>4, <2>7
<1>4. message[a].data.payment \in Nat /\ message[b].data.payment \in Nat
  BY <1>2 DEF FillsIt
<1>5. message[a].data.payment = message[b].data.payment
  <2>1. start + message[a].data.payment + 1 = start + message[b].data.payment + 1
    BY <1>2 DEF PaidAt, PaymentIndex
  <2> HIDE DEF start, message
  <2> QED
    BY <1>3, <1>4, <2>1
<1>6. a = b
  BY <1>2, <1>5 DEF FillsIt
<1>7. ForOrder(t, g, message[a]) /\ ForOrder(t, h, message[a])
  BY <1>2, <1>6 DEF FillsIt
<1> HIDE DEF message
<1> QED
  BY <1>7 DEF ForOrder

\* What one order is paid with is an output of its owner and asset that holds enough.
LEMMA PaymentHolds ==
  ASSUME NEW t, Creatable(t.outputs), NEW g, NEW k, NEW a, FillsIt(t, g, k, a)
  PROVE  LET i == PaidAt(t, k, a) IN
         /\ i \in PaymentsTo(t.outputs, g.order.owner, g.order.asset)
         /\ AmountsOf(t.outputs)[i] \in Nat
         /\ g.order.requested <= AmountsOf(t.outputs)[i]
<1> DEFINE i == PaidAt(t, k, a)
<1>1. i \in OtxOutputs(t, k) /\ Pays(t.outputs[i], g.order)
  BY DEF FillsIt, BoundPaymentPays, PaidAt
<1> HIDE DEF i
<1>2. i \in DOMAIN t.outputs
  BY <1>1 DEF OtxOutputs
<1>3. t.outputs[i].data.amount \in Nat
  BY <1>1, <1>2, AmountIsNatural DEF Pays, Creatable
<1>4. /\ i \in PaymentsTo(t.outputs, g.order.owner, g.order.asset)
      /\ AmountsOf(t.outputs)[i] \in Nat
      /\ g.order.requested <= AmountsOf(t.outputs)[i]
  BY <1>1, <1>2, <1>3 DEF Pays, PaymentsTo, AmountsOf
<1> QED
  BY <1>4 DEF i

\* An order among the inputs is filled, and asks for a number.
LEMMA EveryOrderFilled ==
  ASSUME NEW inputs, NEW outputs, NEW witnesses, Valid(inputs, outputs, witnesses),
         CellsStorable, NEW g \in OrdersFilled(CellsOf(inputs))
  PROVE  LET t == Tx(inputs, outputs, witnesses) IN
         /\ TypePlans!OneRun(CobuildOf(t))
         /\ \E k, a : FillsIt(t, g, k, a)
         /\ g.order.requested \in Nat
         /\ g = [at |-> g.at, order |-> g.order]
<1>1. ASSUME NEW i \in DOMAIN inputs
      PROVE  Storable(inputs[i].cell) /\ CellsOf(inputs)[i] = inputs[i].cell
  BY DEF Valid, Spendable, CellsStorable, CellsOf
<1>2. DOMAIN CellsOf(inputs) = DOMAIN inputs
  BY DEF CellsOf
<1>3. CASE \E i \in DOMAIN inputs : /\ Code(inputs[i].cell.lock) = "limit_order_lock"
                                     /\ g = [at |-> i, order |-> Args(inputs[i].cell.lock)]
  <2>1. PICK i \in DOMAIN inputs : /\ Code(inputs[i].cell.lock) = "limit_order_lock"
                                    /\ g = [at |-> i, order |-> Args(inputs[i].cell.lock)]
    BY <1>3
  <2>2. g.order.requested \in 0..MaxU64
    BY <1>1, <2>1 DEF Storable, NumbersFit
  <2> QED
    BY <2>1, <2>2, WidthAssumption, LockOrderFilled
<1>4. CASE \E i \in DOMAIN inputs : /\ OfCode(inputs[i].cell.type, "limit_order_type") # {}
                                     /\ g = [at |-> i, order |-> inputs[i].cell.data.order]
  <2>1. PICK i \in DOMAIN inputs : /\ OfCode(inputs[i].cell.type, "limit_order_type") # {}
                                    /\ g = [at |-> i, order |-> inputs[i].cell.data.order]
    BY <1>4
  <2>2. PICK script \in inputs[i].cell.type : Code(script) = "limit_order_type"
    BY <2>1 DEF OfCode
  <2>3. /\ IsOrder(inputs[i].cell)
        /\ TypePlans!OneRun(CobuildOf(Tx(inputs, outputs, witnesses)))
        /\ \E k, a : FillsIt(Tx(inputs, outputs, witnesses), g, k, a)
    BY <2>1, <2>2, TypeOrderFilled
  <2>4. g.order.requested \in 0..MaxU64
    BY <1>1, <2>1, <2>3 DEF Storable, NumbersFit, IsOrder
  <2> QED
    BY <2>1, <2>3, <2>4, WidthAssumption
<1>5. \/ \E i \in DOMAIN inputs : /\ Code(inputs[i].cell.lock) = "limit_order_lock"
                                  /\ g = [at |-> i, order |-> Args(inputs[i].cell.lock)]
      \/ \E i \in DOMAIN inputs : /\ OfCode(inputs[i].cell.type, "limit_order_type") # {}
                                  /\ g = [at |-> i, order |-> inputs[i].cell.data.order]
  <2> DEFINE list == CellsOf(inputs)
  <2>1. \/ \E i \in DOMAIN list : /\ Code(list[i].lock) = "limit_order_lock"
                                  /\ g = [at |-> i, order |-> Args(list[i].lock)]
        \/ \E i \in DOMAIN list : /\ OfCode(list[i].type, "limit_order_type") # {}
                                  /\ g = [at |-> i, order |-> list[i].data.order]
    <3> HIDE DEF list
    <3> QED
      BY DEF OrdersFilled, list
  <2> QED
    BY <1>1, <1>2, <2>1
<1> QED
  BY <1>3, <1>4, <1>5

\* A transaction fills finitely many orders.
LEMMA OrdersAreFinite ==
  ASSUME NEW list, IsFiniteSet(DOMAIN list)
  PROVE  IsFiniteSet(OrdersFilled(list))
<1> DEFINE L == {i \in DOMAIN list : Code(list[i].lock) = "limit_order_lock"}
           T == {i \in DOMAIN list : OfCode(list[i].type, "limit_order_type") # {}}
           locks == {[at |-> i, order |-> Args(list[i].lock)] : i \in L}
           types == {[at |-> i, order |-> list[i].data.order] : i \in T}
           l == [i \in L |-> [at |-> i, order |-> Args(list[i].lock)]]
           c == [i \in T |-> [at |-> i, order |-> list[i].data.order]]
<1>1. IsFiniteSet(L) /\ IsFiniteSet(T)
  BY FS_Subset
<1>2. l \in Surjection(L, locks) /\ c \in Surjection(T, types)
  BY DEF Surjection
<1>3. OrdersFilled(list) = locks \cup types
  BY DEF OrdersFilled
<1> HIDE DEF L, T, locks, types, l, c
<1>4. IsFiniteSet(locks) /\ IsFiniteSet(types)
  BY <1>1, <1>2, FS_Surjection
<1> QED
  BY <1>3, <1>4, FS_Union

\* settlement.rs of both: the orders of one owner for one asset are paid what they ask for
\* together, since no output pays for two of them.
LEMMA OrdersPaid ==
  ASSUME NEW inputs, NEW outputs, NEW witnesses, Valid(inputs, outputs, witnesses),
         CellsStorable, NEW owner, NEW asset
  PROVE  LET alike == {g \in OrdersFilled(CellsOf(inputs)) :
                         g.order.owner = owner /\ g.order.asset = asset}
         IN  PaidTo(outputs, owner, asset) >= Requested(alike)
<1> DEFINE t == Tx(inputs, outputs, witnesses)
           alike == {g \in OrdersFilled(CellsOf(inputs)) :
                       g.order.owner = owner /\ g.order.asset = asset}
           payments == PaymentsTo(outputs, owner, asset)
           amounts == AmountsOf(outputs)
           requests == RequestsOf(alike)
           Pay(g, i) == \E k, a : FillsIt(t, g, k, a) /\ i = PaidAt(t, k, a)
           pay == [g \in alike |-> CHOOSE i : Pay(g, i)]
           paid == {pay[g] : g \in alike}
           received == [g \in alike |-> amounts[pay[g]]]
<1>1. t.outputs = outputs /\ Creatable(outputs) /\ Readable(t.witnesses)
  BY DEF Tx, Valid
<1>2. ASSUME NEW g \in alike
      PROVE  /\ TypePlans!OneRun(CobuildOf(t)) /\ Pay(g, pay[g])
             /\ g.order.requested \in Nat /\ g = [at |-> g.at, order |-> g.order]
  BY EveryOrderFilled
<1>3. ASSUME NEW g \in alike
      PROVE  pay[g] \in payments /\ amounts[pay[g]] \in Nat /\ requests[g] <= amounts[pay[g]]
  <2>1. PICK k, a : FillsIt(t, g, k, a) /\ pay[g] = PaidAt(t, k, a)
    BY <1>2
  <2>2. g.order.owner = owner /\ g.order.asset = asset /\ requests[g] = g.order.requested
    BY DEF RequestsOf
  <2> HIDE DEF t, pay, alike, payments, amounts, requests
  <2> QED
    BY <1>1, <2>1, <2>2, PaymentHolds DEF payments, amounts
<1>4. ASSUME NEW g \in alike, NEW h \in alike, pay[g] = pay[h]
      PROVE  g = h
  <2>1. PICK k, a : FillsIt(t, g, k, a) /\ pay[g] = PaidAt(t, k, a)
    BY <1>2
  <2>2. PICK l, b : FillsIt(t, h, l, b) /\ pay[h] = PaidAt(t, l, b)
    BY <1>2
  <2>3. g = [at |-> g.at, order |-> g.order] /\ h = [at |-> h.at, order |-> h.order]
    BY <1>2
  <2>4. TypePlans!OneRun(CobuildOf(t))
    BY <1>2
  <2> HIDE DEF t, pay, alike
  <2>5. FillsIt(t, g, k, a) /\ FillsIt(t, h, l, b) /\ PaidAt(t, k, a) = PaidAt(t, l, b)
    BY <1>4, <2>1, <2>2
  <2>6. Readable(t.witnesses)
    BY <1>1
  <2>7. g.at = h.at /\ g.order = h.order
    BY ONLY <2>4, <2>5, <2>6, OnePayment
  <2> QED
    BY <2>3, <2>7
<1>5. IsFiniteSet(alike) /\ IsFiniteSet(payments)
  <2>1. IsFiniteSet(OrdersFilled(CellsOf(inputs))) /\ IsFiniteSet(DOMAIN outputs)
    BY ListsAreFinite, OrdersAreFinite
  <2> QED
    BY <2>1, FS_Subset DEF PaymentsTo
<1>6. pay \in Bijection(alike, paid)
  <2>1. pay \in [alike -> paid]
    OBVIOUS
  <2> HIDE DEF pay, alike
  <2> QED
    BY <1>4, <2>1 DEF Bijection, Injection, Surjection, IsInjective
<1>7. \A g \in alike : /\ requests[g] \in Nat /\ received[g] \in Nat
                       /\ requests[g] <= received[g] /\ received[g] = amounts[pay[g]]
  <2>1. \A g \in alike : requests[g] \in Nat
    BY <1>2 DEF RequestsOf
  <2>2. \A g \in alike : received[g] = amounts[pay[g]]
    OBVIOUS
  <2> HIDE DEF pay, alike, requests, amounts, received
  <2> QED
    BY <1>3, <2>1, <2>2
<1>8. paid \subseteq payments
  <2> HIDE DEF pay, alike, payments
  <2> QED
    BY <1>3
<1>9. \A i \in payments : amounts[i] \in Nat
  BY <1>1, AmountIsNatural DEF PaymentsTo, AmountsOf, Creatable
<1>10. /\ Requested(alike) = SumOf(requests, alike)
       /\ PaidTo(outputs, owner, asset) = SumOf(amounts, payments)
  BY RequestedIs, PaidToIs
<1> HIDE DEF t, alike, payments, amounts, requests, pay, paid, received
<1>11. SumOf(requests, alike) <= SumOf(received, alike)
  BY <1>5, <1>7, SumMonotone
<1>12. SumOf(received, alike) = SumOf(amounts, paid)
  BY <1>5, <1>6, <1>7, SumRenamed
<1>13. SumOf(amounts, paid) <= SumOf(amounts, payments)
  BY <1>5, <1>8, <1>9, SumPart
<1>14. /\ SumOf(requests, alike) \in Nat /\ SumOf(received, alike) \in Nat
       /\ SumOf(amounts, payments) \in Nat
  BY <1>5, <1>7, <1>9, SumFacts
<1>15. PaidTo(outputs, owner, asset) >= Requested(alike)
  BY <1>10, <1>11, <1>12, <1>13, <1>14
<1> QED
  BY <1>15 DEF alike

\* settlement.rs of both order contracts: the owner of the orders a transaction fills is
\* paid the sum of what they ask for.
THEOREM OwnersArePaid == Spec => []OwnersPaid
<1>1. Init => OwnersPaid
  <2> SUFFICES ASSUME Init PROVE OwnersPaid
    OBVIOUS
  <2>1. last.inputs = <<>>
    BY DEF Init
  <2>2. OrdersFilled(last.inputs) = {}
    BY <2>1 DEF OrdersFilled
  <2> QED
    BY <2>2 DEF OwnersPaid
<1>2. CellsStorable /\ OwnersPaid /\ [Next]_vars => OwnersPaid'
  <2> SUFFICES ASSUME CellsStorable, OwnersPaid, [Next]_vars PROVE OwnersPaid'
    OBVIOUS
  <2>1. CASE Next
    <3>1. PICK inputs, outputs, witnesses :
            Valid(inputs, outputs, witnesses) /\ Commit(inputs, outputs)
      BY <2>1, NextIsValid
    <3>2. last'.inputs = CellsOf(inputs) /\ last'.outputs = outputs
      BY <3>1 DEF Commit
    <3>3. \A owner, asset :
            PaidTo(outputs, owner, asset)
              >= Requested({g \in OrdersFilled(CellsOf(inputs)) :
                              g.order.owner = owner /\ g.order.asset = asset})
      BY <3>1, OrdersPaid
    <3> QED
      BY <3>2, <3>3 DEF OwnersPaid
  <2>2. CASE UNCHANGED vars
    BY <2>2 DEF vars, OwnersPaid
  <2> QED
    BY <2>1, <2>2
<1> QED
  BY <1>1, <1>2, CellsAreStorable, PTL DEF Spec
=============================================================================
