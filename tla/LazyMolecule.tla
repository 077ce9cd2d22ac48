---------------------------- MODULE LazyMolecule ----------------------------
(***************************************************************************)
(* The lazy reader (lazy_reader/support.rs and the code generated on it):  *)
(* cursors over the bytes of a source, and what verify and the accessors   *)
(* of a type do with them.  A call that may fail returns a set: its result *)
(* alone, or nothing.                                                      *)
(*                                                                         *)
(* Reads go to the source as UncachedSource answers them: LazySource shows *)
(* that its cache makes no difference.                                     *)
(***************************************************************************)
EXTENDS Integers, Sequences
LOCAL INSTANCE Molecule

Cursor(offset, size) == [offset |-> offset, size |-> size]
Whole(data) == Cursor(0, Len(data))

\* Cursor::read_at into a buffer of n bytes, for callers that want it filled.
\* Fault: a read is held against the source, and not against its cursor.
ReadAt_Unbounded(data, cur, n) ==
  IF n = 0 \/ cur.offset + n <= Len(data)
  THEN {Part(data, cur.offset, cur.offset + n)}
  ELSE {}
ReadAt(data, cur, n) ==
  IF n <= cur.size /\ (n = 0 \/ cur.offset + n <= Len(data))
  THEN {Part(data, cur.offset, cur.offset + n)}
  ELSE {}

NumberOf(data, cur) == {unpack_number(b) : b \in ReadAt(data, cur, NUMBER_SIZE)}

\* The size stays as it was: a moved cursor may reach behind its parent.
AddOffset(cur, n) == Cursor(cur.offset + n, cur.size)

\* Fault: the slice is not held against the cursor it is cut from.
SliceByOffset_Unbounded(cur, offset, size) == {Cursor(cur.offset + offset, size)}
SliceByOffset(cur, offset, size) ==
  IF offset + size > cur.size THEN {} ELSE {Cursor(cur.offset + offset, size)}

SliceByStart(cur, delta) ==
  IF delta > cur.size THEN {} ELSE {Cursor(cur.offset + delta, cur.size - delta)}

(***************************************************************************)
(* Vectors and tables.                                                     *)
(***************************************************************************)
HeaderNumber(data, cur, i) == NumberOf(data, AddOffset(cur, NUMBER_SIZE * i))

\* The end of the last item is not looked at here; its own slice does that.
HeaderOrdered(data, cur, count) ==
  /\ \A i \in 1..count : HeaderNumber(data, cur, i) # {}
  /\ \A i \in 1..(count - 1) :
       \A a \in HeaderNumber(data, cur, i), b \in HeaderNumber(data, cur, i + 1) : a <= b

\* Fault: a table of empty fields, all header, is refused.
HasHeader_Shorter(data, cur) ==
  \E first \in HeaderNumber(data, cur, 1) :
    /\ first % NUMBER_SIZE = 0
    /\ first \in 2 * NUMBER_SIZE..(cur.size - 1)
    /\ HeaderOrdered(data, cur, first \div NUMBER_SIZE - 1)
HasHeader(data, cur) ==
  \E first \in HeaderNumber(data, cur, 1) :
    /\ first % NUMBER_SIZE = 0
    /\ first \in 2 * NUMBER_SIZE..cur.size
    /\ HeaderOrdered(data, cur, first \div NUMBER_SIZE - 1)

VerifyDynvec(data, cur) ==
  /\ NumberOf(data, cur) = {cur.size}
  /\ \/ cur.size = NUMBER_SIZE
     \/ /\ cur.size >= 2 * NUMBER_SIZE
        /\ HasHeader(data, cur)

\* Fault: fields of a later schema are let through where they must not be.
VerifyTable_Compatible(data, cur, expected, compatible) ==
  /\ VerifyDynvec(data, cur)
  /\ IF cur.size = NUMBER_SIZE THEN expected = 0
     ELSE \A first \in HeaderNumber(data, cur, 1) : first \div NUMBER_SIZE - 1 >= expected
VerifyTable(data, cur, expected, compatible) ==
  /\ VerifyDynvec(data, cur)
  /\ IF cur.size = NUMBER_SIZE THEN expected = 0
     ELSE \A first \in HeaderNumber(data, cur, 1) :
            LET count == first \div NUMBER_SIZE - 1
            IN  count = expected \/ (compatible /\ count > expected)

VerifyFixvec(data, cur, item_size) ==
  \E count \in NumberOf(data, cur) :
    count <= cur.size /\ cur.size = NUMBER_SIZE + item_size * count

ItemCount(data, cur) ==
  {n \div NUMBER_SIZE - 1 :
     n \in {m \in NumberOf(data, cur) : m % NUMBER_SIZE = 0 /\ m >= NUMBER_SIZE}}

DynvecLength(data, cur) ==
  IF cur.size = NUMBER_SIZE THEN {0}
  ELSE UNION {ItemCount(data, behind) : behind \in SliceByStart(cur, NUMBER_SIZE)}

\* Where item i ends, numbered from 1: where the next starts, or at the total.
ItemEnd(data, cur, i) ==
  UNION {IF i = count THEN NumberOf(data, cur) ELSE HeaderNumber(data, cur, i + 1) :
           count \in {n \in ItemCount(data, AddOffset(cur, NUMBER_SIZE)) : i <= n}}
DynvecSlice(data, cur, i) ==
  {Cursor(cur.offset + span[1], span[2] - span[1]) :
     span \in {s \in HeaderNumber(data, cur, i) \X ItemEnd(data, cur, i) : s[1] <= s[2]}}

\* Bound: no item is asked for past the end of the bytes.
FixvecSlice(data, cur, item_size, i) ==
  UNION {SliceByOffset(cur, NUMBER_SIZE + item_size * (i - 1), item_size) :
           count \in {n \in NumberOf(data, cur) : i <= n}}

RawBytes(data, cur) ==
  UNION {SliceByOffset(cur, NUMBER_SIZE, n) : n \in NumberOf(data, cur)}

(***************************************************************************)
(* The lazy types.  "checked" is what verify of a table or struct descends *)
(* into, and whether verify of a vector does into its items; the accessors *)
(* read a number from the front of its field, an array as all of it.       *)
(***************************************************************************)
LazyNumber(n) == [kind |-> "number", n |-> n]
LazyArray(n) == [kind |-> "array", n |-> n]
LazyByte == LazyNumber(1)
LazyRaw == [kind |-> "raw"]
LazyOption(item) == [kind |-> "option", item |-> item]
LazyStruct(fields, checked) ==
  [kind |-> "struct", fields |-> fields, checked |-> checked]
LazyTable(fields, checked) ==
  [kind |-> "table", fields |-> fields, checked |-> checked]
LazyFixVec(item) == [kind |-> "fixvec", item |-> item]
LazyDynVec(item, checked) == [kind |-> "dynvec", item |-> item, checked |-> checked]
LazyUnion(variants) == [kind |-> "union", variants |-> variants]

RECURSIVE LazySize(_)
FieldStart(fields, i) ==
  LET start[k \in 1..i] == IF k = 1 THEN 0 ELSE start[k - 1] + LazySize(fields[k - 1])
  IN  start[i]
LazySize(type) ==
  IF type.kind = "struct"
  THEN FieldStart(Append(type.fields, LazyByte), Len(type.fields) + 1)
  ELSE type.n

Field(type, data, cur, i) ==
  IF type.kind = "table" THEN DynvecSlice(data, cur, i)
  ELSE SliceByOffset(cur, FieldStart(type.fields, i), LazySize(type.fields[i]))

Inner(cur) == Cursor(cur.offset + NUMBER_SIZE, cur.size - NUMBER_SIZE)
\* union_unpack, with its id as the bytes it is read from.
Variants(type, data, cur) ==
  {k \in DOMAIN type.variants :
     ReadAt(data, cur, NUMBER_SIZE) = {type.variants[k].id}}

\* What verify does with a part it descends into: an array is first read out
\* of its field.
RECURSIVE LazyVerify(_, _, _, _)
VerifyPart(type, data, cur, compatible) ==
  /\ type.kind = "array" => ReadAt(data, cur, type.n) # {}
  /\ LazyVerify(type, data, cur, compatible)

LazyVerify(type, data, cur, compatible) ==
  CASE type.kind \in {"number", "array"} -> cur.size = type.n
    [] type.kind = "option" -> cur.size = 0 \/ LazyVerify(type.item, data, cur, compatible)
    [] type.kind = "raw" -> VerifyFixvec(data, cur, 1)
    [] type.kind = "fixvec" -> VerifyFixvec(data, cur, LazySize(type.item))
    [] type.kind \in {"struct", "table"} ->
         /\ IF type.kind = "struct" THEN cur.size = LazySize(type)
            ELSE VerifyTable(data, cur, Len(type.fields), compatible)
         /\ \A i \in type.checked :
              \E part \in Field(type, data, cur, i) :
                VerifyPart(type.fields[i], data, part, compatible)
    [] type.kind = "dynvec" ->
         /\ VerifyDynvec(data, cur)
         /\ type.checked =>
              \E count \in DynvecLength(data, cur) : \A i \in 1..count :
                \E part \in DynvecSlice(data, cur, i) :
                  LazyVerify(type.item, data, part, compatible)
    [] type.kind = "union" ->
         \E k \in Variants(type, data, cur) :
           LazyVerify(type.variants[k].type, data, Inner(cur), compatible)

(***************************************************************************)
(* All that the accessors of a type return, down to its bytes.  Values are *)
(* those of Molecule.                                                      *)
(***************************************************************************)
\* One result for each of n calls, if none of them fails.
EachOf(calls) ==
  LET results == Items(calls)
  IN  IF \E i \in DOMAIN results : results[i] = {} THEN {}
      ELSE {Items([i \in DOMAIN results |-> CHOOSE v \in results[i] : TRUE])}

RECURSIVE LazyRead(_, _, _)
ReadPart(type, data, parts) == UNION {LazyRead(type, data, part) : part \in parts}
LazyRead(type, data, cur) ==
  CASE type.kind = "number" ->
         {IF type.n = 1 THEN b[1] ELSE b : b \in ReadAt(data, cur, type.n)}
    [] type.kind = "array" ->
         IF cur.size = type.n THEN ReadAt(data, cur, type.n) ELSE {}
    [] type.kind = "raw" ->
         UNION {ReadAt(data, raw, raw.size) : raw \in RawBytes(data, cur)}
    [] type.kind = "option" ->
         IF cur.size = 0 THEN {<<>>} ELSE {<<v>> : v \in LazyRead(type.item, data, cur)}
    [] type.kind \in {"struct", "table"} ->
         EachOf([i \in 1..Len(type.fields) |->
                   ReadPart(type.fields[i], data, Field(type, data, cur, i))])
    [] type.kind = "fixvec" ->
         UNION {EachOf([i \in 1..count |->
                          ReadPart(type.item, data,
                                   FixvecSlice(data, cur, LazySize(type.item), i))]) :
                  count \in {n \in NumberOf(data, cur) : n <= Len(data)}}
    [] type.kind = "dynvec" ->
         UNION {EachOf([i \in 1..count |->
                          ReadPart(type.item, data, DynvecSlice(data, cur, i))]) :
                  count \in {n \in DynvecLength(data, cur) : n <= Len(data)}}
    [] type.kind = "union" ->
         UNION {{<<type.variants[k].id, v>> :
                   v \in LazyRead(type.variants[k].type, data, Inner(cur))} :
                  k \in Variants(type, data, cur)}
=============================================================================
