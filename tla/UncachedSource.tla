--------------------------- MODULE UncachedSource ---------------------------
(***************************************************************************)
(* What a lazy reader promises to the code that reads through it: a        *)
(* cursor is a window [offset, offset + size) of one immutable byte        *)
(* string, and the answer to a read is a function of that string and of    *)
(* the request, whatever was read before.                                  *)
(***************************************************************************)
EXTENDS Integers

CONSTANTS Cursors,         \* the windows read through, [offset, size]
          ArrayLens        \* lengths of the fixed buffers of the callers

VARIABLES total_size, memory, call, reply

uncachedVars == <<total_size, memory, call, reply>>

Op == {"number", "array", "bytes", "update"}
NoBytes == [i \in {} |-> 0]
Window(offset, n) == [i \in 0..(n - 1) |-> memory[offset + i]]
Inside(offset, n) == n = 0 \/ offset + n <= total_size

\* What each kind of read needs to succeed, and how many bytes it returns:
\* a number takes the first n bytes of its cursor, an array is all of it.
Wanted(k) == IF k.op = "number" THEN k.n ELSE k.cursor.size
Served(k) ==
  /\ Inside(k.cursor.offset, Wanted(k))
  /\ k.op = "number" => k.n <= k.cursor.size
  /\ k.op = "array" => k.n = k.cursor.size

Answer(k) ==
  [request |-> k,
   ok |-> Served(k),
   bytes |-> IF Served(k) THEN Window(k.cursor.offset, Wanted(k)) ELSE NoBytes]

Request == [op : Op, cursor : Cursors, n : ArrayLens]

Init ==
  /\ total_size \in Nat
  /\ memory \in [0..(total_size - 1) -> Nat]
  /\ call = {}
  /\ reply = {}

Ask(k) ==
  /\ call = {}
  /\ call' = {k}
  /\ reply' = {}
  /\ UNCHANGED <<total_size, memory>>

Return(k) ==
  /\ call = {k}
  /\ call' = {}
  /\ reply' = {Answer(k)}
  /\ UNCHANGED <<total_size, memory>>

Next == \E k \in Request : Ask(k) \/ Return(k)

UncachedSpec == Init /\ [][Next]_uncachedVars
=============================================================================
