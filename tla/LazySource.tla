----------------------------- MODULE LazySource -----------------------------
(***************************************************************************)
(* The data source behind every cursor of the lazy reader (lazy_reader/    *)
(* support.rs, DataSource and Cursor::read_at) with its one-window cache,  *)
(* the readers it pulls from (reader.rs, syscalls.rs), and the four ways   *)
(* the program reads a cursor: a little-endian number, a fixed array, a    *)
(* copy of all its bytes, and the chunked feed of a hasher.                *)
(*                                                                         *)
(* Cursors cut from one witness share one source, so a read finds the      *)
(* cache in the state the reads of other cursors left it in.  The call in  *)
(* progress is a variable: a step is one DataSource::read_at.              *)
(***************************************************************************)
EXTENDS Integers

CONSTANTS
  Byte,                    \* the values a byte takes, 0 among them
  Cursors,                 \* windows [offset, size] the program may read
  ArrayLens,               \* lengths of fixed buffers: 1, 4, 8, 32
  SourceLens,              \* bound: lengths of the source
  CacheLen,                \* MAX_CACHE_SIZE
  ChunkLen                 \* buffer of update_cursor_with_error

ASSUME SourceAssumption ==
  /\ 0 \in Byte
  /\ Byte \subseteq Nat
  /\ Cursors \subseteq [offset : Nat, size : Nat]
  /\ SourceLens \subseteq Nat
  /\ CacheLen \in Nat \ {0}
  /\ ChunkLen \in 1..CacheLen
  /\ ArrayLens \subseteq 1..CacheLen

VARIABLES
  kind,                    \* which reader the source pulls from
  total_size, memory,      \* the bytes behind the reader, fixed
  cache_start_point, cache_actual_size, cache,
  call,                    \* the read in progress, with what it was fed, or {}
  served,                  \* the last DataSource::read_at and its outcome, or {}
  reply                    \* the last read the program made, or {}

dataSource == <<cache_start_point, cache_actual_size, cache>>
fixed == <<kind, total_size, memory>>
vars == <<kind, total_size, memory, cache_start_point, cache_actual_size,
          cache, call, served, reply>>

Op == {"number", "array", "bytes", "update"}
Request == [op : Op, cursor : Cursors, n : ArrayLens]

Smaller(a, b) == IF a <= b THEN a ELSE b
NoBytes == [i \in {} |-> 0]
Window(offset, n) == [i \in 0..(n - 1) |-> memory[offset + i]]

Ok(bytes, n) == [error |-> "none", len |-> n, bytes |-> bytes]
Err(error) == [error |-> error, len |-> 0, bytes |-> NoBytes]

(***************************************************************************)
(* The readers: a copy in memory (OwnedReader, Vec<u8>) and the syscalls,  *)
(* whose size was probed when the cursor was made.  load copies what fits  *)
(* and says how much there was, as an error when it was more.              *)
(***************************************************************************)
MemoryRead(n, offset) ==
  IF offset >= total_size THEN Err("OutOfBound")
  ELSE LET read_len == Smaller(n, total_size - offset)
       IN  Ok(Window(offset, read_len), read_len)

Load(n, offset) ==
  LET available == total_size - offset
  IN  [status |-> IF available > n THEN "LengthNotEnough" ELSE "Ok",
       size |-> available,
       bytes |-> Window(offset, Smaller(n, available))]

SyscallRead(n, offset) ==
  IF n = 0 THEN Ok(NoBytes, 0)
  ELSE IF offset >= total_size THEN Err("OutOfBound")
  ELSE LET read_len == Smaller(n, total_size - offset)
           loaded == Load(read_len, offset)
       IN  IF loaded.status = "LengthNotEnough" /\ loaded.size < read_len
           THEN Err("Read")
           ELSE Ok(loaded.bytes, Smaller(loaded.size, read_len))

ReaderRead(n, offset) ==
  IF kind = "syscall" THEN SyscallRead(n, offset) ELSE MemoryRead(n, offset)

(***************************************************************************)
(* The read a call makes next.  A hasher is fed chunk by chunk, each chunk *)
(* through a cursor of its own; the others read once.                      *)
(***************************************************************************)
Remaining(k) == k.cursor.size - k.done
Pending(k) ==
  CASE k.op = "update" ->
         [offset |-> k.cursor.offset + k.done,
          buf_len |-> Smaller(ChunkLen, Remaining(k)),
          read_len |-> Smaller(ChunkLen, Remaining(k))]
    [] k.op = "bytes" ->
         [offset |-> k.cursor.offset, buf_len |-> k.cursor.size,
          read_len |-> k.cursor.size]
    [] OTHER ->
         [offset |-> k.cursor.offset, buf_len |-> k.n,
          read_len |-> Smaller(k.cursor.size, k.n)]

Accepted(k, outcome) ==
  /\ outcome.error = "none"
  /\ outcome.len = Pending(k).buf_len
  /\ k.op = "array" => outcome.len = k.cursor.size

\* Fault: each chunk is hashed from the start of the buffer it is added to.
Feed_Overwrite(k, outcome) ==
  [i \in 0..(k.done + outcome.len - 1) |->
     IF i < outcome.len THEN outcome.bytes[i] ELSE k.fed[i - outcome.len]]

Feed(k, outcome) ==
  [i \in 0..(k.done + outcome.len - 1) |->
     IF i < k.done THEN k.fed[i] ELSE outcome.bytes[i - k.done]]

Asked(k) == [op |-> k.op, cursor |-> k.cursor, n |-> k.n]
Replied(k, ok, bytes) ==
  /\ call' = {}
  /\ reply' = {[request |-> Asked(k), ok |-> ok,
                bytes |-> IF ok THEN bytes ELSE NoBytes]}

\* Fault: the loop variable of the chunk loop is not moved on.
Continue_Stuck(k, outcome) ==
  IF k.op = "update" /\ Accepted(k, outcome) /\ outcome.len < Remaining(k)
  THEN UNCHANGED <<call, reply>>
  ELSE Replied(k, Accepted(k, outcome), Feed(k, outcome))

\* What the caller does with the outcome of a read: it goes on to the next
\* chunk, or returns.
Continue(k, outcome) ==
  IF k.op = "update" /\ Accepted(k, outcome) /\ outcome.len < Remaining(k)
  THEN /\ call' = {[op |-> k.op, cursor |-> k.cursor, n |-> k.n,
                    done |-> k.done + outcome.len, fed |-> Feed(k, outcome)]}
       /\ UNCHANGED reply
  ELSE Replied(k, Accepted(k, outcome), Feed(k, outcome))

Delivered(k, outcome) ==
  /\ served' = {[offset |-> Pending(k).offset, read_len |-> Pending(k).read_len,
                 error |-> outcome.error, len |-> outcome.len]}
  /\ Continue(k, outcome)
  /\ UNCHANGED fixed

Started(r, d) ==
  [op |-> r.op, cursor |-> r.cursor, n |-> r.n,
   done |-> d, fed |-> Window(r.cursor.offset, d)]

Init ==
  /\ kind \in {"owned", "vec", "syscall"}
  /\ total_size \in SourceLens
  /\ memory \in [0..(total_size - 1) -> Byte]
  /\ cache_start_point = 0
  /\ cache_actual_size = 0
  /\ cache = [i \in 0..(CacheLen - 1) |-> 0]
  /\ call = {}
  /\ served = {}
  /\ reply = {}

\* The program turns to the next cursor.
Ask(request) ==
  /\ call = {}
  /\ call' = {Started(request, 0)}
  /\ reply' = {}
  /\ served' = {}
  /\ UNCHANGED <<fixed, dataSource>>

(***************************************************************************)
(* DataSource::read_at, one action per way out.                            *)
(***************************************************************************)
\* Fault: the whole buffer counts as filled, its stale end included.
InCache_Whole(want) ==
  /\ want.offset >= cache_start_point
  /\ want.offset + want.read_len <= cache_start_point + CacheLen

InCache(want) ==
  /\ want.offset >= cache_start_point
  /\ want.offset + want.read_len <= cache_start_point + cache_actual_size

\* A hasher whose cursor is used up never gets to read.
FeedNothing(k) ==
  /\ call = {k}
  /\ k.op = "update"
  /\ Remaining(k) = 0
  /\ Replied(k, TRUE, k.fed)
  /\ UNCHANGED <<fixed, dataSource, served>>

Reads(k) ==
  /\ call = {k}
  /\ k.op = "update" => Remaining(k) > 0

ReadNothing(k) ==
  /\ Reads(k)
  /\ Pending(k).read_len = 0
  /\ Delivered(k, Ok(NoBytes, 0))
  /\ UNCHANGED dataSource

ReadDirectly(k) ==
  /\ Reads(k)
  /\ Pending(k).read_len > CacheLen
  /\ Delivered(k, ReaderRead(Pending(k).buf_len, Pending(k).offset))
  /\ UNCHANGED dataSource

Cached(k) ==
  /\ Reads(k)
  /\ Pending(k).read_len \in 1..CacheLen
Slice(point, n) == [i \in 0..(n - 1) |-> cache[point + i]]

ReadFromCache(k) ==
  /\ Cached(k)
  /\ InCache(Pending(k))
  /\ LET want == Pending(k)
     IN  Delivered(k, Ok(Slice(want.offset - cache_start_point, want.read_len),
                         want.read_len))
  /\ UNCHANGED dataSource

\* Fault: a read that comes up short returns before the bounds are stored.
FillCache_ShortFirst(pulled, offset) ==
  /\ \E k \in call :
       IF pulled.len < Pending(k).read_len
       THEN UNCHANGED <<cache_start_point, cache_actual_size>>
       ELSE cache_start_point' = offset /\ cache_actual_size' = pulled.len
  /\ cache' = [i \in 0..(CacheLen - 1) |->
                 IF i < pulled.len THEN pulled.bytes[i] ELSE cache[i]]

\* Fault: the fill is counted on top of what the cache held.
FillCache_Append(pulled, offset) ==
  /\ cache_start_point' = offset
  /\ cache_actual_size' = cache_actual_size + pulled.len
  /\ cache' = [i \in 0..(CacheLen - 1) |->
                 IF i < pulled.len THEN pulled.bytes[i] ELSE cache[i]]

\* Reader::read fills the front of the cache and leaves the rest as it was.
FillCache(pulled, offset) ==
  /\ cache_start_point' = offset
  /\ cache_actual_size' = pulled.len
  /\ cache' = [i \in 0..(CacheLen - 1) |->
                 IF i < pulled.len THEN pulled.bytes[i] ELSE cache[i]]

MissAndFill(k) ==
  /\ Cached(k)
  /\ ~InCache(Pending(k))
  /\ LET want == Pending(k)
         pulled == ReaderRead(CacheLen, want.offset)
     IN  /\ pulled.error = "none"
         /\ FillCache(pulled, want.offset)
         /\ Delivered(k, IF pulled.len < want.read_len THEN Err("Read")
                         ELSE Ok([i \in 0..(want.read_len - 1) |-> pulled.bytes[i]],
                                 want.read_len))

\* The reader's own error leaves through `?` with the cache as it was.
MissOutOfBound(k) ==
  /\ Cached(k)
  /\ ~InCache(Pending(k))
  /\ LET pulled == ReaderRead(CacheLen, Pending(k).offset)
     IN  pulled.error # "none" /\ Delivered(k, pulled)
  /\ UNCHANGED dataSource

Read(k) ==
  \/ FeedNothing(k)
  \/ ReadNothing(k)
  \/ ReadDirectly(k)
  \/ ReadFromCache(k)
  \/ MissAndFill(k)
  \/ MissOutOfBound(k)

AnyRead == \E k \in call : Read(k)
Next == (\E request \in Request : Ask(request)) \/ AnyRead

Spec == Init /\ [][Next]_vars
\* The code is sequential: a call it has begun, it runs to the end.
FairSpec == Spec /\ WF_vars(AnyRead)

(***************************************************************************)
(* Properties.                                                             *)
(***************************************************************************)
\* Each variable has its type; the cache never counts more than it can hold.
TypeOK ==
  /\ kind \in {"owned", "vec", "syscall"}
  /\ total_size \in Nat
  /\ memory \in [0..(total_size - 1) -> Byte]
  /\ cache_start_point \in Nat
  /\ cache_actual_size \in 0..CacheLen
  /\ cache \in [0..(CacheLen - 1) -> Byte]
  /\ \A r \in reply : r.request \in Request /\ r.ok \in BOOLEAN

\* What the cache says it holds is what the source holds there, whichever
\* cursor filled it and however short the fill came (support.rs, read_at).
CacheCoherent ==
  /\ cache_actual_size > 0 => cache_start_point + cache_actual_size <= total_size
  /\ \A i \in 0..(cache_actual_size - 1) : cache[i] = memory[cache_start_point + i]

\* What a hasher has been fed so far is the front of its cursor, byte by byte
\* and in order, with every chunk inside the source (reader.rs,
\* update_cursor_with_error); the other calls read once.
FedFront ==
  \/ call = {}
  \/ \E r \in Request : \E d \in 0..r.cursor.size :
       /\ r.op # "update" => d = 0
       /\ d > 0 => r.cursor.offset + d <= total_size
       /\ call = {Started(r, d)}

IInv == TypeOK /\ CacheCoherent /\ FedFront

\* The cache and the chunks cannot be seen from outside: a read answers what
\* a source without a cache would, whatever was read before.
Uncached == INSTANCE UncachedSource WITH call <- {Asked(k) : k \in call}
ImplementsUncached == Uncached!UncachedSpec

\* A call that was begun returns: no chunk loop runs on (reader.rs).
CallsReturn == call # {} ~> call = {}
=============================================================================
