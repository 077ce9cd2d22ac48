-------------------------- MODULE LazySourceProofs --------------------------
(***************************************************************************)
(* The cache of the lazy reader is coherent with its source and cannot be  *)
(* seen through the cursors, for every source, cache size, chunk size and  *)
(* set of cursors.                                                         *)
(***************************************************************************)
EXTENDS LazySource, TLAPS

-----------------------------------------------------------------------------
\* All three readers give the same answer to a non-empty read.
LEMMA ReaderReads ==
  ASSUME total_size \in Nat, NEW n \in Nat \ {0}, NEW offset \in Nat
  PROVE  /\ offset >= total_size => ReaderRead(n, offset) = Err("OutOfBound")
         /\ offset < total_size =>
              /\ Smaller(n, total_size - offset) \in 1..n
              /\ offset + Smaller(n, total_size - offset) <= total_size
              /\ ReaderRead(n, offset) =
                   Ok(Window(offset, Smaller(n, total_size - offset)),
                      Smaller(n, total_size - offset))
<1>1. ASSUME offset >= total_size
      PROVE  ReaderRead(n, offset) = Err("OutOfBound")
  BY <1>1 DEF ReaderRead, MemoryRead, SyscallRead
<1>2. ASSUME offset < total_size
      PROVE  /\ Smaller(n, total_size - offset) \in 1..n
             /\ offset + Smaller(n, total_size - offset) <= total_size
             /\ ReaderRead(n, offset) =
                  Ok(Window(offset, Smaller(n, total_size - offset)),
                     Smaller(n, total_size - offset))
  <2> DEFINE available == total_size - offset
             read_len == Smaller(n, available)
  <2>1. available \in Nat \ {0}
    BY <1>2
  <2>2. read_len \in 1..n /\ read_len <= available
    BY <2>1 DEF Smaller
  <2>3. ~(offset >= total_size) /\ n # 0
    BY <1>2
  <2>4. MemoryRead(n, offset) = Ok(Window(offset, read_len), read_len)
    BY <2>3 DEF MemoryRead
  <2>5. /\ Smaller(read_len, available) = read_len
        /\ Smaller(available, read_len) = read_len
    BY <2>1, <2>2 DEF Smaller
  <2>6. /\ Load(read_len, offset).size = available
        /\ Load(read_len, offset).bytes = Window(offset, read_len)
    BY <2>5 DEF Load
  <2>7. ~(Load(read_len, offset).size < read_len)
    BY <2>1, <2>2, <2>6
  <2>8. SyscallRead(n, offset) = Ok(Window(offset, read_len), read_len)
    <3> HIDE DEF read_len, available
    <3>1. SyscallRead(n, offset) =
            Ok(Load(read_len, offset).bytes,
               Smaller(Load(read_len, offset).size, read_len))
      BY <2>3, <2>7 DEF SyscallRead, read_len, available
    <3> QED BY <3>1, <2>5, <2>6
  <2>9. offset + read_len <= total_size
    BY <2>2
  <2> QED BY <2>2, <2>4, <2>8, <2>9 DEF ReaderRead
<1> QED BY <1>1, <1>2

-----------------------------------------------------------------------------
\* What a call in progress looks like, from the third part of the invariant.
LEMMA CallInProgress ==
  ASSUME FedFront, NEW k, call = {k}
  PROVE  /\ Asked(k) \in Request
         /\ k.op \in Op /\ k.cursor \in Cursors
         /\ k.cursor.offset \in Nat /\ k.cursor.size \in Nat
         /\ k.n \in 1..CacheLen /\ CacheLen \in Nat /\ ChunkLen \in 1..CacheLen
         /\ k.done \in 0..k.cursor.size
         /\ k.op # "update" => k.done = 0
         /\ k.done > 0 => k.cursor.offset + k.done <= total_size
         /\ k = Started(Asked(k), k.done)
         /\ k.fed = Window(k.cursor.offset, k.done)
<1>1. PICK r \in Request : \E d \in 0..r.cursor.size :
         /\ r.op # "update" => d = 0
         /\ d > 0 => r.cursor.offset + d <= total_size
         /\ call = {Started(r, d)}
  BY DEF FedFront
<1>2. PICK d \in 0..r.cursor.size :
         /\ r.op # "update" => d = 0
         /\ d > 0 => r.cursor.offset + d <= total_size
         /\ call = {Started(r, d)}
  BY <1>1
<1>3. k = Started(r, d)
  BY <1>2
<1>4. /\ k.op = r.op /\ k.cursor = r.cursor /\ k.n = r.n /\ k.done = d
      /\ k.fed = Window(r.cursor.offset, d)
  BY <1>3 DEF Started
<1>5. Asked(k) = r
  BY <1>4 DEF Asked, Request
<1>6. /\ r.op \in Op /\ r.cursor \in Cursors /\ r.n \in ArrayLens
  BY DEF Request
<1>7. /\ r.cursor.offset \in Nat /\ r.cursor.size \in Nat
      /\ r.n \in 1..CacheLen /\ CacheLen \in Nat /\ ChunkLen \in 1..CacheLen
  BY <1>6, SourceAssumption
<1> QED BY <1>2, <1>3, <1>4, <1>5, <1>6, <1>7

LEMMA PendingRead ==
  ASSUME FedFront, NEW k, Reads(k)
  PROVE  /\ Pending(k).offset = k.cursor.offset + k.done
         /\ Pending(k).offset \in Nat
         /\ Pending(k).read_len \in Nat /\ Pending(k).buf_len \in Nat
         /\ Pending(k).read_len <= Pending(k).buf_len
         /\ Pending(k).read_len > CacheLen => Pending(k).buf_len = Pending(k).read_len
         /\ k.op = "update" =>
              /\ Remaining(k) \in Nat \ {0}
              /\ Pending(k).buf_len = Pending(k).read_len
              /\ Pending(k).read_len \in 1..Remaining(k)
         /\ k.op = "bytes" => Pending(k).read_len = k.cursor.size
                             /\ Pending(k).buf_len = k.cursor.size
         /\ k.op \in {"number", "array"} =>
              /\ Pending(k).buf_len = k.n
              /\ Pending(k).read_len = Smaller(k.cursor.size, k.n)
<1>1. call = {k}
  BY DEF Reads
<1>2. /\ k.op \in Op
      /\ k.cursor.offset \in Nat /\ k.cursor.size \in Nat
      /\ k.n \in 1..CacheLen /\ CacheLen \in Nat /\ ChunkLen \in 1..CacheLen
      /\ k.done \in 0..k.cursor.size
      /\ k.op # "update" => k.done = 0
  BY <1>1, CallInProgress
<1>3. CASE k.op = "update"
  <2>1. Remaining(k) \in Nat \ {0}
    BY <1>2, <1>3 DEF Reads, Remaining
  <2>2. Pending(k) = [offset |-> k.cursor.offset + k.done,
                      buf_len |-> Smaller(ChunkLen, Remaining(k)),
                      read_len |-> Smaller(ChunkLen, Remaining(k))]
    BY <1>3 DEF Pending
  <2>3. Smaller(ChunkLen, Remaining(k)) \in 1..Remaining(k)
        /\ Smaller(ChunkLen, Remaining(k)) <= CacheLen
    BY <2>1, <1>2 DEF Smaller
  <2> QED BY <1>2, <1>3, <2>1, <2>2, <2>3
<1>4. CASE k.op = "bytes"
  <2>1. Pending(k) = [offset |-> k.cursor.offset, buf_len |-> k.cursor.size,
                      read_len |-> k.cursor.size]
    BY <1>4 DEF Pending
  <2> QED BY <1>2, <1>4, <2>1
<1>5. CASE k.op \in {"number", "array"}
  <2>1. Pending(k) = [offset |-> k.cursor.offset, buf_len |-> k.n,
                      read_len |-> Smaller(k.cursor.size, k.n)]
    BY <1>5 DEF Pending
  <2>2. Smaller(k.cursor.size, k.n) \in Nat /\ Smaller(k.cursor.size, k.n) <= k.n
    BY <1>2 DEF Smaller
  <2> QED BY <1>2, <1>5, <2>1, <2>2
<1> QED BY <1>2, <1>3, <1>4, <1>5 DEF Op

-----------------------------------------------------------------------------
\* An outcome that tells nothing of the cache: the bytes of the window when
\* it lies in the source, otherwise an error or too few bytes.
Faithful(k, outcome) ==
  LET want == Pending(k)
  IN  IF want.read_len = 0 \/ want.offset + want.read_len <= total_size
      THEN outcome = Ok(Window(want.offset, want.read_len), want.read_len)
      ELSE \/ outcome.error # "none"
           \/ outcome.len \in Nat /\ outcome.len < want.read_len

LEMMA ReadNothingFaithful ==
  ASSUME IInv, NEW k, ReadNothing(k)
  PROVE  Faithful(k, Ok(NoBytes, 0))
<1>1. Reads(k) /\ Pending(k).read_len = 0
  BY DEF ReadNothing
<1>2. Window(Pending(k).offset, 0) = NoBytes
  BY DEF Window, NoBytes
<1> QED BY <1>1, <1>2 DEF Faithful

LEMMA ReadDirectlyFaithful ==
  ASSUME IInv, NEW k, ReadDirectly(k)
  PROVE  Faithful(k, ReaderRead(Pending(k).buf_len, Pending(k).offset))
<1> DEFINE want == Pending(k)
<1>1. /\ want.offset \in Nat /\ want.read_len \in Nat \ {0}
      /\ want.buf_len = want.read_len
  BY PendingRead, SourceAssumption DEF ReadDirectly, IInv
<1>2. total_size \in Nat
  BY DEF IInv, TypeOK
<1>3. CASE want.offset >= total_size
  <2>1. ReaderRead(want.buf_len, want.offset) = Err("OutOfBound")
    BY <1>1, <1>2, <1>3, ReaderReads
  <2> QED BY <2>1, <1>1, <1>2, <1>3 DEF Faithful, Err
<1>4. CASE want.offset < total_size
  <2> DEFINE got == Smaller(want.read_len, total_size - want.offset)
  <2>1. /\ got \in 1..want.read_len
        /\ ReaderRead(want.buf_len, want.offset) = Ok(Window(want.offset, got), got)
    BY <1>1, <1>2, <1>4, ReaderReads
  <2>2. CASE want.offset + want.read_len <= total_size
    <3>1. got = want.read_len
      BY <1>1, <1>2, <2>2 DEF Smaller
    <3> QED BY <2>1, <2>2, <3>1 DEF Faithful
  <2>3. CASE ~(want.offset + want.read_len <= total_size)
    <3>1. got < want.read_len
      BY <1>1, <1>2, <1>4, <2>3 DEF Smaller
    <3> QED BY <1>1, <2>1, <2>3, <3>1 DEF Faithful, Ok
  <2> QED BY <2>2, <2>3
<1> QED BY <1>1, <1>2, <1>3, <1>4

LEMMA ReadFromCacheFaithful ==
  ASSUME IInv, NEW k, Cached(k), InCache(Pending(k))
  PROVE  Faithful(k, Ok(Slice(Pending(k).offset - cache_start_point, Pending(k).read_len),
                        Pending(k).read_len))
<1> DEFINE want == Pending(k)
           point == want.offset - cache_start_point
<1>1. /\ want.offset \in Nat /\ want.read_len \in Nat \ {0}
  BY PendingRead DEF Cached, IInv
<1>2. /\ total_size \in Nat /\ cache_start_point \in Nat
      /\ cache_actual_size \in Nat
      /\ cache_actual_size > 0 => cache_start_point + cache_actual_size <= total_size
      /\ \A i \in 0..(cache_actual_size - 1) : cache[i] = memory[cache_start_point + i]
  BY SourceAssumption DEF IInv, TypeOK, CacheCoherent
<1>3. /\ want.offset >= cache_start_point
      /\ want.offset + want.read_len <= cache_start_point + cache_actual_size
  BY DEF InCache
<1>4. want.offset + want.read_len <= total_size
  BY <1>1, <1>2, <1>3
<1>5. \A i \in 0..(want.read_len - 1) : cache[point + i] = memory[want.offset + i]
  <2> TAKE i \in 0..(want.read_len - 1)
  <2>1. point + i \in 0..(cache_actual_size - 1)
    BY <1>1, <1>2, <1>3
  <2>2. cache_start_point + (point + i) = want.offset + i
    BY <1>1, <1>2
  <2>3. cache[point + i] = memory[cache_start_point + (point + i)]
    BY <1>2, <2>1
  <2> QED BY <2>2, <2>3
<1>6. Slice(point, want.read_len) = Window(want.offset, want.read_len)
  BY <1>5 DEF Slice, Window
<1> QED BY <1>4, <1>6 DEF Faithful

-----------------------------------------------------------------------------
\* A fill leaves the cache coherent, and answers from its front.
LEMMA FillKeepsCoherent ==
  ASSUME IInv, NEW offset \in Nat, offset < total_size,
         FillCache(ReaderRead(CacheLen, offset), offset), UNCHANGED fixed
  PROVE  /\ cache_start_point' \in Nat
         /\ cache_actual_size' \in 0..CacheLen
         /\ cache' \in [0..(CacheLen - 1) -> Byte]
         /\ CacheCoherent'
<1> DEFINE got == Smaller(CacheLen, total_size - offset)
           pulled == ReaderRead(CacheLen, offset)
<1>1. /\ total_size \in Nat /\ memory \in [0..(total_size - 1) -> Byte]
      /\ cache \in [0..(CacheLen - 1) -> Byte] /\ CacheLen \in Nat \ {0}
      /\ total_size' = total_size /\ memory' = memory
  BY SourceAssumption DEF IInv, TypeOK, fixed
<1>2. /\ got \in 1..CacheLen /\ offset + got <= total_size
      /\ pulled = Ok(Window(offset, got), got)
  BY <1>1, ReaderReads
<1> HIDE DEF got, pulled
<1>3. pulled.len = got /\ pulled.bytes = Window(offset, got)
  BY <1>2 DEF Ok
<1>4. \A i \in 0..(got - 1) : /\ pulled.bytes[i] = memory[offset + i]
                              /\ pulled.bytes[i] \in Byte
  BY <1>1, <1>2, <1>3 DEF Window
<1>5. /\ cache_start_point' = offset
      /\ cache_actual_size' = got
      /\ cache' = [i \in 0..(CacheLen - 1) |->
                    IF i < got THEN pulled.bytes[i] ELSE cache[i]]
  BY <1>3 DEF FillCache, pulled
<1>6. cache' \in [0..(CacheLen - 1) -> Byte]
  <2>1. \A i \in 0..(CacheLen - 1) :
          (IF i < got THEN pulled.bytes[i] ELSE cache[i]) \in Byte
    BY <1>1, <1>2, <1>4
  <2> QED BY <1>5, <2>1
<1>7. \A i \in 0..(got - 1) : cache'[i] = memory'[offset + i]
  BY <1>1, <1>2, <1>4, <1>5
<1>8. cache_start_point' = offset /\ cache_actual_size' = got
  BY <1>5
<1>9. CacheCoherent'
  BY <1>1, <1>2, <1>7, <1>8 DEF CacheCoherent
<1> QED BY <1>1, <1>2, <1>6, <1>8, <1>9

LEMMA MissFaithful ==
  ASSUME IInv, NEW k, MissAndFill(k) \/ MissOutOfBound(k)
  PROVE  LET want == Pending(k)
             pulled == ReaderRead(CacheLen, want.offset)
         IN  /\ want.offset \in Nat
             /\ want.offset < total_size <=> pulled.error = "none"
             /\ want.offset >= total_size => Faithful(k, pulled)
             /\ want.offset < total_size =>
                  Faithful(k, IF pulled.len < want.read_len THEN Err("Read")
                              ELSE Ok([i \in 0..(want.read_len - 1) |-> pulled.bytes[i]],
                                      want.read_len))
<1> DEFINE want == Pending(k)
           pulled == ReaderRead(CacheLen, want.offset)
           got == Smaller(CacheLen, total_size - want.offset)
<1>1. /\ want.offset \in Nat /\ want.read_len \in 1..CacheLen
      /\ CacheLen \in Nat \ {0} /\ total_size \in Nat
  BY PendingRead, SourceAssumption DEF MissAndFill, MissOutOfBound, Cached, IInv, TypeOK
<1>2. CASE want.offset >= total_size
  <2>1. pulled = Err("OutOfBound")
    BY <1>1, <1>2, ReaderReads
  <2>2. pulled.error # "none"
    BY <2>1 DEF Err
  <2>3. ~(want.read_len = 0 \/ want.offset + want.read_len <= total_size)
    BY <1>1, <1>2
  <2>4. Faithful(k, pulled)
    BY <2>2, <2>3 DEF Faithful
  <2> QED BY <1>1, <1>2, <2>2, <2>4
<1>3. CASE want.offset < total_size
  <2>1. /\ got \in 1..CacheLen
        /\ pulled = Ok(Window(want.offset, got), got)
    BY <1>1, <1>3, ReaderReads
  <2>2. pulled.error = "none" /\ pulled.len = got /\ pulled.bytes = Window(want.offset, got)
    BY <2>1 DEF Ok
  <2>3. CASE want.offset + want.read_len <= total_size
    <3>1. got >= want.read_len
      BY <1>1, <2>3 DEF Smaller
    <3>2. [i \in 0..(want.read_len - 1) |-> pulled.bytes[i]]
            = Window(want.offset, want.read_len)
      <4>1. \A i \in 0..(want.read_len - 1) : pulled.bytes[i] = memory[want.offset + i]
        BY <1>1, <2>1, <2>2, <3>1 DEF Window
      <4> HIDE DEF pulled
      <4> QED BY <4>1 DEF Window
    <3>3. ~(pulled.len < want.read_len)
      BY <1>1, <2>1, <2>2, <3>1
    <3> QED BY <1>1, <1>3, <2>2, <2>3, <3>2, <3>3 DEF Faithful
  <2>4. CASE ~(want.offset + want.read_len <= total_size)
    <3>1. got < want.read_len
      BY <1>1, <1>3, <2>4 DEF Smaller
    <3>2. pulled.len < want.read_len
      BY <2>2, <3>1
    <3>3. Faithful(k, Err("Read"))
      BY <1>1, <2>4 DEF Faithful, Err
    <3> QED BY <1>1, <1>3, <2>2, <3>2, <3>3
  <2> QED BY <2>3, <2>4
<1> QED BY <1>1, <1>2, <1>3

-----------------------------------------------------------------------------
\* What a call does with a faithful outcome is a step of the source without
\* a cache, or none of its business.
LEMMA ContinueImplements ==
  ASSUME IInv, NEW k, Reads(k), NEW outcome, Faithful(k, outcome),
         Continue(k, outcome), UNCHANGED fixed
  PROVE  /\ FedFront'
         /\ \A r \in reply' : r.request \in Request /\ r.ok \in BOOLEAN
         /\ Uncached!Next \/ UNCHANGED Uncached!uncachedVars
<1> DEFINE want == Pending(k)
           window == Window(k.cursor.offset, k.done + want.read_len)
<1>1. /\ call = {k} /\ Asked(k) \in Request /\ k.op \in Op
      /\ k.cursor.offset \in Nat /\ k.cursor.size \in Nat
      /\ k.n \in 1..CacheLen /\ CacheLen \in Nat
      /\ k.done \in 0..k.cursor.size
      /\ k.op # "update" => k.done = 0
      /\ k.done > 0 => k.cursor.offset + k.done <= total_size
      /\ k = Started(Asked(k), k.done)
      /\ k.fed = Window(k.cursor.offset, k.done)
  BY CallInProgress DEF Reads, IInv
<1>2. /\ want.offset = k.cursor.offset + k.done
      /\ want.offset \in Nat /\ want.read_len \in Nat /\ want.buf_len \in Nat
      /\ want.read_len <= want.buf_len
      /\ k.op = "update" =>
           /\ Remaining(k) \in Nat \ {0} /\ want.buf_len = want.read_len
           /\ want.read_len \in 1..Remaining(k)
      /\ k.op = "bytes" => want.read_len = k.cursor.size /\ want.buf_len = k.cursor.size
      /\ k.op \in {"number", "array"} =>
           want.buf_len = k.n /\ want.read_len = Smaller(k.cursor.size, k.n)
  BY PendingRead DEF IInv
<1>3. total_size \in Nat /\ total_size' = total_size /\ memory' = memory
      /\ kind' = kind
  BY DEF IInv, TypeOK, fixed
<1> DEFINE inside == want.read_len = 0 \/ want.offset + want.read_len <= total_size
<1>4. inside => outcome = Ok(Window(want.offset, want.read_len), want.read_len)
  BY DEF Faithful
<1>5. ~inside => outcome.error # "none"
                 \/ (outcome.len \in Nat /\ outcome.len < want.read_len)
  BY DEF Faithful
<1>6. ~inside => ~Accepted(k, outcome)
  BY <1>2, <1>5 DEF Accepted
<1>7. inside => Feed(k, outcome) = window
  <2> SUFFICES ASSUME inside PROVE Feed(k, outcome) = window
    OBVIOUS
  <2>1. outcome.len = want.read_len /\ outcome.bytes = Window(want.offset, want.read_len)
    BY <1>4 DEF Ok
  <2>2. \A i \in 0..(k.done + want.read_len - 1) :
          (IF i < k.done THEN k.fed[i] ELSE outcome.bytes[i - k.done])
            = memory[k.cursor.offset + i]
    <3> TAKE i \in 0..(k.done + want.read_len - 1)
    <3>1. CASE i < k.done
      BY <1>1, <1>2, <3>1 DEF Window
    <3>2. CASE ~(i < k.done)
      <4>1. /\ i - k.done \in 0..(want.read_len - 1)
            /\ want.offset + (i - k.done) = k.cursor.offset + i
        BY <1>1, <1>2, <3>2
      <4>2. outcome.bytes[i - k.done] = memory[want.offset + (i - k.done)]
        BY <2>1, <4>1 DEF Window
      <4> QED BY <3>2, <4>1, <4>2
    <3> QED BY <3>1, <3>2
  <2>3. Feed(k, outcome) =
          [i \in 0..(k.done + want.read_len - 1) |->
             IF i < k.done THEN k.fed[i] ELSE outcome.bytes[i - k.done]]
    BY <2>1 DEF Feed
  <2>4. [i \in 0..(k.done + want.read_len - 1) |->
           IF i < k.done THEN k.fed[i] ELSE outcome.bytes[i - k.done]]
          = [i \in 0..(k.done + want.read_len - 1) |-> memory[k.cursor.offset + i]]
    BY <2>2
  <2>5. window = [i \in 0..(k.done + want.read_len - 1) |-> memory[k.cursor.offset + i]]
    BY <1>1, <1>2 DEF Window
  <2> QED BY <2>3, <2>4, <2>5
<1> DEFINE goes_on == k.op = "update" /\ Accepted(k, outcome) /\ outcome.len < Remaining(k)
           a == Asked(k)
<1>8. /\ a.op = k.op /\ a.cursor = k.cursor /\ a.n = k.n
      /\ {Asked(c) : c \in call} = {a}
  BY <1>1 DEF Asked
<1>9. CASE goes_on
  <2>1. inside
    BY <1>6, <1>9
  <2> DEFINE next == [op |-> k.op, cursor |-> k.cursor, n |-> k.n,
                      done |-> k.done + outcome.len, fed |-> Feed(k, outcome)]
  <2>2. /\ call' = {next}
        /\ reply' = reply
    BY <1>9 DEF Continue
  <2>3. outcome.len = want.read_len
    BY <1>4, <2>1 DEF Ok
  <2> DEFINE d == k.done + want.read_len
  <2>4. next.op = a.op /\ next.cursor = a.cursor /\ next.n = a.n
    BY <1>1, <1>8 DEF Started
  <2>5. next = Started(a, d)
    <3>1. k.done + outcome.len = d /\ Feed(k, outcome) = window
      BY <1>7, <2>1, <2>3
    <3>2. next = [op |-> a.op, cursor |-> a.cursor, n |-> a.n,
                  done |-> d, fed |-> window]
      BY <3>1, <1>8
    <3> QED BY <3>2, <1>8 DEF Started
  <2>6. /\ d \in 0..k.cursor.size
        /\ k.cursor.offset + d <= total_size
    BY <1>1, <1>2, <1>9, <2>1 DEF Remaining
  <2>7. Started(a, d)' = Started(a, d)
    BY <1>3 DEF Started, Window
  <2>8. FedFront'
    <3>1. a \in Request /\ d \in 0..a.cursor.size /\ a.op = "update"
      BY <1>1, <1>8, <1>9, <2>6
    <3>2. call' = {[op |-> a.op, cursor |-> a.cursor, n |-> a.n, done |-> d,
                    fed |-> [i \in 0..(d - 1) |-> memory'[a.cursor.offset + i]]]}
      <4> HIDE DEF d, a, want, next
      <4> QED BY <2>2, <2>5, <1>3 DEF next, Started, Window
    <3>3. total_size' = total_size /\ a.cursor.offset + d <= total_size
      BY <1>3, <1>8, <2>6
    <3> HIDE DEF d, a, want
    <3> QED BY <3>1, <3>2, <3>3 DEF FedFront, Started, Window
  <2>9. {Asked(c) : c \in call'} = {a}
    <3>1. Asked(next) = a
      BY <2>4, <1>8 DEF Asked
    <3> HIDE DEF next
    <3> QED BY <2>2, <3>1 DEF next
  <2>10. UNCHANGED Uncached!uncachedVars
    BY <1>3, <1>8, <2>2, <2>9 DEF Uncached!uncachedVars
  <2> QED BY <2>2, <2>8, <2>10 DEF IInv, TypeOK
<1>10. CASE ~goes_on
  <2>1. /\ call' = {}
        /\ reply' = {[request |-> a, ok |-> Accepted(k, outcome),
                      bytes |-> IF Accepted(k, outcome) THEN Feed(k, outcome)
                                ELSE NoBytes]}
    BY <1>10 DEF Continue, Replied
  <2> DEFINE wanted == Uncached!Wanted(a)
             served_a == Uncached!Served(a)
  <2>2. wanted = IF k.op = "number" THEN k.n ELSE k.cursor.size
    BY <1>8 DEF Uncached!Wanted
  <2>3. served_a <=>
          /\ wanted = 0 \/ k.cursor.offset + wanted <= total_size
          /\ k.op = "number" => k.n <= k.cursor.size
          /\ k.op = "array" => k.n = k.cursor.size
    BY <1>8 DEF Uncached!Served, Uncached!Inside
  <2>4. /\ Accepted(k, outcome) <=> served_a
        /\ served_a => inside /\ k.done + want.read_len = wanted
    <3>1. CASE inside
      <4>1. outcome.error = "none" /\ outcome.len = want.read_len
        BY <1>4, <3>1 DEF Ok
      <4>2. Accepted(k, outcome) <=>
              /\ want.read_len = want.buf_len
              /\ k.op = "array" => want.read_len = k.cursor.size
        BY <4>1 DEF Accepted
      <4>3. CASE k.op = "update"
        <5>1. Accepted(k, outcome)
          BY <4>2, <4>3, <1>2
        <5>2. k.done + want.read_len = k.cursor.size
          <6>1. ~(want.read_len < Remaining(k))
            BY <1>10, <4>1, <4>3, <5>1
          <6> QED BY <6>1, <4>3, <1>1, <1>2 DEF Remaining
        <5>3. k.cursor.offset + k.cursor.size <= total_size
          BY <5>2, <3>1, <1>1, <1>2, <1>3, <4>3
        <5> QED BY <5>1, <5>2, <5>3, <2>2, <2>3, <4>3, <3>1
      <4>4. CASE k.op = "bytes"
        BY <4>2, <4>4, <1>1, <1>2, <2>2, <2>3, <3>1
      <4>5. CASE k.op = "number"
        BY <4>2, <4>5, <1>1, <1>2, <2>2, <2>3, <3>1 DEF Smaller
      <4>6. CASE k.op = "array"
        BY <4>2, <4>6, <1>1, <1>2, <2>2, <2>3, <3>1 DEF Smaller
      <4> QED BY <4>3, <4>4, <4>5, <4>6, <1>1 DEF Op
    <3>2. CASE ~inside
      <4>1. ~Accepted(k, outcome)
        BY <3>2, <1>6
      <4>2. want.read_len > 0 /\ want.offset + want.read_len > total_size
        BY <3>2, <1>2, <1>3
      <4>3. ~served_a
        <5> HIDE DEF want, wanted, served_a
        <5>1. CASE k.op = "update"
          <6>1. wanted = k.cursor.size
            BY <5>1, <2>2
          <6>2. k.cursor.offset + k.cursor.size > total_size /\ k.cursor.size > 0
            BY <4>2, <5>1, <1>1, <1>2, <1>3 DEF Remaining
          <6> QED BY <6>1, <6>2, <1>1, <1>3, <2>3
        <5>2. CASE k.op = "bytes"
          BY <4>2, <5>2, <1>1, <1>2, <1>3, <2>2, <2>3
        <5>3. CASE k.op \in {"number", "array"}
          <6>1. k.cursor.offset + Smaller(k.cursor.size, k.n) > total_size
            BY <4>2, <5>3, <1>1, <1>2
          <6>2. k.n <= k.cursor.size => Smaller(k.cursor.size, k.n) = k.n
            BY <1>1 DEF Smaller
          <6>3. k.n \in Nat \ {0}
            BY <1>1
          <6> QED BY <5>3, <6>1, <6>2, <6>3, <1>1, <1>3, <2>2, <2>3
        <5> QED BY <5>1, <5>2, <5>3, <1>1 DEF Op
      <4> QED BY <4>1, <4>3
    <3> QED BY <3>1, <3>2
  <2>5. Uncached!Answer(a) =
          [request |-> a, ok |-> served_a,
           bytes |-> IF served_a THEN Window(k.cursor.offset, wanted) ELSE NoBytes]
    BY <1>8 DEF Uncached!Answer, Uncached!Window, Window, Uncached!NoBytes, NoBytes
  <2>6. reply' = {Uncached!Answer(a)}
    <3>1. CASE served_a
      <4>1. Feed(k, outcome) = Window(k.cursor.offset, wanted)
        BY <3>1, <2>4, <1>7
      <4>2. Accepted(k, outcome) = served_a
        BY <2>4 DEF Uncached!Served, Accepted
      <4> HIDE DEF a, served_a, wanted
      <4> QED BY <3>1, <4>1, <4>2, <2>1, <2>4, <2>5
    <3>2. CASE ~served_a
      <4>1. Accepted(k, outcome) = served_a
        BY <2>4 DEF Uncached!Served, Accepted
      <4> HIDE DEF a, served_a, wanted
      <4> QED BY <3>2, <4>1, <2>1, <2>4, <2>5
    <3> QED BY <3>1, <3>2
  <2>7. FedFront'
    BY <2>1 DEF FedFront
  <2>8. {Asked(c) : c \in call'} = {}
    BY <2>1
  <2>9. Uncached!Return(a)
    BY <1>3, <1>8, <2>1, <2>6, <2>8 DEF Uncached!Return
  <2>10. a \in Uncached!Request
    BY <1>1 DEF Uncached!Request, Uncached!Op, Request, Op
  <2>11. Uncached!Next
    BY <2>9, <2>10 DEF Uncached!Next
  <2>12. \A r \in reply' : r.request \in Request /\ r.ok \in BOOLEAN
    <3>1. Accepted(k, outcome) \in BOOLEAN
      BY DEF Accepted
    <3> QED BY <3>1, <2>1, <1>1
  <2> QED BY <2>7, <2>11, <2>12
<1> QED BY <1>9, <1>10

-----------------------------------------------------------------------------
\* Every way out of read_at ends in a delivery of a faithful outcome.
LEMMA ReadDelivers ==
  ASSUME IInv, NEW k, Read(k), ~FeedNothing(k)
  PROVE  /\ Reads(k)
         /\ \E outcome : Faithful(k, outcome) /\ Delivered(k, outcome)
         /\ UNCHANGED fixed
<1>1. CASE ReadNothing(k)
  <2>1. Delivered(k, Ok(NoBytes, 0)) /\ Reads(k)
    BY <1>1 DEF ReadNothing
  <2> QED BY <1>1, <2>1, ReadNothingFaithful DEF Delivered
<1>2. CASE ReadDirectly(k)
  <2>1. Delivered(k, ReaderRead(Pending(k).buf_len, Pending(k).offset)) /\ Reads(k)
    BY <1>2 DEF ReadDirectly
  <2> QED BY <1>2, <2>1, ReadDirectlyFaithful DEF Delivered
<1>3. CASE ReadFromCache(k)
  <2>1. /\ Cached(k) /\ InCache(Pending(k))
        /\ Delivered(k, Ok(Slice(Pending(k).offset - cache_start_point,
                                 Pending(k).read_len), Pending(k).read_len))
    BY <1>3 DEF ReadFromCache
  <2> QED BY <2>1, ReadFromCacheFaithful DEF Delivered, Cached
<1>4. CASE MissAndFill(k)
  <2> DEFINE want == Pending(k)
             pulled == ReaderRead(CacheLen, want.offset)
             outcome == IF pulled.len < want.read_len THEN Err("Read")
                        ELSE Ok([i \in 0..(want.read_len - 1) |-> pulled.bytes[i]],
                                want.read_len)
  <2>1. pulled.error = "none" /\ Delivered(k, outcome) /\ Reads(k)
    BY <1>4 DEF MissAndFill, Cached
  <2>2. Faithful(k, outcome)
    BY <1>4, <2>1, MissFaithful
  <2> HIDE DEF outcome
  <2> QED BY <2>1, <2>2 DEF Delivered
<1>5. CASE MissOutOfBound(k)
  <2> DEFINE pulled == ReaderRead(CacheLen, Pending(k).offset)
  <2>1. pulled.error # "none" /\ Delivered(k, pulled) /\ Reads(k)
    BY <1>5 DEF MissOutOfBound, Cached
  <2>2. total_size \in Nat
    BY DEF IInv, TypeOK
  <2>3. Faithful(k, pulled)
    <3>1. Pending(k).offset \in Nat /\ ~(Pending(k).offset < total_size)
      BY <1>5, <2>1, MissFaithful
    <3>2. Pending(k).offset >= total_size
      BY <2>2, <3>1
    <3> QED BY <1>5, <3>2, MissFaithful
  <2> HIDE DEF pulled
  <2> QED BY <2>1, <2>3 DEF Delivered
<1> QED BY <1>1, <1>2, <1>3, <1>4, <1>5 DEF Read

\* Only a fill touches the cache.
LEMMA ReadKeepsCoherent ==
  ASSUME IInv, NEW k, Read(k)
  PROVE  /\ cache_start_point' \in Nat
         /\ cache_actual_size' \in 0..CacheLen
         /\ cache' \in [0..(CacheLen - 1) -> Byte]
         /\ CacheCoherent'
<1>1. CASE UNCHANGED <<fixed, dataSource>>
  <2>1. CacheCoherent' <=> CacheCoherent
    BY <1>1 DEF CacheCoherent, fixed, dataSource
  <2> QED BY <1>1, <2>1 DEF IInv, TypeOK, fixed, dataSource
<1>2. CASE MissAndFill(k)
  <2> DEFINE want == Pending(k)
  <2>1. /\ ReaderRead(CacheLen, want.offset).error = "none"
        /\ FillCache(ReaderRead(CacheLen, want.offset), want.offset)
        /\ UNCHANGED fixed
    BY <1>2 DEF MissAndFill, Delivered
  <2>2. want.offset \in Nat /\ want.offset < total_size
    BY <1>2, <2>1, MissFaithful
  <2> HIDE DEF want
  <2> QED BY <2>1, <2>2, FillKeepsCoherent
<1>3. Read(k) => MissAndFill(k) \/ UNCHANGED <<fixed, dataSource>>
  BY DEF Read, FeedNothing, ReadNothing, ReadDirectly, ReadFromCache,
         MissOutOfBound, Delivered
<1> QED BY <1>1, <1>2, <1>3

\* The empty feed answers like the source without a cache.
LEMMA FeedNothingImplements ==
  ASSUME IInv, NEW k, FeedNothing(k)
  PROVE  /\ FedFront'
         /\ \A r \in reply' : r.request \in Request /\ r.ok \in BOOLEAN
         /\ Uncached!Next
<1> DEFINE a == Asked(k)
<1>1. /\ call = {k} /\ k.op = "update" /\ Remaining(k) = 0
      /\ call' = {} /\ reply' = {[request |-> a, ok |-> TRUE, bytes |-> k.fed]}
      /\ UNCHANGED fixed
  BY DEF FeedNothing, Replied
<1>2. /\ a \in Request /\ k.done \in 0..k.cursor.size /\ k.cursor.size \in Nat
      /\ k.cursor.offset \in Nat
      /\ k.done > 0 => k.cursor.offset + k.done <= total_size
      /\ k.fed = Window(k.cursor.offset, k.done)
  BY <1>1, CallInProgress DEF IInv
<1>3. k.done = k.cursor.size
  BY <1>1, <1>2 DEF Remaining
<1>4. a.op = k.op /\ a.cursor = k.cursor /\ a.n = k.n
  BY DEF Asked
<1>5. Uncached!Served(a) /\ Uncached!Wanted(a) = k.cursor.size
  BY <1>1, <1>2, <1>3, <1>4 DEF Uncached!Served, Uncached!Wanted, Uncached!Inside
<1>6. Uncached!Answer(a) = [request |-> a, ok |-> TRUE, bytes |-> k.fed]
  <2>1. Uncached!Served(a) = TRUE
    BY <1>5 DEF Uncached!Served
  <2>2. Uncached!Window(a.cursor.offset, Uncached!Wanted(a)) = k.fed
    BY <1>2, <1>3, <1>4, <1>5 DEF Uncached!Window, Window
  <2> HIDE DEF a
  <2> QED BY <2>1, <2>2 DEF Uncached!Answer
<1>7. /\ {Asked(c) : c \in call} = {a}
      /\ {Asked(c) : c \in call'} = {}
  BY <1>1
<1>8. Uncached!Return(a)
  BY <1>1, <1>6, <1>7 DEF Uncached!Return, fixed
<1>9. a \in Uncached!Request
  BY <1>2 DEF Uncached!Request, Uncached!Op, Request, Op
<1>10. Uncached!Next
  BY <1>8, <1>9 DEF Uncached!Next
<1>11. FedFront'
  BY <1>1 DEF FedFront
<1>12. \A r \in reply' : r.request \in Request /\ r.ok \in BOOLEAN
  <2>1. reply' = {[request |-> a, ok |-> TRUE, bytes |-> k.fed]}
    BY <1>1
  <2>2. a \in Request
    BY <1>2
  <2> SUFFICES ASSUME NEW r \in reply' PROVE r.request \in Request /\ r.ok \in BOOLEAN
    OBVIOUS
  <2> HIDE DEF a
  <2>3. r = [request |-> a, ok |-> TRUE, bytes |-> k.fed]
    BY <2>1
  <2>4. r.request = a /\ r.ok = TRUE
    BY <2>3, Zenon
  <2> QED BY <2>2, <2>4
<1> QED BY <1>10, <1>11, <1>12

-----------------------------------------------------------------------------
LEMMA InitOK ==
  ASSUME Init
  PROVE  IInv /\ Uncached!Init
<1>1. TypeOK
  BY SourceAssumption DEF Init, TypeOK
<1>2. CacheCoherent
  BY DEF Init, CacheCoherent
<1>3. FedFront
  BY DEF Init, FedFront
<1>4. Uncached!Init
  <2>1. total_size \in Nat /\ memory \in [0..(total_size - 1) -> Nat]
    BY SourceAssumption DEF Init
  <2>2. {Asked(k) : k \in call} = {} /\ reply = {}
    BY DEF Init
  <2> QED BY <2>1, <2>2 DEF Uncached!Init
<1> QED BY <1>1, <1>2, <1>3, <1>4 DEF IInv

LEMMA AskOK ==
  ASSUME IInv, NEW r \in Request, Ask(r)
  PROVE  IInv' /\ Uncached!Next
<1>1. /\ call = {} /\ call' = {Started(r, 0)} /\ reply' = {}
      /\ UNCHANGED <<fixed, dataSource>>
  BY DEF Ask
<1>2. TypeOK'
  BY <1>1 DEF IInv, TypeOK, fixed, dataSource
<1>3. CacheCoherent'
  BY <1>1 DEF IInv, CacheCoherent, fixed, dataSource
<1>4. r.cursor.size \in Nat /\ r.cursor.offset \in Nat
  BY SourceAssumption DEF Request
<1>5. Started(r, 0)' = Started(r, 0)
  BY <1>1 DEF Started, Window, fixed
<1>6. FedFront'
  <2>1. 0 \in 0..r.cursor.size
    BY <1>4
  <2>2. call' = {[op |-> r.op, cursor |-> r.cursor, n |-> r.n, done |-> 0,
                  fed |-> [i \in 0..(0 - 1) |-> memory'[r.cursor.offset + i]]]}
    BY <1>1 DEF Started, Window, fixed
  <2>3. call' = {Started(r, 0)'}
    BY <2>2 DEF Started, Window
  <2>4. \E d \in 0..r.cursor.size :
          /\ r.op # "update" => d = 0
          /\ d > 0 => r.cursor.offset + d <= total_size'
          /\ call' = {Started(r, d)'}
    BY <2>1, <2>3
  <2> QED BY <2>4 DEF FedFront
<1>7. Asked(Started(r, 0)) = r
  BY DEF Asked, Started, Request
<1>8. /\ {Asked(c) : c \in call} = {}
      /\ {Asked(c) : c \in call'} = {r}
  BY <1>1, <1>7
<1>9. Uncached!Ask(r) /\ r \in Uncached!Request
  BY <1>1, <1>8 DEF Uncached!Ask, Uncached!Request, Uncached!Op, Request, Op, fixed
<1> QED BY <1>2, <1>3, <1>6, <1>9 DEF IInv, Uncached!Next

LEMMA ReadOK ==
  ASSUME IInv, NEW k, Read(k)
  PROVE  IInv' /\ (Uncached!Next \/ UNCHANGED Uncached!uncachedVars)
<1>1. /\ cache_start_point' \in Nat
      /\ cache_actual_size' \in 0..CacheLen
      /\ cache' \in [0..(CacheLen - 1) -> Byte]
      /\ CacheCoherent'
  BY ReadKeepsCoherent
<1>2. /\ FedFront'
      /\ \A r \in reply' : r.request \in Request /\ r.ok \in BOOLEAN
      /\ Uncached!Next \/ UNCHANGED Uncached!uncachedVars
      /\ UNCHANGED fixed
  <2>1. CASE FeedNothing(k)
    <3>1. UNCHANGED fixed
      BY <2>1 DEF FeedNothing
    <3> QED BY <2>1, <3>1, FeedNothingImplements
  <2>2. CASE ~FeedNothing(k)
    <3>1. PICK outcome : Faithful(k, outcome) /\ Delivered(k, outcome)
      BY <2>2, ReadDelivers
    <3>2. Reads(k) /\ UNCHANGED fixed
      BY <2>2, ReadDelivers
    <3>3. Continue(k, outcome)
      BY <3>1 DEF Delivered
    <3> QED BY <3>1, <3>2, <3>3, ContinueImplements
  <2> QED BY <2>1, <2>2
<1>3. TypeOK'
  BY <1>1, <1>2 DEF IInv, TypeOK, fixed
<1> QED BY <1>1, <1>2, <1>3 DEF IInv

\* One step keeps the invariant and is a step of the source without a cache.
LEMMA StepOK ==
  ASSUME IInv, [Next]_vars
  PROVE  IInv' /\ [Uncached!Next]_(Uncached!uncachedVars)
<1>1. CASE UNCHANGED vars
  <2>1. TypeOK' /\ CacheCoherent' /\ FedFront'
    BY <1>1 DEF IInv, TypeOK, CacheCoherent, FedFront, Started, Window, vars
  <2>2. UNCHANGED Uncached!uncachedVars
    BY <1>1 DEF Uncached!uncachedVars, vars
  <2> QED BY <2>1, <2>2 DEF IInv
<1>2. CASE Next
  BY <1>2, AskOK, ReadOK DEF Next, AnyRead
<1> QED BY <1>1, <1>2

\* Whatever cursors are read in whatever order, the cache holds what the
\* source holds, and a hasher has been fed the front of its cursor.
THEOREM CacheInvariant == Spec => []IInv
<1>1. Init => IInv
  BY InitOK
<1>2. IInv /\ [Next]_vars => IInv'
  BY StepOK
<1> QED BY <1>1, <1>2, PTL DEF Spec

\* The same for its three parts, which the runs check by name.
THEOREM SourceTypeCorrect == Spec => []TypeOK
<1>1. IInv => TypeOK
  BY DEF IInv
<1> QED BY <1>1, CacheInvariant, PTL

THEOREM CacheIsCoherent == Spec => []CacheCoherent
<1>1. IInv => CacheCoherent
  BY DEF IInv
<1> QED BY <1>1, CacheInvariant, PTL

THEOREM HasherIsFedInOrder == Spec => []FedFront
<1>1. IInv => FedFront
  BY DEF IInv
<1> QED BY <1>1, CacheInvariant, PTL

\* Reading through the cache is reading without one.
THEOREM CacheIsTransparent == Spec => ImplementsUncached
<1>1. Init => Uncached!Init
  BY InitOK
<1>2. IInv /\ [Next]_vars => [Uncached!Next]_(Uncached!uncachedVars)
  BY StepOK
<1> QED BY <1>1, <1>2, CacheInvariant, PTL
        DEF Spec, ImplementsUncached, Uncached!UncachedSpec
=============================================================================
