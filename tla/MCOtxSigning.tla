---------------------------- MODULE MCOtxSigning ----------------------------
EXTENDS OtxSigning, TLC

E == INSTANCE EntityTypes

Rep(b, n) == [i \in 1..n |-> b]
u32(n) == <<n, 0, 0, 0>>
u64(n) == u32(n) \o u32(0)

(***************************************************************************)
(* Scripts and messages by their bytes, which are those of the entities.   *)
(***************************************************************************)
script == u32(54) \o u32(16) \o u32(48) \o u32(49) \o Rep(7, 32) \o <<1>> \o u32(1) \o <<5>>
otherScript == u32(53) \o u32(16) \o u32(48) \o u32(49) \o Rep(8, 32) \o <<1>> \o u32(0)
noActions == u32(12) \o u32(8) \o u32(4)
oneAction ==
  u32(105) \o u32(8) \o u32(97) \o u32(8)
    \o u32(89) \o u32(20) \o u32(52) \o u32(53) \o u32(85)
    \o Rep(7, 32) \o <<2>> \o Rep(7, 32) \o u32(0)

scriptValue == <<Rep(7, 32), 1, <<5>>>>
otherScriptValue == <<Rep(8, 32), 1, <<>>>>
ASSUME BytesAreEncodings ==
  /\ script = E!Encode(E!Script, scriptValue)
  /\ otherScript = E!Encode(E!Script, otherScriptValue)
  /\ noActions = E!Encode(E!Message, <<<<>>>>)
  /\ oneAction = E!Encode(E!Message, <<<<<<Rep(7, 32), 2, Rep(7, 32), <<>>>>>>>>)

\* The bytes of a cell are those of its entity.
ASSUME CellOutputEncodes ==
  /\ CellOutput(<<u64(8), script, <<>>>>)
       = E!Encode(E!CellOutput, <<u64(8), scriptValue, <<>>>>)
  /\ CellOutput(<<u64(9), otherScript, <<script>>>>)
       = E!Encode(E!CellOutput, <<u64(9), otherScriptValue, <<scriptValue>>>>)

output(capacity, lock, type, data) ==
  [cell |-> <<u64(capacity), lock, type>>, data |-> data]
plain == output(8, script, <<>>, <<>>)
typed == output(8, script, <<script>>, <<>>)
\* Its data are the bytes of a type script behind their first four, and a zero.
alike == output(8, script, <<>>, SubSeq(script, 5, Len(script)) \o u32(0))
outputs ==
  {plain, typed, alike, output(9, script, <<>>, <<>>),
   output(8, otherScript, <<>>, <<>>), output(8, script, <<>>, <<1>>)}

outPoint(n) == Rep(n, 32) \o u32(0)
input(since, n) == <<u64(since), outPoint(n)>>
cellDep(n) == outPoint(n) \o <<1>>

\* Out points 1 and 2 name cells that look the same.
MCResolve(point) ==
  IF point = outPoint(3) THEN [output |-> typed.cell, data |-> <<6>>]
  ELSE [output |-> plain.cell, data |-> <<>>]

MCItems ==
  [inputs |-> {input(0, 1), input(4, 1), input(0, 2), input(0, 3)},
   outputs |-> outputs,
   cell_deps |-> {cellDep(1), cellDep(2)},
   header_deps |-> {Rep(1, 32), Rep(2, 32)}]
MCForeign ==
  [inputs |-> input(0, 3), outputs |-> plain, cell_deps |-> cellDep(2),
   header_deps |-> Rep(2, 32)]

MCMessages == {noActions, oneAction}
MCWitnesses == {<<1>>, <<2, 3>>, <<2, 3, 0>>}
MCMaskBytes == {<<>>, <<0>>, <<1>>, <<2>>, <<3>>, <<4>>, <<8>>, <<15>>, <<31>>, <<15, 0>>,
                <<64, 1>>, <<64, 17>>}

items(is, os, cs, hs) ==
  [inputs |-> is, outputs |-> os, cell_deps |-> cs, header_deps |-> hs]
MCSegments ==
  {[flags |-> 1, items |-> items(<<>>, <<plain>>, <<>>, <<>>)],
   [flags |-> 3, items |-> items(<<input(0, 2)>>, <<plain>>, <<>>, <<Rep(1, 32)>>)],
   [flags |-> 1, items |-> items(<<input(0, 3)>>, <<>>, <<cellDep(2)>>, <<>>)]}

masks(i, o, c, h) == [inputs |-> i, outputs |-> o, cell_deps |-> c, header_deps |-> h]
composed(lists, base, m) ==
  [tx |-> [lists |-> lists, message |-> <<>>, witnesses |-> <<<<1>>, <<2, 3>>>>],
   otx |-> [message |-> noActions, append_permissions |-> 15,
            start |-> [d \in Dim |-> 0], base |-> base, masks |-> m, segments |-> <<>>]]
counts(i, o, c, h) == items(i, o, c, h)

\* One item of each list, and an output behind that is not the OTX's.
small(m) ==
  composed(items(<<input(0, 1)>>, <<typed, plain>>, <<cellDep(1)>>, <<Rep(1, 32)>>),
           counts(1, 1, 1, 1), m)
\* Three outputs: their mask goes over a byte.
wide(m) ==
  composed(items(<<input(4, 1), input(0, 2)>>, <<plain, typed, plain>>, <<>>, <<>>),
           counts(2, 3, 0, 0), m)

MCComposed ==
  {small(masks(<<3>>, <<15>>, <<1>>, <<1>>)), small(masks(<<0>>, <<0>>, <<0>>, <<0>>)),
   small(masks(<<2>>, <<6>>, <<0>>, <<1>>)), small(masks(<<1>>, <<9>>, <<1>>, <<0>>)),
   wide(masks(<<9>>, <<64, 1>>, <<>>, <<>>))}
=============================================================================
