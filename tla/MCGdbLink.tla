----------------------------- MODULE MCGdbLink -----------------------------
(***************************************************************************)
(* Sessions for GdbLink, on bytes of seven bits and a memory of four: an   *)
(* effect and the call that shows it. Reads and writes inside the memory,  *)
(* across its end and past it, with bytes that frame packets; registers    *)
(* with each byte of a word, the pc with its bit 1, a number with a letter;*)
(* stops with and without a step; a request without a handler.             *)
(***************************************************************************)
EXTENDS GdbLink

Operation(kind, addr, size, data) ==
  [kind |-> kind, addr |-> addr, size |-> size, data |-> data]

Read(addr) == Operation("m", addr, 2, <<>>)
Write(addr, data) == Operation("X", addr, Len(data), data)
WriteAll(values) == Operation("G", 0, 0, values)
WriteOne(n, value) == Operation("P", n, 0, value)
ReadOne(n) == Operation("p", n, 0, <<>>)
Plain(kind) == Operation(kind, 0, 0, <<>>)

MCValues == [n \in 0 .. 16 |-> IF n = 15 THEN 6 ELSE 128 * n + 1]

MCSessions ==
  {<<Write(1, <<36, 125>>), Read(1)>>, <<Write(3, <<125, 1>>), Read(3)>>,
   <<Write(4, <<>>), Plain("s")>>, <<Plain("s"), Plain("?")>>, <<Plain("?"), Plain("c")>>,
   <<Plain("s"), Plain("s")>>, <<WriteAll(MCValues), Plain("g")>>,
   <<WriteOne(15, 6), Plain("g")>>, <<WriteOne(0, 2000001), ReadOne(10)>>,
   <<WriteOne(10, 5), ReadOne(0)>>, <<Plain("z"), Write(0, <<4>>)>>}
=============================================================================
