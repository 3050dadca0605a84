------------------------------- MODULE Memory -------------------------------
(***************************************************************************)
(* memory.c as a component: the contents, the endianness fixed by          *)
(* memory_create, and the six accesses its users call.                     *)
(***************************************************************************)
EXTENDS MemoryOps

CONSTANTS Address,     \* the addresses its users pass, some past the end
          StoredHalf,  \* the half words they store
          StoredWord   \* the words they store

ASSUME AccessAssumption == /\ Address \subseteq Nat
                           /\ StoredHalf \subseteq Half
                           /\ StoredWord \subseteq Word

VARIABLES data,  \* mem->data
          be,    \* mem->be
          last   \* the last access: its operation, address, value and result
vars == <<data, be, last>>

Success == 0
Failure == -1

Width == [read_byte |-> 1, read_half |-> 2, read_word |-> 4,
          write_byte |-> 1, write_half |-> 2, write_word |-> 4]
Writes == {"write_byte", "write_half", "write_word"}

Access(op, a, v, ret) == [op |-> op, addr |-> a, value |-> v, ret |-> ret]

TypeOK == /\ data \in Contents
          /\ be \in BOOLEAN
          /\ last \in [op : DOMAIN Width, addr : Nat, value : Int,
                       ret : {Success, Failure}]

\* malloc leaves the bytes as they are: any contents.
Init == /\ data \in Contents
        /\ be \in BOOLEAN
        /\ last = Access("read_byte", 0, data[0], Success)

\* A read leaves the memory alone; one that fails leaves *value alone too.
Read(op, a, v) ==
  /\ last' = IF InMemory(a) THEN Access(op, a, v, Success)
                            ELSE Access(op, a, last.value, Failure)
  /\ UNCHANGED <<data, be>>

MemReadByte(a) == Read("read_byte", a, IF InMemory(a) THEN data[a] ELSE 0)
MemReadHalf(a) == Read("read_half", a, ReadHalf(data, be))
MemReadWord(a) == Read("read_word", a, ReadWord(data, be, a))

Write(op, a, v, written) ==
  /\ data' = IF InMemory(a) THEN written ELSE data
  /\ last' = Access(op, a, v, IF InMemory(a) THEN Success ELSE Failure)
  /\ UNCHANGED be

MemWriteByte(a, v) == Write("write_byte", a, v, WriteByte(data, a, v))
MemWriteHalf(a, v) == Write("write_half", a, v, WriteHalf(data, be, a, v))
MemWriteWord(a, v) == Write("write_word", a, v, WriteWord(data, be, a, v))

Next == \E a \in Address :
          \/ MemReadByte(a)
          \/ MemReadHalf(a)
          \/ MemReadWord(a)
          \/ \E v \in Byte : MemWriteByte(a, v)
          \/ \E v \in StoredHalf : MemWriteHalf(a, v)
          \/ \E v \in StoredWord : MemWriteWord(a, v)

Spec == Init /\ [][Next]_vars

-----------------------------------------------------------------------------
\* An access only ever changes bytes it was asked to write: a successful
\* write of n bytes at a leaves everything outside a .. a+n-1 as it was, and
\* a read, or a call that returns -1, changes no byte at all.
AccessFrame ==
  [][\A i \in Position :
       data'[i] # data[i] =>
         /\ last'.op \in Writes /\ last'.ret = Success
         /\ last'.addr <= i /\ i < last'.addr + Width[last'.op]]_vars

\* The bytes from a on, as the value a read of the operation should give: in
\* the order the memory was created with, most significant first when big endian.
Assembled(op, a) ==
  IF op = "read_half"
  THEN IF be THEN data[a] * Base + data[a + 1] ELSE data[a + 1] * Base + data[a]
  ELSE IF be
       THEN ((data[a] * Base + data[a + 1]) * Base + data[a + 2]) * Base + data[a + 3]
       ELSE ((data[a + 3] * Base + data[a + 2]) * Base + data[a + 1]) * Base + data[a]

\* A word or a half read at 0 is made of bytes 0, 1, ... in the declared order.
AssemblesInOrder ==
  (last.op \in {"read_half", "read_word"} /\ last.addr = 0) =>
    last.value = Assembled(last.op, 0)

\* The write loops add the place of a byte to the value before they shift it:
\* each byte stored by a word written at 0 is the digit it should be, or that
\* digit plus one, and the least significant one is always exact.
WrittenDigits ==
  (last.op = "write_word" /\ last.addr = 0) =>
    \A i \in 0..3 :
      LET digit == (last.value \div Weight(Place(be, 4, i))) % Base
      IN  \/ data[i] = digit
          \/ data[i] = (digit + 1) % Base /\ Place(be, 4, i) # 0

\* memory.h: what a write stores is its parameter value, so that the read of
\* the same width gives it back. Violated by a value whose low digits are all
\* ones: the place added before the shift carries into the byte stored.
WrittenReadsBack ==
  (last.op \in {"write_half", "write_word"} /\ last.addr = 0) =>
    last.value = IF last.op = "write_half" THEN ReadHalf(data, be)
                                           ELSE ReadWord(data, be, 0)

\* memory.h: an access is of the data at its address, for one that is inside the
\* memory as a whole: a read gives the bytes there, and a write leaves there the
\* digits of its value, give or take the carry of WrittenDigits. Violated by
\* the loops: that of memory_read_half runs over 0 and 1, and the others end at
\* 1 or 3, so that they read 0 and write nothing from address 2 or 4 on.
Whole == last.ret = Success /\ last.addr + Width[last.op] <= Size
AccessesAtAddress ==
  /\ (last.op \in {"read_half", "read_word"} /\ Whole) =>
       last.value = Assembled(last.op, last.addr)
  /\ (last.op \in {"write_half", "write_word"} /\ Whole) =>
       LET n == Width[last.op]
       IN  \A i \in 0 .. n - 1 :
             LET digit == (last.value \div Weight(Place(be, n, i))) % Base
             IN  data[last.addr + i] \in {digit, (digit + 1) % Base}

=============================================================================
