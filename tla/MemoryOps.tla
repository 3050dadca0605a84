----------------------------- MODULE MemoryOps -----------------------------
(***************************************************************************)
(* The accesses of memory.c as operators on the contents of a memory.      *)
(* A word is four bytes and a half two, as in the code; the number of      *)
(* values of a byte is the constant Base (256 in the program), so that an  *)
(* instance can have all its contents enumerated.                          *)
(***************************************************************************)
EXTENDS Integers

CONSTANTS Size,   \* memory_create's size, in bytes (0x20000 in the program)
          Base    \* the values of a byte

\* The program creates a memory that holds a word at least, and the places
\* (0..3) the write loops add to a value are themselves values of a byte.
ASSUME MemoryAssumption == /\ Size \in Nat /\ Size >= 4
                           /\ Base \in Nat /\ Base >= 4

Byte == 0 .. Base - 1
Half == 0 .. Base * Base - 1
Word == 0 .. Base * Base * Base * Base - 1

\* The positions that exist, and the contents of a memory.
Position == 0 .. Size - 1
Contents == [Position -> Byte]

\* address < memory_get_size(mem): the test every access makes, on its
\* first byte only.
InMemory(a) == a < Size

\* A mutant of Place: the endianness test reversed.
PlaceSwapped(be, n, i) == IF be THEN i ELSE n - i - 1

\* Which digit of an n-byte value the byte i is: i in a little endian memory,
\* n - i - 1 in a big endian one; and what one unit of that digit is worth.
Place(be, n, i) == IF be THEN n - i - 1 ELSE i
Weight(k) == CASE k = 0 -> 1
               [] k = 1 -> Base
               [] k = 2 -> Base * Base
               [] k = 3 -> Base * Base * Base

Digit(m, be, n, i) == m[i] * Weight(Place(be, n, i))

\* The loop of memory_read_half runs over 0..1, whatever the address.
ReadHalf(m, be) == Digit(m, be, 2, 0) + Digit(m, be, 2, 1)

\* The loop of memory_read_word runs from the address to 3: bytes below the
\* address count for nothing, and from address 4 on the value is 0.
ReadWord(m, be, a) ==
  LET From(i) == IF a <= i THEN Digit(m, be, 4, i) ELSE 0
  IN  From(0) + From(1) + From(2) + From(3)

\* Mutants of StoredByte: the cut to a byte forgotten; the index of the byte
\* added instead of its place.
StoredByteUncut(be, n, v, i) == LET p == Place(be, n, i) IN (v + p) \div Weight(p)
StoredByteByIndex(be, n, v, i) == ((v + 2 * i) \div Weight(Place(be, n, i))) % Base

\* The byte stored at i for an n-byte value v: the place is added to the
\* value before it is shifted down to it.
StoredByte(be, n, v, i) ==
  LET p == Place(be, n, i) IN ((v + p) \div Weight(p)) % Base

\* A mutant of WriteBytes: its loop starts at 0, as those of the reads of a half.
WriteBytesFromZero(m, be, n, a, v) ==
  [i \in Position |-> IF i < n THEN StoredByte(be, n, v, i) ELSE m[i]]

\* The write loops run from the address to n - 1.
WriteBytes(m, be, n, a, v) ==
  [i \in Position |-> IF a <= i /\ i < n THEN StoredByte(be, n, v, i) ELSE m[i]]

WriteByte(m, a, v) == [m EXCEPT ![a] = v]
WriteHalf(m, be, a, v) == WriteBytes(m, be, 2, a, v)
WriteWord(m, be, a, v) == WriteBytes(m, be, 4, a, v)
=============================================================================
