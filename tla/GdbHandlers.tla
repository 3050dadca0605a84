---------------------------- MODULE GdbHandlers ----------------------------
(***************************************************************************)
(* The handlers of gdb_protocol.c as functions on the memory, the          *)
(* registers and the text of the packet: the accesses of several bytes,    *)
(* which stop at the first that fails; the binary data of X packets, where *)
(* a byte that the scanner would take for the end of the packet is sent as *)
(* two characters; words as the text of their bytes, in the order the      *)
(* target holds them; the pc, which the core reads one instruction ahead.  *)
(***************************************************************************)
EXTENDS Registers, Sequences

CONSTANTS BigEndian   \* is BIG_ENDIAN_SIMULATOR defined?

Escape == 125    \* 0x7d

\* c ^ 0x20
Twist(c) == IF (c \div 32) % 2 = 1 THEN c - 32 ELSE c + 32

\* memory_read_byte and memory_write_byte fail at the end of the memory: how
\* many of the size bytes from addr come before it.
Before(addr, size) == IF addr + size <= Size THEN size
                      ELSE IF addr >= Size THEN 0 ELSE Size - addr

read_memory(mem, addr, size) == [k \in 1 .. Before(addr, size) |-> mem[addr + k - 1]]

\* A mutant of Unescaped: the character after an escape is stored as it is.
UnescapedAsIs(content, at) ==
  IF content[at] = Escape THEN content[at + 1] ELSE content[at]

Unescaped(content, at) ==
  IF content[at] = Escape THEN Twist(content[at + 1]) ELSE content[at]

\* Where the content of the i-th byte begins.
Starts(content, size) ==
  LET starts[i \in 1 .. size] ==
        IF i = 1 THEN 1
        ELSE starts[i - 1] + (IF content[starts[i - 1]] = Escape THEN 2 ELSE 1)
  IN  starts

\* write_memory_binary: what it leaves in memory and whether it answers OK. The
\* bytes before one that fails stay written.
write_memory_binary(mem, addr, size, content) ==
  LET starts == Starts(content, size)
  IN  [ok |-> addr < Size /\ Before(addr, size) = size,
       mem |-> [a \in DOMAIN mem |->
                  IF a - addr + 1 \in 1 .. Before(addr, size)
                  THEN Unescaped(content, starts[a - addr + 1]) ELSE mem[a]]]

-----------------------------------------------------------------------------
write_uint32(v) == [k \in 1 .. 4 |-> (v \div Weight(Place(BigEndian, 4, k - 1))) % Base]

read_uint32(text) ==
  LET Part(k) == text[k] * Weight(Place(BigEndian, 4, k - 1))
  IN  Part(1) + Part(2) + Part(3) + Part(4)

\* A register as the handlers send it: the pc is that of the next instruction.
Sent(reg, n) == IF n = PC THEN Minus(ReadRegister(reg, PC), 4) ELSE reg[n]

read_general_registers(reg) == [n \in DOMAIN reg |-> write_uint32(Sent(reg, n))]

\* What atoi reads in the hexadecimal number of a register: digits up to the
\* first letter.
Atoi(n) == IF n % 16 < 10 THEN 10 * (n \div 16) + (n % 16) ELSE n \div 16
read_register(reg, n) == write_uint32(Sent(reg, Atoi(n)))

write_general_registers(text) == [n \in DOMAIN text |-> read_uint32(text[n])]
write_register(reg, n, text) == WriteRegister(reg, n, read_uint32(text))

\* The exceptions arm_step returns, and gdb_send_stop_reason.
UNDEFINED_INSTRUCTION == 2
PREFETCH_ABORT == 4
DATA_ABORT == 5
stop_reason(exception) == CASE exception = UNDEFINED_INSTRUCTION -> "S04"
                            [] exception \in {PREFETCH_ABORT, DATA_ABORT} -> "S10"
                            [] OTHER -> "S05"
=============================================================================
