----------------------------- MODULE Registers -----------------------------
(***************************************************************************)
(* registers.c, the accesses of arm_core.c to it, and the word arithmetic  *)
(* of the program, on words of W bits (32 in the program). The mode is     *)
(* USR from registers_create on: nothing in the simulator changes it, so   *)
(* that registers 0..14, the pc (15) and the cpsr (16) are all there is.   *)
(***************************************************************************)
EXTENDS MemoryOps

CONSTANTS W,         \* bits of a word
          ResetCpsr, \* the cpsr after a RESET (0x1d3)
          Junk       \* what an uninitialised or out of bounds read can give

ASSUME RegistersAssumption == /\ W \in 8 .. 32 /\ 2^W = Base * Base * Base * Base
                              /\ ResetCpsr \in Word
                              /\ Junk \subseteq Word /\ Junk # {}

WordMod == 2^W
Ones == WordMod - 1
Bit(v, i) == (v \div 2^i) % 2
\* A mutant of Plus: a carry kept beyond the word.
PlusUncut(a, b) == a + b

Plus(a, b) == (a + b) % WordMod
Minus(a, b) == (a - b) % WordMod

LinkRegister == 14
PC == 15
CPSR == 16
RegisterFile == [0 .. 16 -> Word]

\* arm_constants.h: the positions of the flags, the top four bits.
N == W - 1
Z == W - 2
C == W - 3
V == W - 4
Flag(r, f) == Bit(r[CPSR], f)
ControlBits(word) == word % 2^V

\* arm_read_register: the pc reads as the next fetch address plus 4, bit 1 cleared.
ReadRegister(r, n) ==
  IF n = PC THEN LET v == Plus(r[PC], 4) IN v - 2 * Bit(v, 1) ELSE r[n]

\* The register number is a byte, cut from whatever the caller computed. Past
\* the cpsr it reads banked registers nobody wrote, or beyond the array.
ReadAnyRegister(r, n) ==
  LET byte == n % 256 IN IF byte <= CPSR THEN {ReadRegister(r, byte)} ELSE Junk

WriteRegister(r, n, v) == [r EXCEPT ![n] = v]

\* A mutant of ResetRegisters: the general registers cleared too.
ResetRegistersAll(r) == [n \in 0 .. 16 |-> IF n = CPSR THEN ResetCpsr ELSE 0]

\* arm_exception, for the only exception it implements.
ResetRegisters(r) == [r EXCEPT ![CPSR] = ResetCpsr, ![PC] = 0]
=============================================================================
