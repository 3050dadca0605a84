------------------------------ MODULE Encoding ------------------------------
(***************************************************************************)
(* The fields the decoders take from an instruction with get_bits, and the *)
(* results they return. An instruction is the record of its fields.        *)
(***************************************************************************)
EXTENDS Integers

Instruction == [cond : 0 .. 15,   \* bits 31..28
                cls  : 0 .. 7,    \* bits 27..25
                op   : 0 .. 31,   \* bits 24..20
                rn   : 0 .. 15,   \* bits 19..16
                rd   : 0 .. 15,   \* bits 15..12
                lo   : 0 .. 4095] \* bits 11..0

\* The all-zero word, andeq r0, r0, r0.
ZeroIns == [cond |-> 0, cls |-> 0, op |-> 0, rn |-> 0, rd |-> 0, lo |-> 0]

\* Bits 24..20: the opcode and S of data processing, or P, U, B, W, L.
Opcode(ins) == ins.op \div 2
SBit(ins) == ins.op % 2
PBit(ins) == ins.op \div 16
UBit(ins) == (ins.op \div 8) % 2
BBit(ins) == (ins.op \div 4) % 2
WBit(ins) == (ins.op \div 2) % 2
LBit(ins) == ins.op % 2

\* Bits 11..0 as a shifted register, or as a rotated byte. Rs is taken from
\* bits 11..6, six bits that overlap the shift.
Rm(lo) == lo % 16
Bit4(lo) == (lo \div 16) % 2
ShiftOp(lo) == (lo \div 32) % 4
Rs(lo) == lo \div 64
Bit7(lo) == (lo \div 128) % 2
ShiftImm(lo) == lo \div 128
Immed8(lo) == lo % 256
RotateImm(lo) == lo \div 256

\* Bits 23..0, the offset of a branch, and bits 15..0, a register list.
Offset24(ins) == (ins.op % 16) * 2^20 + ins.rn * 2^16 + ins.rd * 2^12 + ins.lo
InList(ins, i) == IF i < 12 THEN (ins.lo \div 2^i) % 2 = 1
                            ELSE (ins.rd \div 2^(i - 12)) % 2 = 1

\* What a decoder returns (0: nothing raised; -1: a store that failed).
RESET == 1
UNDEFINED_INSTRUCTION == 2
SOFTWARE_INTERRUPT == 3
Result == {-1, 0, RESET, UNDEFINED_INSTRUCTION, SOFTWARE_INTERRUPT}
=============================================================================
