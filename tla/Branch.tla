------------------------------- MODULE Branch -------------------------------
(***************************************************************************)
(* arm_branch_other.c: branches, and the instructions that raise.          *)
(***************************************************************************)
EXTENDS Registers, Encoding

\* The sign of the offset, and the offset extended with it to 30 bits (the top
\* six are 0x3F000000, 63 * 2^24) before the shift that makes it a word.
Backward(ins) == (ins.op \div 8) % 2 = 1
ExtendedOffset(ins) == Offset24(ins) + IF Backward(ins) THEN 63 * 2^24 ELSE 0
OffsetBytes(ins) == (4 * (ExtendedOffset(ins) % WordMod)) % WordMod

\* A mutant of BranchTarget: the sign is not looked at.
BranchTargetUnsigned(pc, ins) == Plus(pc, Minus(0, OffsetBytes(ins)))

\* arm_branch negates the shifted offset before it looks at the sign: it is
\* subtracted twice when negative, which is right, and once otherwise.
BranchTarget(pc, ins) ==
  LET negated == Minus(0, OffsetBytes(ins))
  IN  IF Backward(ins) THEN Minus(pc, negated) ELSE Plus(pc, negated)

\* With bit 24 set, the link register gets the address of the next instruction.
ArmBranch(r, ins) ==
  LET pc == ReadRegister(r, PC)
      linked == IF PBit(ins) = 1 THEN WriteRegister(r, LinkRegister, Minus(pc, 4)) ELSE r
  IN  WriteRegister(linked, PC, BranchTarget(pc, ins))

\* swi 0x123456 ends the simulation.
IsExit(ins) == /\ PBit(ins) = 1 /\ ins.op % 16 = 1 /\ ins.rn = 2
               /\ ins.rd = 3 /\ ins.lo = 1110

CoprocessorOthersSwi(ins) ==
  IF PBit(ins) = 1 THEN SOFTWARE_INTERRUPT ELSE UNDEFINED_INSTRUCTION
=============================================================================
