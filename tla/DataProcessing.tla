--------------------------- MODULE DataProcessing ---------------------------
(***************************************************************************)
(* arm_data_processing.c: the sixteen operations, what they write and how  *)
(* they set the flags, as functions of the register file.                  *)
(***************************************************************************)
EXTENDS CondShift, Encoding

\* The word of these bits, and the operators of C on the bits of two words.
WordOf(bits) ==
  LET low[i \in 0 .. W] == IF i = 0 THEN 0 ELSE low[i - 1] + bits[i - 1] * 2^(i - 1)
  IN  low[W]
BitAnd(a, b) == WordOf([i \in 0 .. N |-> Bit(a, i) * Bit(b, i)])
BitXor(a, b) == WordOf([i \in 0 .. N |-> (Bit(a, i) + Bit(b, i)) % 2])
BitOr(a, b) == WordOf([i \in 0 .. N |-> IF Bit(a, i) + Bit(b, i) > 0 THEN 1 ELSE 0])
Complement(v) == Ones - v

AND == 0
EOR == 1
SUB == 2
RSB == 3
ADD == 4
ADC == 5
SBC == 6
RSC == 7
TST == 8
TEQ == 9
CMP == 10
CMN == 11
ORR == 12
MOV == 13
BIC == 14
MVN == 15
Operation == AND .. MVN

\* What SBC and RSC subtract: ~C is -1 - C on an int, !C is 1 - C. RSB is
\* dispatched to rsc_process; rsb_process is never called.
NotC(c) == -1 - c
ReverseSubtracts == {RSB, RSC}

\* The result of an operation on a (Rn), b (the shifter operand) and C.
Alu(op, a, b, c) ==
  CASE op \in {AND, TST} -> BitAnd(a, b)
    [] op \in {EOR, TEQ} -> BitXor(a, b)
    [] op \in {SUB, CMP} -> Minus(a, b)
    [] op \in ReverseSubtracts -> Minus(b, a + 1 - c)
    [] op \in {ADD, CMN} -> Plus(a, b)
    [] op = ADC -> Plus(a, b + c)
    [] op = SBC -> Minus(a, b + NotC(c))
    [] op = ORR -> BitOr(a, b)
    [] op = MOV -> b
    [] op = BIC -> BitAnd(a, Complement(b))
    [] op = MVN -> Complement(b)

Comparisons == {CMP, CMN}
Tests == {TST, TEQ, CMP, CMN}
Additions == {ADD, ADC, CMN}
Subtractions == {SUB, SBC, CMP} \cup ReverseSubtracts

\* Every operation writes its result: a comparison into Rn, the others,
\* TST and TEQ too, into Rd.
Destination(op, rn, rd) == IF op \in Comparisons THEN rn ELSE rd

CarryFrom(sum) == IF sum >= WordMod THEN 1 ELSE 0

\* borrowFrom compares an unsigned with 0: never a borrow.
BorrowFrom(difference) == 0

\* A mutant of OverflowFrom: the rule of an addition for a subtraction too.
OverflowFromAddition(x, y, result, addition) ==
  IF Bit(x, N) = Bit(y, N) /\ Bit(x, N) # Bit(result, N) THEN 1 ELSE 0

OverflowFrom(x, y, result, addition) ==
  IF (Bit(x, N) = Bit(y, N)) = addition /\ Bit(x, N) # Bit(result, N) THEN 1 ELSE 0

\* The carry and overflow flags. Rn is read again, after the result has been
\* written, for a: it is the result itself when Rn is the destination.
CarryFlag(op, a, b, c, shifterCarry) ==
  CASE op \in {ADD, CMN} -> CarryFrom(a + b)
    [] op = ADC -> CarryFrom(a + Plus(b, c))
    [] op \in Subtractions -> 1 - BorrowFrom(Minus(a, b))
    [] OTHER -> shifterCarry

OverflowFlag(op, a, b, c, result, v) ==
  CASE op \in {ADD, CMN} -> OverflowFrom(a, b, result, TRUE)
    [] op = ADC -> OverflowFrom(a, Plus(b, c), result, TRUE)
    [] op \in {SUB, CMP} -> OverflowFrom(a, b, result, FALSE)
    [] op = SBC -> OverflowFrom(a, Minus(b, NotC(c)), result, FALSE)
    [] op \in ReverseSubtracts -> OverflowFrom(b, Minus(a, 1 - c), result, FALSE)
    [] OTHER -> v

\* The zero flag: the comparisons look at the result, the others at the
\* number of the destination.
ZeroFlag(op, rd, result) ==
  IF (op \in Comparisons /\ result = 0) \/ (op \notin Comparisons /\ rd = 0) THEN 1 ELSE 0

\* A mutant of UpdateFlags: the bits below the flags cleared.
UpdateFlagsOnly(r, n, z, c, v) ==
  [r EXCEPT ![CPSR] = n * 2^N + z * 2^Z + c * 2^C + v * 2^V]

\* update_flags: the four top bits, the others kept.
UpdateFlags(r, n, z, c, v) ==
  [r EXCEPT ![CPSR] = n * 2^N + z * 2^Z + c * 2^C + v * 2^V + ControlBits(@)]

\* With S set, the flags stay as they are when Rd is the *value* of the pc
\* read after the write: the mode has no spsr to restore.
SetsFlags(op, s, rd, written) ==
  op \in Tests \/ (s = 1 /\ rd # ReadRegister(written, PC))

Process(r, op, s, rn, rd, operand) ==
  LET c == Flag(r, C)
      b == operand.value
      result == Alu(op, ReadRegister(r, rn), b, c)
      written == WriteRegister(r, Destination(op, rn, rd), result)
      a == ReadRegister(written, rn)
  IN  IF SetsFlags(op, s, rd, written)
      THEN UpdateFlags(written, Bit(result, N), ZeroFlag(op, rd, result),
                       CarryFlag(op, a, b, c, operand.carry),
                       OverflowFlag(op, a, b, c, result, Flag(r, V)))
      ELSE written

\* arm_data_processing_shift and arm_data_processing_immediate_msr: the
\* register files they can leave. The condition has been verified already.
DataProcessingShift(r, ins) ==
  {Process(r, Opcode(ins), SBit(ins), ins.rn, ins.rd, operand) :
     operand \in ShifterValues(r, Bit4(ins.lo), ShiftOp(ins.lo), Rs(ins.lo),
                               Rm(ins.lo), ShiftImm(ins.lo))}

RotatedImmediate(r, lo) ==
  LET v == Ror(Immed8(lo), 2 * RotateImm(lo))
  IN  Shifted(v, IF RotateImm(lo) = 0 THEN Flag(r, C) ELSE Bit(v, N))

DataProcessingImmediate(r, ins) ==
  Process(r, Opcode(ins), SBit(ins), ins.rn, ins.rd, RotatedImmediate(r, ins.lo))
=============================================================================
