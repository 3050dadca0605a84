----------------------------- MODULE CondShift -----------------------------
(***************************************************************************)
(* cond_shift_calculator.c: the condition field against the flags, and the *)
(* value and carry of a shifted register.                                  *)
(***************************************************************************)
EXTENDS Registers

CONSTANT ByteMod  \* the values of Rs[7:0]; W < ByteMod, as 32 < 256
ASSUME ByteAssumption == ByteMod \in Nat /\ W < ByteMod

LSL == 0
LSR == 1
ASR == 2
ROR == 3

\* cond_verifier, as a condition on the register file.
CondVerifier(r, cond) ==
  LET n == Flag(r, N)
      z == Flag(r, Z)
      c == Flag(r, C)
      v == Flag(r, V)
  IN  CASE cond = 0  -> z = 1
        [] cond = 1  -> z = 0
        [] cond = 2  -> c = 1
        [] cond = 3  -> c = 0
        [] cond = 4  -> n = 1
        [] cond = 5  -> n = 0
        [] cond = 6  -> v = 1
        [] cond = 7  -> v = 0
        [] cond = 8  -> c = 1 /\ z = 1
        [] cond = 9  -> c = 0 /\ z = 1
        [] cond = 10 -> n = v
        [] cond = 11 -> n # v
        [] cond = 12 -> z = 0 /\ n = v
        [] cond = 13 -> z = 1 \/ n # v
        [] OTHER     -> TRUE

\* util.c, for 0 < k < W.
ShiftLeft(v, k)  == (v * 2^k) % WordMod
ShiftRight(v, k) == v \div 2^k
Asr(v, k) == ShiftRight(v, k) + Bit(v, N) * (WordMod - 2^(W - k))
Ror(v, k) == ShiftRight(v, k) + ShiftLeft(v, W - k)

Shift(op, v, k) == CASE op = LSL -> ShiftLeft(v, k)
                     [] op = LSR -> ShiftRight(v, k)
                     [] op = ASR -> Asr(v, k)
                     [] op = ROR -> Ror(v, k)

Shifted(v, carry) == [value |-> v, carry |-> carry]

\* get_rm_bit takes a register number; the shifter mostly gives it a register
\* value, so that the carry is a bit of the register of that number.
ShiftedBy(r, v, number, k) ==
  {Shifted(v, Bit(w, k)) : w \in ReadAnyRegister(r, number)}

\* A shift by the register Rs of value s, applied to Rm of value v.
ShiftByRegister(r, op, v, s) ==
  LET s7_0 == s % ByteMod
      amount == CASE op = ASR -> s [] op = ROR -> s % W [] OTHER -> s7_0
  IN  CASE (IF op = ASR THEN s ELSE s7_0) = 0 -> {Shifted(v, Flag(r, C))}
        [] 0 < amount /\ amount < W ->
             ShiftedBy(r, Shift(op, v, amount), v, amount - 1)
        [] op = ROR /\ amount = 0 /\ s7_0 # 0 -> {Shifted(v, Bit(v, N))}
        [] op = ASR /\ amount >= W ->
             {IF Bit(v, N) = 1 THEN Shifted(0, 1) ELSE Shifted(Ones, 0)}
        [] op \in {LSL, LSR} /\ amount = W -> {Shifted(0, Bit(v, N))}
        [] op \in {LSL, LSR} /\ amount > W -> {Shifted(0, 0)}

\* A shift by the immediate k, applied to Rm of number rm and value v: for
\* some of them it is the number that is shifted.
ShiftByImmediate(r, op, v, rm, k) ==
  LET top == Bit(v, N)
  IN  CASE op = LSL /\ k = 0 -> {Shifted(rm, top)}
        [] op = LSR /\ k = 0 -> {Shifted(0, top)}
        [] op = ASR /\ k = 0 -> {Shifted(top * Ones, top)}
        [] op = ROR /\ k = 0 -> UNION {ShiftedBy(r, j, v, 0) : j \in Junk}
        [] op = LSL /\ k > 0 -> ShiftedBy(r, ShiftLeft(v, k), v, N - k)
        [] op = ROR /\ k > 0 -> ShiftedBy(r, Ror(v, k), v, k - 1)
        [] op \in {LSR, ASR} /\ k > 0 -> ShiftedBy(r, Shift(op, rm, k), v, k - 1)

\* shifter_value_calculator: the outcomes it can have.
ShifterValues(r, byRegister, op, rs, rm, k) ==
  LET v == ReadRegister(r, rm)
  IN  IF byRegister = 1
      THEN UNION {ShiftByRegister(r, op, v, s) : s \in ReadAnyRegister(r, rs)}
      ELSE ShiftByImmediate(r, op, v, rm, k)
=============================================================================
