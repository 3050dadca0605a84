----------------------------- MODULE WordProofs -----------------------------
(***************************************************************************)
(* The operators of the processor, for every width of a word: what they    *)
(* are given words, they leave words, register files and memories.         *)
(***************************************************************************)
EXTENDS DataProcessing, LoadStore, Branch, RegistersProofs, MemoryOpsProofs

-----------------------------------------------------------------------------
(* The shifter. *)

\* The words split at bit k: as many values above it times those below.
LEMMA SplitWord ==
  ASSUME NEW k \in 0 .. W
  PROVE  /\ 2^k \in Nat /\ 2^k > 0 /\ 2^(W - k) \in Nat /\ 2^(W - k) > 0
         /\ WordMod = 2^k * 2^(W - k)
  <1>1. k \in Nat /\ W - k \in Nat /\ k + (W - k) = W
    BY WidthFacts
  <1>2. 2^W = 2^k * 2^(W - k)
    BY <1>1, PowerSum
  <1> QED BY <1>1, <1>2, PowerPositive DEF WordMod

\* A number below a product, divided by one factor, is below the other.
LEMMA QuotientBelow ==
  ASSUME NEW a \in Nat, NEW b \in Nat, a > 0, b > 0, NEW v \in 0 .. a * b - 1
  PROVE  v \div a \in 0 .. b - 1
  <1> DEFINE q == v \div a
             r == v % a
  <1>1. v \in Int /\ a * b \in Int
    OBVIOUS
  <1>2. q \in Int /\ r \in 0 .. a - 1 /\ v = a * q + r
    BY <1>1, Division
  <1> HIDE DEF q, r
  <1>3. ~ (q >= b)
    <2>1. q >= b => a * q >= a * b
      BY <1>2
    <2> QED BY <1>2, <2>1
  <1>4. ~ (q <= -1)
    <2>1. q <= -1 => a * q <= -a
      BY <1>2
    <2> QED BY <1>2, <2>1
  <1>5. q \in 0 .. b - 1
    BY <1>2, <1>3, <1>4
  <1> QED BY <1>5 DEF q

\* Logical shifts give words, a right shift one of W - k bits.
LEMMA ShiftsAreWords ==
  ASSUME NEW v \in Word, NEW k \in 0 .. W
  PROVE  /\ ShiftLeft(v, k) \in Word
         /\ ShiftRight(v, k) \in Word
         /\ ShiftRight(v, k) \in 0 .. 2^(W - k) - 1
  <1> DEFINE a == 2^k
             b == 2^(W - k)
  <1>1. a \in Nat /\ a > 0 /\ b \in Nat /\ b > 0 /\ WordMod = a * b
    BY SplitWord
  <1>2. v \in 0 .. a * b - 1 /\ v \in Int
    BY <1>1, WordFacts
  <1>3. v * 2^k \in Int
    BY <1>1, <1>2
  <1>4. ShiftLeft(v, k) \in Word
    BY <1>3, ModWord DEF ShiftLeft
  <1> HIDE DEF a, b
  <1>5. v \div a \in 0 .. b - 1
    BY <1>1, <1>2, QuotientBelow
  <1>6. b <= WordMod
    BY <1>1
  <1>7. v \div a \in 0 .. WordMod - 1
    BY <1>1, <1>5, <1>6
  <1> QED BY <1>4, <1>5, <1>7, WordFacts DEF ShiftRight, a, b

\* An arithmetic shift gives a word: the bits put in are above those left.
LEMMA AsrIsWord ==
  ASSUME NEW v \in Word, NEW k \in 0 .. W
  PROVE  Asr(v, k) \in Word
  <1> DEFINE s == ShiftRight(v, k)
             b == 2^(W - k)
  <1>1. s \in 0 .. b - 1 /\ s \in Word
    BY ShiftsAreWords
  <1>2. b \in Nat /\ b <= WordMod
    <2>1. /\ 2^k \in Nat /\ 2^k > 0 /\ b \in Nat /\ b > 0
          /\ WordMod = 2^k * b
      BY SplitWord
    <2> QED BY <2>1
  <1>3. Bit(v, N) \in {0, 1}
    BY BitIsBit, WordFacts, WidthFacts
  <1> HIDE DEF s, b
  <1>4. s + Bit(v, N) * (WordMod - b) \in 0 .. WordMod - 1
    <2>1. CASE Bit(v, N) = 0
      <3>1. Bit(v, N) * (WordMod - b) = 0
        BY <2>1, <1>2, WordFacts
      <3> QED BY <3>1, <1>1, WordFacts
    <2>2. CASE Bit(v, N) = 1
      <3>1. Bit(v, N) * (WordMod - b) = WordMod - b
        BY <2>2, <1>2, WordFacts
      <3> QED BY <3>1, <1>1, <1>2, WordFacts
    <2> QED BY <1>3, <2>1, <2>2
  <1> QED BY <1>4, WordFacts DEF Asr, s, b

\* A rotation gives a word: the two parts it adds do not overlap.
LEMMA RorIsWord ==
  ASSUME NEW v \in Word, NEW k \in 0 .. W
  PROVE  Ror(v, k) \in Word
  <1> DEFINE a == 2^k
             b == 2^(W - k)
             q == v \div a
             r == v % a
  <1>1. a \in Nat /\ a > 0 /\ b \in Nat /\ b > 0 /\ WordMod = a * b
    BY SplitWord
  <1>2. q \in 0 .. b - 1
    BY ShiftsAreWords DEF ShiftRight
  <1>3. v \in Int
    BY WordFacts
  <1>4. r \in 0 .. a - 1 /\ v = a * q + r
    <2> HIDE DEF a
    <2> QED BY <1>1, <1>3, Division
  <1> HIDE DEF a, b, q, r
  <1>5. v * b = WordMod * q + r * b
    <2>1. v * b = (a * q + r) * b
      BY <1>4
    <2>2. (a * q + r) * b = (a * b) * q + r * b
      BY <1>1, <1>2, <1>4
    <2> QED BY <1>1, <2>1, <2>2
  <1>6. r * b \in 0 .. WordMod - b
    <2>1. r * b \in Nat
      BY <1>1, <1>4
    <2>2. (a - 1 - r) * b >= 0
      BY <1>1, <1>4
    <2>3. (a - 1 - r) * b = a * b - b - r * b
      BY <1>1, <1>4
    <2> QED BY <1>1, <2>1, <2>2, <2>3, WordFacts
  <1>7. (v * b) % WordMod = r * b
    <2> DEFINE x == r * b
    <2>1. x \in 0 .. WordMod - 1
      BY <1>1, <1>6, WordFacts
    <2> HIDE DEF x
    <2>2. (WordMod * q + x) % WordMod = x
      BY <2>1, <1>2, WordFacts, DivisionUnique
    <2> QED BY <1>5, <2>2 DEF x
  <1>8. q + r * b \in 0 .. WordMod - 1
    BY <1>1, <1>2, <1>6, WordFacts
  <1>9. Ror(v, k) = q + ((v * b) % WordMod)
    BY DEF Ror, ShiftLeft, ShiftRight, q, a, b
  <1> QED BY <1>7, <1>8, <1>9, WordFacts

\* What the shifter gives.
Shifts == [value : Word, carry : {0, 1}]

\* A word and a bit are an outcome of the shifter.
LEMMA ShiftedTyped ==
  ASSUME NEW v \in Word, NEW c \in {0, 1}
  PROVE  Shifted(v, c) \in Shifts
  BY DEF Shifted, Shifts

\* Each of the four shifts gives a word.
LEMMA ShiftIsWord ==
  ASSUME NEW op \in 0 .. 3, NEW v \in Word, NEW k \in 0 .. W
  PROVE  Shift(op, v, k) \in Word
  BY ShiftsAreWords, AsrIsWord, RorIsWord DEF Shift, LSL, LSR, ASR, ROR

\* The carry taken from whatever register is read is a bit.
LEMMA ShiftedByTyped ==
  ASSUME NEW r \in RegisterFile, NEW v \in Word, NEW n \in Int, NEW k \in Nat
  PROVE  ShiftedBy(r, v, n, k) \subseteq Shifts
  <1>1. \A w \in ReadAnyRegister(r, n) : w \in Int
    BY ReadsAreWords, WordFacts
  <1>2. \A w \in ReadAnyRegister(r, n) : Bit(w, k) \in {0, 1}
    BY <1>1, BitIsBit
  <1> QED BY <1>2, ShiftedTyped DEF ShiftedBy

\* A shift by a register has an outcome of the shifter for any value of it:
\* its cases are all there is.
LEMMA ShiftByRegisterTyped ==
  ASSUME NEW r \in RegisterFile, NEW op \in 0 .. 3, NEW v \in Word, NEW s \in Word
  PROVE  ShiftByRegister(r, op, v, s) \subseteq Shifts
  <1> DEFINE s7_0 == s % ByteMod
             amount == CASE op = ASR -> s [] op = ROR -> s % W [] OTHER -> s7_0
             zero == IF op = ASR THEN s ELSE s7_0
  <1>1. s \in Nat /\ s7_0 \in Nat /\ s % W \in 0 .. W - 1
    BY WordConstants, ByteAssumption, WidthFacts
  <1>2. amount \in Nat
    BY <1>1
  <1>3. /\ Flag(r, C) \in {0, 1} /\ Bit(v, N) \in {0, 1}
        /\ 0 \in Word /\ Ones \in Word
    <2>1. C \in Nat /\ N \in Nat /\ v \in Int /\ 0 \in Word /\ Ones \in Word
      BY WordConstants, WordFacts, WidthFacts
    <2> QED BY <2>1, ReadsAreWords, BitIsBit
  <1>4. /\ Shifted(v, Flag(r, C)) \in Shifts
        /\ Shifted(v, Bit(v, N)) \in Shifts
        /\ Shifted(0, Bit(v, N)) \in Shifts
        /\ Shifted(0, 1) \in Shifts /\ Shifted(0, 0) \in Shifts
        /\ Shifted(Ones, 0) \in Shifts
    BY <1>3, ShiftedTyped
  <1>5. 0 < amount /\ amount < W =>
          ShiftedBy(r, Shift(op, v, amount), v, amount - 1) \subseteq Shifts
    <2> SUFFICES ASSUME 0 < amount, amount < W
                 PROVE  ShiftedBy(r, Shift(op, v, amount), v, amount - 1) \subseteq Shifts
      OBVIOUS
    <2> HIDE DEF amount
    <2>1. amount \in 0 .. W /\ amount - 1 \in Nat
      BY <1>2, WidthFacts
    <2>2. Shift(op, v, amount) \in Word /\ v \in Int
      BY <2>1, ShiftIsWord, WordConstants
    <2> QED BY <2>1, <2>2, ShiftedByTyped
  <1>6. \/ zero = 0
        \/ 0 < amount /\ amount < W
        \/ op = ROR /\ amount = 0 /\ s7_0 # 0
        \/ op = ASR /\ amount >= W
        \/ op \in {LSL, LSR} /\ amount = W
        \/ op \in {LSL, LSR} /\ amount > W
    BY <1>1, WidthFacts DEF LSL, LSR, ASR, ROR
  <1> HIDE DEF s7_0, amount, zero
  <1>7. ShiftByRegister(r, op, v, s) =
          CASE zero = 0 -> {Shifted(v, Flag(r, C))}
            [] 0 < amount /\ amount < W -> ShiftedBy(r, Shift(op, v, amount), v, amount - 1)
            [] op = ROR /\ amount = 0 /\ s7_0 # 0 -> {Shifted(v, Bit(v, N))}
            [] op = ASR /\ amount >= W ->
                 {IF Bit(v, N) = 1 THEN Shifted(0, 1) ELSE Shifted(Ones, 0)}
            [] op \in {LSL, LSR} /\ amount = W -> {Shifted(0, Bit(v, N))}
            [] op \in {LSL, LSR} /\ amount > W -> {Shifted(0, 0)}
    BY DEF ShiftByRegister, s7_0, amount, zero
  <1> QED BY <1>4, <1>5, <1>6, <1>7

\* So has a shift by an immediate.
LEMMA ShiftByImmediateTyped ==
  ASSUME NEW r \in RegisterFile, NEW op \in 0 .. 3, NEW v \in Word,
         NEW rm \in 0 .. 15, NEW k \in 0 .. W - 1
  PROVE  ShiftByImmediate(r, op, v, rm, k) \subseteq Shifts
  <1> DEFINE top == Bit(v, N)
  <1>1. /\ top \in {0, 1} /\ rm \in Word /\ 0 \in Word /\ top * Ones \in Word
        /\ v \in Int /\ Junk \subseteq Word
    <2>1. top \in {0, 1} /\ v \in Int /\ 0 \in Word /\ rm \in Word /\ Ones \in Word
      BY BitIsBit, WordConstants, WordFacts, WidthFacts
    <2>2. 0 * Ones = 0 /\ 1 * Ones = Ones
      BY <2>1, WordConstants
    <2> QED BY <2>1, <2>2, WordConstants
  <1> HIDE DEF top
  <1>2. /\ Shifted(rm, top) \in Shifts /\ Shifted(0, top) \in Shifts
        /\ Shifted(top * Ones, top) \in Shifts
    BY <1>1, ShiftedTyped
  <1>3. UNION {ShiftedBy(r, j, v, 0) : j \in Junk} \subseteq Shifts
    BY <1>1, ShiftedByTyped
  <1>4. /\ ShiftLeft(v, k) \in Word /\ Ror(v, k) \in Word /\ Shift(op, rm, k) \in Word
        /\ N - k \in Nat
    <2>1. k \in 0 .. W /\ N - k \in Nat
      BY WidthFacts DEF N
    <2> QED BY <1>1, <2>1, ShiftsAreWords, RorIsWord, ShiftIsWord
  <1>5. k > 0 => /\ ShiftedBy(r, ShiftLeft(v, k), v, N - k) \subseteq Shifts
                 /\ ShiftedBy(r, Ror(v, k), v, k - 1) \subseteq Shifts
                 /\ ShiftedBy(r, Shift(op, rm, k), v, k - 1) \subseteq Shifts
    <2>1. k > 0 => k - 1 \in Nat
      BY WidthFacts
    <2> QED BY <1>1, <1>4, <2>1, ShiftedByTyped
  <1>6. k = 0 \/ k > 0
    BY WidthFacts
  <1>7. op = LSL \/ op = LSR \/ op = ASR \/ op = ROR
    BY DEF LSL, LSR, ASR, ROR
  <1>8. ShiftByImmediate(r, op, v, rm, k) =
      CASE op = LSL /\ k = 0 -> {Shifted(rm, top)}
        [] op = LSR /\ k = 0 -> {Shifted(0, top)}
        [] op = ASR /\ k = 0 -> {Shifted(top * Ones, top)}
        [] op = ROR /\ k = 0 -> UNION {ShiftedBy(r, j, v, 0) : j \in Junk}
        [] op = LSL /\ k > 0 -> ShiftedBy(r, ShiftLeft(v, k), v, N - k)
        [] op = ROR /\ k > 0 -> ShiftedBy(r, Ror(v, k), v, k - 1)
        [] op \in {LSR, ASR} /\ k > 0 -> ShiftedBy(r, Shift(op, rm, k), v, k - 1)
    BY DEF ShiftByImmediate, top
  <1> QED BY <1>2, <1>3, <1>5, <1>6, <1>7, <1>8

\* What the shifter gives for the fields of an instruction, whichever outcome.
LEMMA ShifterTyped ==
  ASSUME NEW r \in RegisterFile, NEW byRegister \in {0, 1}, NEW op \in 0 .. 3,
         NEW rs \in Nat, NEW rm \in 0 .. 15, NEW k \in 0 .. W - 1
  PROVE  ShifterValues(r, byRegister, op, rs, rm, k) \subseteq Shifts
  <1>1. ReadRegister(r, rm) \in Word
    BY ReadsAreWords
  <1>2. ReadAnyRegister(r, rs) \subseteq Word
    BY ReadsAreWords
  <1>3. \A s \in Word : ShiftByRegister(r, op, ReadRegister(r, rm), s) \subseteq Shifts
    BY <1>1, ShiftByRegisterTyped
  <1>4. ShiftByImmediate(r, op, ReadRegister(r, rm), rm, k) \subseteq Shifts
    BY <1>1, ShiftByImmediateTyped
  <1> QED BY <1>2, <1>3, <1>4 DEF ShifterValues

-----------------------------------------------------------------------------
(* The operations. *)

\* Bits below i make a number below 2^i.
LEMMA WordOfIsWord ==
  ASSUME NEW bits \in [0 .. N -> {0, 1}]
  PROVE  WordOf(bits) \in Word
  <1> DEFINE Sums(low) ==
               low = [i \in 0 .. W |-> IF i = 0 THEN 0
                                        ELSE low[i - 1] + bits[i - 1] * 2^(i - 1)]
             step == [p \in (0 .. W - 1) \X Nat |-> p[2] + bits[p[1]] * 2^p[1]]
  <1>1. \A k \in 0 .. W - 1 : bits[k] \in {0, 1} /\ k \in Nat /\ 2^k \in Nat
    BY WidthFacts, PowerPositive DEF N
  <1>2. \E low : Sums(low)
    <2>1. \A k \in 0 .. W - 1 : \A x \in Nat : x + bits[k] * 2^k \in Nat
      <3> SUFFICES ASSUME NEW k \in 0 .. W - 1, NEW x \in Nat
                   PROVE  x + bits[k] * 2^k \in Nat
        OBVIOUS
      <3> DEFINE b == 2^k
      <3>1. bits[k] \in {0, 1} /\ b \in Nat
        BY <1>1
      <3> HIDE DEF b
      <3>2. x + bits[k] * b \in Nat
        BY <3>1
      <3> QED BY <3>2 DEF b
    <2>2. step \in Loop(W, Nat) /\ W \in Nat /\ 0 \in Nat
      BY <2>1, WidthFacts DEF Loop
    <2>3. PICK f : Runs(f, W, Nat, 0, step)
      <3> HIDE DEF step
      <3> QED BY <2>2, LoopExists
    <2>4. /\ f \in [0 .. W -> Nat] /\ f[0] = 0
          /\ \A k \in 0 .. W - 1 : f[k + 1] = step[<<k, f[k]>>]
      BY <2>3 DEF Runs
    <2>5. \A i \in 0 .. W : f[i] = IF i = 0 THEN 0 ELSE f[i - 1] + bits[i - 1] * 2^(i - 1)
      <3> SUFFICES ASSUME NEW i \in 1 .. W
                   PROVE  f[i] = f[i - 1] + bits[i - 1] * 2^(i - 1)
        BY <2>4, WidthFacts
      <3> DEFINE k == i - 1
      <3>1. k \in 0 .. W - 1 /\ k + 1 = i /\ f[k] \in Nat
        BY <2>4, WidthFacts
      <3> HIDE DEF k
      <3>2. f[i] = step[<<k, f[k]>>]
        BY <2>4, <3>1
      <3>3. <<k, f[k]>> \in (0 .. W - 1) \X Nat
        BY <3>1
      <3>4. f[i] = f[k] + bits[k] * 2^k
        BY <3>2, <3>3
      <3> QED BY <3>4 DEF k
    <2>6. Sums(f)
      BY <2>4, <2>5
    <2> QED BY <2>6
  <1> DEFINE low == CHOOSE low : Sums(low)
  <1>3. Sums(low)
    BY <1>2
  <1>4. WordOf(bits) = low[W]
    BY DEF WordOf
  <1> HIDE DEF low
  <1>5. low[0] = 0 /\ \A k \in 0 .. W - 1 : low[k + 1] = low[k] + bits[k] * 2^k
    <2>1. \A i \in 0 .. W : low[i] = IF i = 0 THEN 0
                                     ELSE low[i - 1] + bits[i - 1] * 2^(i - 1)
      BY <1>3
    <2>2. low[0] = 0
      BY <2>1, WidthFacts
    <2> SUFFICES ASSUME NEW k \in 0 .. W - 1 PROVE low[k + 1] = low[k] + bits[k] * 2^k
      BY <2>2
    <2>3. k + 1 \in 0 .. W /\ k + 1 # 0 /\ (k + 1) - 1 = k
      BY WidthFacts
    <2> QED BY <2>1, <2>3
  <1> DEFINE T == {k \in Nat : k <= W => low[k] \in 0 .. 2^k - 1}
  <1>6. 0 \in T
    BY <1>5
  <1>7. ASSUME NEW k \in Nat, k \in T PROVE k + 1 \in T
    <2> SUFFICES ASSUME k + 1 <= W PROVE low[k + 1] \in 0 .. 2^(k + 1) - 1
      OBVIOUS
    <2> DEFINE b == 2^k
    <2>1. k \in 0 .. W - 1 /\ k <= W
      BY WidthFacts
    <2>2. b \in Nat /\ 2^(k + 1) = 2 * b /\ bits[k] \in {0, 1}
      BY <1>1, <2>1, PowerSuccessor
    <2>3. low[k] \in 0 .. b - 1
      BY <1>7, <2>1
    <2>4. low[k + 1] = low[k] + bits[k] * b
      BY <1>5, <2>1
    <2> HIDE DEF b
    <2>5. low[k + 1] \in 0 .. 2 * b - 1
      BY <2>2, <2>3, <2>4
    <2> QED BY <2>2, <2>5
  <1>8. W \in T
    <2> HIDE DEF T
    <2> QED BY <1>6, <1>7, WidthFacts, Induction
  <1> QED BY <1>4, <1>8, WordFacts DEF WordMod

\* The bitwise operations give words.
LEMMA BitwiseAreWords ==
  ASSUME NEW a \in Word, NEW b \in Word
  PROVE  /\ BitAnd(a, b) \in Word /\ BitXor(a, b) \in Word /\ BitOr(a, b) \in Word
         /\ Complement(b) \in Word
  <1>1. \A i \in 0 .. N : Bit(a, i) \in {0, 1} /\ Bit(b, i) \in {0, 1}
    BY BitIsBit, WordConstants, WidthFacts
  <1>2. /\ [i \in 0 .. N |-> Bit(a, i) * Bit(b, i)] \in [0 .. N -> {0, 1}]
        /\ [i \in 0 .. N |-> (Bit(a, i) + Bit(b, i)) % 2] \in [0 .. N -> {0, 1}]
        /\ [i \in 0 .. N |-> IF Bit(a, i) + Bit(b, i) > 0 THEN 1 ELSE 0]
             \in [0 .. N -> {0, 1}]
    BY <1>1
  <1>3. Complement(b) \in Word
    BY WordFacts DEF Complement, Ones
  <1> QED BY <1>2, <1>3, WordOfIsWord DEF BitAnd, BitXor, BitOr

\* Each of the sixteen operations gives a word.
LEMMA AluIsWord ==
  ASSUME NEW op \in Operation, NEW a \in Word, NEW b \in Word, NEW c \in {0, 1}
  PROVE  Alu(op, a, b, c) \in Word
  <1>1. /\ a \in Int /\ b \in Int /\ a + 1 - c \in Int /\ b + c \in Int
        /\ b + NotC(c) \in Int
    BY WordConstants DEF NotC
  <1>2. /\ BitAnd(a, b) \in Word /\ BitXor(a, b) \in Word /\ BitOr(a, b) \in Word
        /\ Complement(b) \in Word
    BY BitwiseAreWords
  <1>3. BitAnd(a, Complement(b)) \in Word
    BY <1>2, BitwiseAreWords
  <1>4. /\ Minus(a, b) \in Word /\ Minus(b, a + 1 - c) \in Word /\ Plus(a, b) \in Word
        /\ Plus(a, b + c) \in Word /\ Minus(a, b + NotC(c)) \in Word
    BY <1>1, PlusMinusWords
  <1>5. op \in 0 .. 15
    BY DEF Operation, AND, MVN
  <1> QED
    BY <1>2, <1>3, <1>4, <1>5
    DEF Alu, AND, EOR, SUB, RSB, ADD, ADC, SBC, RSC, TST, TEQ, CMP, CMN, ORR, MOV, BIC, MVN,
        ReverseSubtracts

\* The flags computed are bits.
LEMMA FlagsAreBits ==
  ASSUME NEW op \in Operation, NEW a \in Word, NEW b \in Word, NEW c \in {0, 1},
         NEW carry \in {0, 1}, NEW result \in Word, NEW v \in {0, 1}, NEW rd \in 0 .. 15
  PROVE  /\ CarryFlag(op, a, b, c, carry) \in {0, 1}
         /\ OverflowFlag(op, a, b, c, result, v) \in {0, 1}
         /\ ZeroFlag(op, rd, result) \in {0, 1}
  <1>1. CarryFlag(op, a, b, c, carry) \in {0, 1}
    <2>1. \A x : CarryFrom(x) \in {0, 1} /\ 1 - BorrowFrom(x) \in {0, 1}
      BY DEF CarryFrom, BorrowFrom
    <2> QED BY <2>1 DEF CarryFlag
  <1>2. OverflowFlag(op, a, b, c, result, v) \in {0, 1}
    <2>1. \A x, y, z, k : OverflowFrom(x, y, z, k) \in {0, 1}
      BY DEF OverflowFrom
    <2> QED BY <2>1 DEF OverflowFlag
  <1>3. ZeroFlag(op, rd, result) \in {0, 1}
    BY DEF ZeroFlag
  <1> QED BY <1>1, <1>2, <1>3

\* What update_flags leaves: the flags it is given above the control bits.
LEMMA UpdateFlagsTyped ==
  ASSUME NEW r \in RegisterFile, NEW n \in {0, 1}, NEW z \in {0, 1},
         NEW c \in {0, 1}, NEW v \in {0, 1}
  PROVE  /\ UpdateFlags(r, n, z, c, v) \in RegisterFile
         /\ \A k \in 0 .. 15 : UpdateFlags(r, n, z, c, v)[k] = r[k]
         /\ LET u == UpdateFlags(r, n, z, c, v)
            IN  /\ ControlBits(u[CPSR]) = ControlBits(r[CPSR])
                /\ Flag(u, N) = n /\ Flag(u, Z) = z /\ Flag(u, C) = c /\ Flag(u, V) = v
  <1> DEFINE p == 2^V
             low == ControlBits(r[CPSR])
             u == UpdateFlags(r, n, z, c, v)
             w == p * (8 * n + 4 * z + 2 * c + v) + low
  <1>1. /\ p \in Nat /\ p > 0
        /\ 2^C = 2 * p /\ 2^Z = 4 * p /\ 2^N = 8 * p /\ WordMod = 16 * p
    BY FlagWeights
  <1>2. r[CPSR] \in Int
    <2>1. r[CPSR] \in Word
      BY DEF RegisterFile, CPSR
    <2> QED BY <2>1, WordConstants
  <1>3. low \in 0 .. p - 1
    <2>1. low = r[CPSR] % p
      BY DEF ControlBits
    <2> HIDE DEF p, low
    <2> QED BY <1>1, <1>2, <2>1
  <1>4. u[CPSR] = w
    <2>1. u[CPSR] = n * 2^N + z * 2^Z + c * 2^C + v * p + low
      BY DEF RegisterFile, UpdateFlags, CPSR
    <2> HIDE DEF p, low, u
    <2>2. n * (8 * p) + z * (4 * p) + c * (2 * p) + v * p + low = w
      BY <1>1, <1>3
    <2> QED BY <1>1, <2>1, <2>2
  <1>5. \A k \in 0 .. 15 : u[k] = r[k]
    BY DEF RegisterFile, UpdateFlags, CPSR
  <1>6. w \in 0 .. 16 * p - 1
    <2> HIDE DEF p, low
    <2> QED BY <1>1, <1>3
  <1>7. u \in RegisterFile
    <2>1. w \in Word
      BY <1>1, <1>6, WordFacts
    <2>2. u = [r EXCEPT ![CPSR] = w]
      <3>1. u = [r EXCEPT ![CPSR] = u[CPSR]]
        BY DEF RegisterFile, UpdateFlags, CPSR
      <3> HIDE DEF u, w
      <3> QED BY <1>4, <3>1
    <2> HIDE DEF u, w
    <2> QED BY <2>1, <2>2 DEF RegisterFile
  <1> HIDE DEF p, low, u
  <1>8. w % p = low /\ w \div p = 8 * n + 4 * z + 2 * c + v
    BY <1>1, <1>3, DivisionUnique
  <1>9. w \div (2 * p) = 4 * n + 2 * z + c
    <2>1. w = (2 * p) * (4 * n + 2 * z + c) + (p * v + low)
      BY <1>1, <1>3
    <2>2. p * v + low \in 0 .. 2 * p - 1
      BY <1>1, <1>3
    <2> HIDE DEF w
    <2> QED BY <1>1, <2>1, <2>2, DivisionUnique
  <1>10. w \div (4 * p) = 2 * n + z
    <2>1. w = (4 * p) * (2 * n + z) + (2 * p * c + p * v + low)
      BY <1>1, <1>3
    <2>2. 2 * p * c + p * v + low \in 0 .. 4 * p - 1
      BY <1>1, <1>3
    <2> HIDE DEF w
    <2> QED BY <1>1, <2>1, <2>2, DivisionUnique
  <1>11. w \div (8 * p) = n
    <2>1. w = (8 * p) * n + (4 * p * z + 2 * p * c + p * v + low)
      BY <1>1, <1>3
    <2>2. 4 * p * z + 2 * p * c + p * v + low \in 0 .. 8 * p - 1
      BY <1>1, <1>3
    <2> HIDE DEF w
    <2> QED BY <1>1, <2>1, <2>2, DivisionUnique
  <1> HIDE DEF w
  <1>12. ControlBits(u[CPSR]) = low
    BY <1>4, <1>8 DEF ControlBits, p
  <1>13. Flag(u, V) = v /\ Flag(u, C) = c /\ Flag(u, Z) = z /\ Flag(u, N) = n
    <2>1. /\ Flag(u, V) = (w \div p) % 2 /\ Flag(u, C) = (w \div (2 * p)) % 2
          /\ Flag(u, Z) = (w \div (4 * p)) % 2 /\ Flag(u, N) = (w \div (8 * p)) % 2
      BY <1>1, <1>4 DEF Flag, Bit, p
    <2>2. /\ (8 * n + 4 * z + 2 * c + v) % 2 = v /\ (4 * n + 2 * z + c) % 2 = c
          /\ (2 * n + z) % 2 = z /\ n % 2 = n
      OBVIOUS
    <2> QED BY <1>8, <1>9, <1>10, <1>11, <2>1, <2>2
  <1> QED BY <1>5, <1>7, <1>12, <1>13 DEF u, low

\* The register files that data processing into d can leave from r.
Processed(r, d) == {q \in RegisterFile : /\ ControlBits(q[CPSR]) = ControlBits(r[CPSR])
                                         /\ \A k \in 0 .. 15 : k # d => q[k] = r[k]}

\* An operation leaves a register file, and but for the flags of the cpsr it
\* changes the destination only.
LEMMA ProcessTyped ==
  ASSUME NEW r \in RegisterFile, NEW op \in Operation, NEW s \in {0, 1},
         NEW rn \in 0 .. 15, NEW rd \in 0 .. 15, NEW operand \in Shifts
  PROVE  Process(r, op, s, rn, rd, operand) \in Processed(r, Destination(op, rn, rd))
  <1> DEFINE c == Flag(r, C)
             b == operand.value
             result == Alu(op, ReadRegister(r, rn), b, c)
             d == Destination(op, rn, rd)
             written == WriteRegister(r, d, result)
             a == ReadRegister(written, rn)
             u == UpdateFlags(written, Bit(result, N), ZeroFlag(op, rd, result),
                              CarryFlag(op, a, b, c, operand.carry),
                              OverflowFlag(op, a, b, c, result, Flag(r, V)))
  <1>1. b \in Word /\ operand.carry \in {0, 1}
    BY DEF Shifts
  <1>2. c \in {0, 1} /\ Flag(r, V) \in {0, 1} /\ ReadRegister(r, rn) \in Word
    BY ReadsAreWords, WidthFacts
  <1>3. result \in Word
    <2> HIDE DEF c, b
    <2> QED BY <1>1, <1>2, AluIsWord
  <1>4. d \in 0 .. 15 /\ d # CPSR
    BY DEF Destination, CPSR
  <1> HIDE DEF result, d
  <1>5. /\ written \in RegisterFile /\ written[CPSR] = r[CPSR]
        /\ \A k \in 0 .. 15 : k # d => written[k] = r[k]
    <2>1. d \in 0 .. 16 /\ CPSR \in 0 .. 16 /\ 0 .. 15 \subseteq 0 .. 16
      BY <1>4 DEF CPSR
    <2> HIDE DEF written
    <2>2. written \in But(r, {d})
      BY <1>3, <2>1, WriteTyped DEF written
    <2> QED BY <1>4, <2>1, <2>2 DEF But
  <1> HIDE DEF written
  <1>6. a \in Word
    BY <1>5, ReadsAreWords
  <1> HIDE DEF a, b, c
  <1>7. /\ CarryFlag(op, a, b, c, operand.carry) \in {0, 1}
        /\ OverflowFlag(op, a, b, c, result, Flag(r, V)) \in {0, 1}
        /\ ZeroFlag(op, rd, result) \in {0, 1}
        /\ Bit(result, N) \in {0, 1}
    <2>1. Bit(result, N) \in {0, 1}
      BY <1>3, WordConstants, BitIsBit, WidthFacts
    <2> QED BY <1>1, <1>2, <1>3, <1>6, <2>1, FlagsAreBits
  <1>8. /\ u \in RegisterFile /\ ControlBits(u[CPSR]) = ControlBits(written[CPSR])
        /\ \A k \in 0 .. 15 : u[k] = written[k]
    BY <1>5, <1>7, UpdateFlagsTyped
  <1> HIDE DEF u
  <1>9. Process(r, op, s, rn, rd, operand) \in {u, written}
    BY DEF Process, u, written, a, b, c, result, d
  <1>10. {u, written} \subseteq Processed(r, d)
    BY <1>5, <1>8 DEF Processed
  <1> QED BY <1>9, <1>10 DEF d

\* The fields of an instruction.
LEMMA Fields ==
  ASSUME NEW i \in Instruction
  PROVE  /\ i.cond \in 0 .. 15 /\ i.cls \in 0 .. 7 /\ i.op \in 0 .. 31
         /\ i.rn \in 0 .. 15 /\ i.rd \in 0 .. 15 /\ i.lo \in Nat
         /\ Opcode(i) \in Operation
         /\ SBit(i) \in {0, 1} /\ PBit(i) \in {0, 1} /\ UBit(i) \in {0, 1}
         /\ BBit(i) \in {0, 1} /\ WBit(i) \in {0, 1} /\ LBit(i) \in {0, 1}
  <1>1. i.lo \in Nat
    <2> DEFINE x == i.lo
    <2>1. x \in 0 .. 4095
      BY DEF Instruction
    <2> HIDE DEF x
    <2>2. x \in Nat
      BY <2>1
    <2> QED BY <2>2 DEF x
  <1> QED
    BY <1>1 DEF Instruction, Opcode, SBit, PBit, UBit, BBit, WBit, LBit, Operation, AND, MVN

\* The fields of bits 11..0.
LEMMA LowFields ==
  ASSUME NEW lo \in Nat
  PROVE  /\ Rm(lo) \in 0 .. 15 /\ Bit4(lo) \in {0, 1} /\ ShiftOp(lo) \in 0 .. 3
         /\ Rs(lo) \in Nat /\ ShiftImm(lo) \in Nat /\ Immed8(lo) \in 0 .. 255
         /\ RotateImm(lo) \in Nat /\ 2 * RotateImm(lo) <= ShiftImm(lo)
  <1>1. Rm(lo) \in 0 .. 15 /\ Immed8(lo) \in 0 .. 255
    BY DEF Rm, Immed8
  <1>2. lo \div 16 \in Nat /\ lo \div 32 \in Nat /\ lo \div 64 \in Nat
    OBVIOUS
  <1>3. Bit4(lo) \in {0, 1} /\ ShiftOp(lo) \in 0 .. 3 /\ Rs(lo) \in Nat
    BY <1>2 DEF Bit4, ShiftOp, Rs
  <1>4. ShiftImm(lo) \in Nat /\ RotateImm(lo) \in Nat /\ 2 * RotateImm(lo) <= ShiftImm(lo)
    BY DEF ShiftImm, RotateImm
  <1> QED BY <1>1, <1>3, <1>4

\* The rotated immediate is an outcome of the shifter.
LEMMA RotatedTyped ==
  ASSUME NEW r \in RegisterFile, NEW lo \in Nat, ShiftImm(lo) < W
  PROVE  RotatedImmediate(r, lo) \in Shifts
  <1> DEFINE k == 2 * RotateImm(lo)
             v == Ror(Immed8(lo), k)
  <1>1. k \in 0 .. W /\ Immed8(lo) \in Word
    <2>1. /\ RotateImm(lo) \in Nat /\ 2 * RotateImm(lo) <= ShiftImm(lo)
          /\ ShiftImm(lo) \in Nat /\ Immed8(lo) \in 0 .. 255
      BY LowFields
    <2>2. Immed8(lo) \in Word
      BY <2>1, WordConstants
    <2> QED BY <2>1, <2>2, WidthFacts
  <1> HIDE DEF k
  <1>2. v \in Word /\ v \in Int
    <2>1. v \in Word
      BY <1>1, RorIsWord
    <2> QED BY <2>1, WordConstants
  <1> HIDE DEF v
  <1>3. Bit(v, N) \in {0, 1} /\ Flag(r, C) \in {0, 1}
    BY <1>2, BitIsBit, ReadsAreWords, WidthFacts
  <1> QED BY <1>2, <1>3, ShiftedTyped DEF RotatedImmediate, v, k

\* Data processing, by a shifted register or an immediate, changes the flags
\* and the destination only.
LEMMA DataProcessingTyped ==
  ASSUME NEW r \in RegisterFile, NEW i \in Instruction, ShiftImm(i.lo) < W
  PROVE  LET d == Destination(Opcode(i), i.rn, i.rd)
         IN  /\ DataProcessingShift(r, i) \subseteq Processed(r, d)
             /\ DataProcessingImmediate(r, i) \in Processed(r, d)
  <1>1. /\ Opcode(i) \in Operation /\ SBit(i) \in {0, 1}
        /\ i.rn \in 0 .. 15 /\ i.rd \in 0 .. 15 /\ i.lo \in Nat
    BY Fields
  <1>2. \A o \in Shifts : Process(r, Opcode(i), SBit(i), i.rn, i.rd, o)
                            \in Processed(r, Destination(Opcode(i), i.rn, i.rd))
    BY <1>1, ProcessTyped
  <1>3. ShifterValues(r, Bit4(i.lo), ShiftOp(i.lo), Rs(i.lo), Rm(i.lo), ShiftImm(i.lo))
          \subseteq Shifts
    <2>1. /\ Rm(i.lo) \in 0 .. 15 /\ Bit4(i.lo) \in {0, 1} /\ ShiftOp(i.lo) \in 0 .. 3
          /\ Rs(i.lo) \in Nat /\ ShiftImm(i.lo) \in 0 .. W - 1
      <3> DEFINE lo == i.lo
      <3>1. lo \in Nat /\ ShiftImm(lo) < W
        BY <1>1
      <3> HIDE DEF lo
      <3>2. /\ Rm(lo) \in 0 .. 15 /\ Bit4(lo) \in {0, 1} /\ ShiftOp(lo) \in 0 .. 3
            /\ Rs(lo) \in Nat /\ ShiftImm(lo) \in Nat
        BY <3>1, LowFields
      <3>3. ShiftImm(lo) \in 0 .. W - 1
        BY <3>1, <3>2, WidthFacts
      <3> QED BY <3>2, <3>3 DEF lo
    <2> QED BY <2>1, ShifterTyped
  <1>4. RotatedImmediate(r, i.lo) \in Shifts
    BY <1>1, RotatedTyped, Zenon
  <1> QED BY <1>2, <1>3, <1>4 DEF DataProcessingShift, DataProcessingImmediate

-----------------------------------------------------------------------------
(* Loads and stores. *)

\* A register file differs from itself in no register,
LEMMA ButItself == ASSUME NEW r \in RegisterFile, NEW S PROVE r \in But(r, S)
  BY DEF But

\* after changes to S and then to T it differs in those of both,
LEMMA ButAgain ==
  ASSUME NEW r \in RegisterFile, NEW S, NEW T, NEW p \in But(r, S), NEW q \in But(p, T)
  PROVE  q \in But(r, S \cup T)
  BY DEF But

\* and what differs in S differs in a larger set.
LEMMA ButMore ==
  ASSUME NEW r \in RegisterFile, NEW S, NEW T, S \subseteq T, NEW q \in But(r, S)
  PROVE  q \in But(r, T) /\ q \in RegisterFile
  BY DEF But

\* An address, and the register file with a base in n moved.
Moved(r, n) == [addr : Word, reg : But(r, {n})]

\* address_calculator gives a word, and moves no register but the base.
LEMMA AddressTyped ==
  ASSUME NEW r \in RegisterFile, NEW i \in Instruction
  PROVE  Address(r, i) \subseteq Moved(r, i.rn)
  <1> DEFINE offset == Offset12(i)
             register == i.cls % 2 = 1
             scaled == register /\ offset \div 16 # 0
             base == ReadRegister(r, i.rn)
             pre == PBit(i) = 1
             wb == WBit(i) = 1
  <1>1. i.rn \in 0 .. 15 /\ i.rn \in 0 .. 16 /\ i.lo \in Nat
    BY Fields
  <1>2. offset \in 0 .. 255 /\ offset \in Nat
    BY <1>1 DEF Offset12
  <1>3. base \in Word
    BY <1>1, ReadsAreWords
  <1>4. offset \in Word
    BY <1>2, WordConstants
  <1>5. OffsetValues(r, offset) \subseteq Word
    <2> HIDE DEF offset
    <2>1. /\ Rm(offset) \in 0 .. 15 /\ Bit4(offset) \in {0, 1} /\ ShiftOp(offset) \in 0 .. 3
          /\ Rs(offset) \in Nat /\ ShiftImm(offset) \in 0 .. 1
      <3>1. ShiftImm(offset) \in 0 .. 1
        BY <1>2 DEF ShiftImm
      <3> QED BY <1>2, <3>1, LowFields
    <2>2. ShiftImm(offset) \in 0 .. W - 1
      BY <2>1, WidthFacts
    <2>3. ShifterValues(r, Bit4(offset), ShiftOp(offset), Rs(offset), Rm(offset),
                        ShiftImm(offset)) \subseteq Shifts
      BY <2>1, <2>2, ShifterTyped
    <2>4. ReadRegister(r, Rm(offset)) \in Word
      BY <2>1, ReadsAreWords
    <2> QED BY <2>3, <2>4 DEF OffsetValues, Shifts
  <1> DEFINE at(d) ==
               LET moved == AddOrSub(i, base, d)
                   based == WriteRegister(r, i.rn, moved)
               IN  CASE ~pre /\ wb -> Computed(0, r)
                     [] ~pre /\ ~wb /\ ~scaled -> Computed(base, based)
                     [] ~pre /\ ~wb /\ scaled -> Computed(moved, r)
                     [] pre /\ ~wb -> Computed(moved, r)
                     [] pre /\ wb -> Computed(moved, IF register /\ ~VerifiesToOne(i)
                                                     THEN r ELSE based)
  <1>6. ASSUME NEW d \in Word PROVE at(d) \in Moved(r, i.rn)
    <2> DEFINE moved == AddOrSub(i, base, d)
               based == WriteRegister(r, i.rn, moved)
    <2>1. moved \in Word
      <3>1. base \in Int /\ d \in Int
        BY <1>3, <1>6, WordConstants
      <3> HIDE DEF base
      <3> QED BY <3>1, PlusMinusWords DEF AddOrSub
    <2> HIDE DEF moved, base
    <2>2. based \in But(r, {i.rn})
      BY <1>1, <2>1, WriteTyped
    <2>3. r \in But(r, {i.rn}) /\ 0 \in Word
      BY ButItself, WordConstants
    <2> HIDE DEF based
    <2>4. /\ Computed(0, r) \in Moved(r, i.rn) /\ Computed(base, based) \in Moved(r, i.rn)
          /\ Computed(moved, r) \in Moved(r, i.rn) /\ Computed(moved, based) \in Moved(r, i.rn)
      BY <1>3, <2>1, <2>2, <2>3 DEF Computed, Moved
    <2>5. at(d) \in {Computed(0, r), Computed(base, based), Computed(moved, r),
                     Computed(moved, based)}
      <3> HIDE DEF scaled, register
      <3> QED BY DEF moved, based
    <2> QED BY <2>4, <2>5
  <1>7. Address(r, i) = {at(d) : d \in IF register THEN OffsetValues(r, offset) ELSE {offset}}
    BY DEF Address
  <1> HIDE DEF at, offset
  <1> QED BY <1>4, <1>5, <1>6, <1>7

\* So does misc_address_calculator.
LEMMA MiscAddressTyped ==
  ASSUME NEW r \in RegisterFile, NEW i \in Instruction
  PROVE  MiscAddress(r, i) \in Moved(r, i.rn)
  <1> DEFINE immedL == i.lo % 16
             base == ReadRegister(r, i.rn)
             up == UBit(i) = 1
             byImmediate == AddOrSub(i, base, immedL)
             byRegister == AddOrSub(i, base, ReadRegister(r, immedL))
             only_up == IF up THEN byImmediate ELSE base
             based(v) == WriteRegister(r, i.rn, v)
             post == PBit(i) = 0
             wb == WBit(i) = 1
  <1>1. i.rn \in 0 .. 15 /\ i.rn \in 0 .. 16 /\ i.lo \in Nat /\ BBit(i) \in {0, 1}
    BY Fields
  <1>2. immedL \in 0 .. 15
    BY <1>1
  <1>3. base \in Word /\ ReadRegister(r, immedL) \in Word /\ immedL \in Word
    <2> HIDE DEF immedL
    <2> QED BY <1>1, <1>2, ReadsAreWords, WordConstants
  <1>4. byImmediate \in Word /\ byRegister \in Word /\ only_up \in Word
    <2>1. base \in Int /\ ReadRegister(r, immedL) \in Int /\ immedL \in Int
      BY <1>3, WordConstants
    <2> HIDE DEF base, immedL
    <2> QED BY <1>3, <2>1, PlusMinusWords DEF AddOrSub
  <1>5. \A v \in Word : based(v) \in But(r, {i.rn})
    BY <1>1, WriteTyped
  <1>6. r \in But(r, {i.rn}) /\ 0 \in Word
    BY ButItself, WordConstants
  <1> HIDE DEF base, byImmediate, byRegister, only_up, based
  <1>7. \A a \in Word : \A v \in Word : /\ Computed(a, based(v)) \in Moved(r, i.rn)
                                      /\ Computed(a, r) \in Moved(r, i.rn)
    BY <1>5, <1>6 DEF Computed, Moved
  <1> DEFINE cleared == IF VerifiesToOne(i) THEN 0 ELSE byRegister
             kept == IF VerifiesToOne(i) THEN based(only_up) ELSE r
  <1>8. MiscAddress(r, i) =
          CASE BBit(i) = 1 /\ ~wb /\ post -> Computed(base, based(byImmediate))
            [] BBit(i) = 1 /\ ~wb /\ ~post -> Computed(only_up, r)
            [] BBit(i) = 1 /\ wb -> Computed(only_up, kept)
            [] BBit(i) = 0 /\ wb -> Computed(0, based(cleared))
            [] BBit(i) = 0 /\ ~wb /\ post -> Computed(base, based(byRegister))
            [] BBit(i) = 0 /\ ~wb /\ ~post -> Computed(0, based(byRegister))
    BY DEF MiscAddress, base, byImmediate, byRegister, only_up, based
  <1>9. /\ cleared \in Word
        /\ Computed(only_up, kept) \in Moved(r, i.rn)
    BY <1>4, <1>6, <1>7
  <1> HIDE DEF cleared, kept, post, wb
  <1> QED BY <1>1, <1>3, <1>4, <1>6, <1>7, <1>8, <1>9

\* What a transfer can leave, in general; a load into the registers of S; a
\* store, which changes no byte outside its unit.
Outcomes == [reg : RegisterFile, mem : Contents, res : {-1, 0}, failed : BOOLEAN]
Loads(r, m, S) == {o \in Outcomes : o.reg \in But(r, S) /\ o.mem = m /\ o.res = 0 /\ ~o.failed}
Within(m, from, n) == {c \in Contents : \A k \in Position : c[k] # m[k] => Minus(k, from) < n}
Bytes(unit) == IF unit = "byte" THEN 1 ELSE IF unit = "half" THEN 2 ELSE 4
Stores(r, m, unit, a) == {o \in Outcomes : /\ o.reg = r /\ ~o.failed
                                           /\ o.mem \in Within(m, a, Bytes(unit))
                                           /\ o.res = -1 => o.mem = m}

\* A byte less than n after an address is less than n after it as words too.
LEMMA MinusNear ==
  ASSUME NEW a \in Word, NEW k \in Nat, NEW n \in 1 .. 4, a <= k, k < a + n
  PROVE  Minus(k, a) < n
  <1>1. a \in Int /\ k - a \in 0 .. 3
    BY WordConstants
  <1>2. k - a \in Word
    BY <1>1, WordConstants
  <1>3. (k - a) % WordMod = k - a
    BY <1>2, WordItself
  <1> QED BY <1>1, <1>3 DEF Minus

\* An address inside the memory is a position of it.
LEMMA InMemoryIsPosition ==
  ASSUME NEW a \in Word, InMemory(a)
  PROVE  a \in Position /\ a \in Nat
  <1>1. a \in Nat
    BY WordConstants
  <1> QED BY <1>1, MemoryAssumption DEF InMemory, Position

\* What is cut to a byte, a half or a word is one, and each is a word.
LEMMA UnitsFacts == /\ WordMod = Base * Base * Base * Base
                    /\ \A x \in Int : /\ x % Base \in Byte /\ x % (Base * Base) \in Half
                                      /\ x % WordMod \in Word
                    /\ Byte \subseteq Word /\ Half \subseteq Word
  <1>1. WordMod = Base * Base * Base * Base
    BY RegistersAssumption DEF WordMod
  <1>2. Base \in Nat /\ Base >= 4
    BY MemoryAssumption
  <1> DEFINE h == Base * Base
  <1>3. h \in Nat /\ h >= Base /\ h > 0
    BY <1>2
  <1>4. WordMod = h * h
    BY <1>1, <1>2
  <1> HIDE DEF h
  <1>5. h <= WordMod
    BY <1>3, <1>4
  <1>6. \A x \in Int : x % Base \in Byte /\ x % h \in Half
    BY <1>2, <1>3 DEF Byte, Half, h
  <1>7. \A x \in 0 .. Base - 1 : x \in 0 .. WordMod - 1
    BY <1>2, <1>3, <1>5, WordFacts
  <1>8. \A x \in 0 .. h - 1 : x \in 0 .. WordMod - 1
    BY <1>3, <1>5, WordFacts
  <1> QED BY <1>1, <1>6, <1>7, <1>8, ModWord, WordFacts DEF Byte, Half, h

\* What a load can give is a word, a failed one included.
LEMMA LoadedTyped ==
  ASSUME NEW m \in Contents, NEW unit \in Units, NEW a \in Word
  PROVE  ValuesAt(m, unit, a) \subseteq Word
  <1>1. a \in Nat
    BY WordConstants
  <1>2. InMemory(a) => m[a] \in Byte
    BY InMemoryIsPosition DEF Contents
  <1>3. 0 \in Byte
    BY MemoryAssumption DEF Byte
  <1>4. ByteValue(m, a) \in Word
    BY <1>2, <1>3, UnitsFacts DEF ByteValue
  <1>5. ReadHalf(m, BigEndian) \in Word /\ ReadWord(m, BigEndian, a) \in Word
    <2>1. BigEndian \in BOOLEAN
      BY DEF BigEndian
    <2> QED BY <1>1, <2>1, ReadsTyped, UnitsFacts
  <1>6. \A j \in Junk : /\ j % Base \in Word /\ j % (Base * Base) \in Word
                        /\ j % WordMod \in Word
    <2> TAKE j \in Junk
    <2>1. j \in Int
      BY WordConstants
    <2> QED BY <2>1, UnitsFacts
  <1> QED BY <1>4, <1>5, <1>6 DEF ValuesAt, Loaded, Units

\* A store leaves a memory, as it was outside its unit.
LEMMA StoredTyped ==
  ASSUME NEW m \in Contents, NEW unit \in Units, NEW a \in Word, NEW v \in Nat,
         unit = "byte" => v \in Byte
  PROVE  Stored(m, unit, a, v) \in Within(m, a, Bytes(unit))
  <1>1. a \in Nat /\ v \in Int /\ BigEndian \in BOOLEAN
    BY WordConstants DEF BigEndian
  <1>2. CASE ~InMemory(a)
    BY <1>2 DEF Stored, Within
  <1>3. CASE InMemory(a) /\ unit = "byte"
    <2>1. /\ WriteByte(m, a, v) \in Contents
          /\ \A k \in Position : WriteByte(m, a, v)[k] # m[k] => k = a
      BY <1>3 DEF WriteByte, Contents
    <2>2. Minus(a, a) < 1
      BY <1>1, MinusNear
    <2>3. WriteByte(m, a, v) \in Within(m, a, 1)
      BY <2>1, <2>2 DEF Within
    <2> QED BY <1>3, <2>3 DEF Stored, Bytes
  <1>4. ASSUME NEW n \in {2, 4}
        PROVE  WriteBytes(m, BigEndian, n, a, v) \in Within(m, a, n)
    <2>1. n \in 1 .. 4 /\ n <= 4 /\ n \in Int
      BY <1>4
    <2>2. /\ WriteBytes(m, BigEndian, n, a, v) \in Contents
          /\ \A k \in Position : WriteBytes(m, BigEndian, n, a, v)[k] # m[k] => a <= k /\ k < n
      BY <1>1, <2>1, WriteBytesKeeps
    <2>3. ASSUME NEW k \in Position, a <= k, k < n PROVE Minus(k, a) < n
      <3>1. k \in Nat /\ k < a + n
        BY <1>1, <2>1, <2>3, MemoryAssumption DEF Position
      <3> QED BY <2>1, <2>3, <3>1, MinusNear
    <2> QED BY <2>2, <2>3 DEF Within
  <1>5. CASE InMemory(a) /\ unit # "byte"
    <2>1. /\ Bytes(unit) \in {2, 4}
          /\ Stored(m, unit, a, v) = WriteBytes(m, BigEndian, Bytes(unit), a, v)
      BY <1>5 DEF Stored, Units, WriteHalf, WriteWord, Bytes
    <2> QED BY <1>4, <2>1
  <1> QED BY <1>2, <1>3, <1>5

\* A load changes Rd, a store the memory.
LEMMA TransferTyped ==
  ASSUME NEW r \in RegisterFile, NEW m \in Contents, NEW i \in Instruction,
         NEW unit \in Units, NEW a \in Word
  PROVE  Transfer(r, m, i, unit, a)
           \subseteq IF LBit(i) = 1 THEN Loads(r, m, {i.rd}) ELSE Stores(r, m, unit, a)
  <1>1. i.rd \in 0 .. 16
    <2>1. i.rd \in 0 .. 15
      BY Fields
    <2> QED BY <2>1
  <1>2. ASSUME NEW v \in Word
        PROVE  Outcome(WriteRegister(r, i.rd, v), m, 0) \in Loads(r, m, {i.rd})
    <2>1. WriteRegister(r, i.rd, v) \in But(r, {i.rd})
      BY <1>1, WriteTyped
    <2> QED BY <2>1 DEF But, Outcome, Outcomes, Loads
  <1>3. ReadRegister(r, i.rd) \in Int
    BY <1>1, ReadsAreWords, WordConstants
  <1> DEFINE v == ReadRegister(r, i.rd) % UnitMod(unit)
             res == IF InMemory(a) THEN 0 ELSE -1
  <1>4. v \in Nat /\ (unit = "byte" => v \in Byte)
    <2>1. v \in Word /\ (unit = "byte" => v \in Byte)
      BY <1>3, UnitsFacts DEF UnitMod, Units
    <2> HIDE DEF v
    <2> QED BY <2>1, WordConstants
  <1> HIDE DEF v
  <1>5. Outcome(r, Stored(m, unit, a, v), res) \in Stores(r, m, unit, a)
    <2>1. Stored(m, unit, a, v) \in Within(m, a, Bytes(unit))
      BY <1>4, StoredTyped
    <2>2. res = -1 => Stored(m, unit, a, v) = m
      BY DEF Stored
    <2> QED BY <2>1, <2>2 DEF Outcome, Outcomes, Stores, Within
  <1>6. LBit(i) = 1 => Transfer(r, m, i, unit, a)
                         = {Outcome(WriteRegister(r, i.rd, x), m, 0) : x \in ValuesAt(m, unit, a)}
    BY DEF Transfer
  <1>7. LBit(i) # 1 => Transfer(r, m, i, unit, a) = {Outcome(r, Stored(m, unit, a, v), res)}
    BY DEF Transfer, v
  <1> QED BY <1>2, <1>5, <1>6, <1>7, LoadedTyped

\* What a single transfer leaves: the base and the loaded register apart, the
\* registers; the memory but for a store that succeeds, and outside its unit.
Single(r, m, i) ==
  {o \in Outcomes : /\ o.reg \in But(r, {i.rn} \cup IF LBit(i) = 1 THEN {i.rd} ELSE {})
                    /\ LBit(i) = 1 => o.mem = m /\ o.res = 0
                    /\ o.res = -1 => o.mem = m
                    /\ \E b \in Reach(r, i) : o.mem \in Within(m, b.from, b.size)
                    /\ ~o.failed}

\* arm_load_store does nothing else.
LEMMA SingleTyped ==
  ASSUME NEW r \in RegisterFile, NEW m \in Contents, NEW i \in Instruction, i.cls # 4
  PROVE  LoadStoreSingle(r, m, i) \subseteq Single(r, m, i)
  <1>1. ASSUME NEW at \in Moved(r, i.rn), NEW unit \in Units,
               [from |-> at.addr, size |-> Bytes(unit)] \in Reach(r, i)
        PROVE  Transfer(at.reg, m, i, unit, at.addr) \subseteq Single(r, m, i)
    <2>1. at.addr \in Word /\ at.reg \in But(r, {i.rn})
      BY <1>1 DEF Moved
    <2>2. at.reg \in RegisterFile
      BY <2>1 DEF But
    <2>3. Transfer(at.reg, m, i, unit, at.addr)
            \subseteq IF LBit(i) = 1 THEN Loads(at.reg, m, {i.rd}) ELSE Stores(at.reg, m, unit, at.addr)
      BY <2>1, <2>2, TransferTyped
    <2> DEFINE block == [from |-> at.addr, size |-> Bytes(unit)]
    <2>6. block \in Reach(r, i) /\ block.from = at.addr /\ block.size = Bytes(unit)
      BY <1>1
    <2> HIDE DEF block
    <2>4. CASE LBit(i) = 1
      <3> SUFFICES ASSUME NEW o \in Loads(at.reg, m, {i.rd}) PROVE o \in Single(r, m, i)
        BY <2>3, <2>4
      <3>1. o \in Outcomes /\ o.reg \in But(at.reg, {i.rd}) /\ o.mem = m /\ o.res = 0 /\ ~o.failed
        BY DEF Loads
      <3>2. o.reg \in But(r, {i.rn} \cup {i.rd})
        BY <2>1, <3>1, ButAgain
      <3>3. m \in Within(m, block.from, block.size)
        BY DEF Within
      <3> QED BY <2>4, <2>6, <3>1, <3>2, <3>3 DEF Single
    <2>5. CASE LBit(i) # 1
      <3> SUFFICES ASSUME NEW o \in Stores(at.reg, m, unit, at.addr) PROVE o \in Single(r, m, i)
        BY <2>3, <2>5
      <3>1. /\ o \in Outcomes /\ o.reg = at.reg /\ ~o.failed
            /\ o.res = -1 => o.mem = m
            /\ o.mem \in Within(m, block.from, block.size)
        <4> DEFINE q == at.reg
                   a == at.addr
        <4>1. o \in Stores(q, m, unit, a)
          OBVIOUS
        <4>2. block.from = a /\ block.size = Bytes(unit)
          BY <2>6
        <4> HIDE DEF q, a
        <4>3. /\ o \in Outcomes /\ o.reg = q /\ ~o.failed
              /\ o.res = -1 => o.mem = m
              /\ o.mem \in Within(m, a, Bytes(unit))
          BY <4>1 DEF Stores
        <4> QED BY <4>2, <4>3 DEF q
      <3>2. o.reg \in But(r, {i.rn} \cup {})
        BY <2>1, <3>1, ButMore
      <3> QED BY <2>5, <2>6, <3>1, <3>2 DEF Single
    <2> QED BY <2>4, <2>5
  <1>2. CASE i.cls = 0
    <2>1. LoadStoreSingle(r, m, i)
            = Transfer(MiscAddress(r, i).reg, m, i, "half", MiscAddress(r, i).addr)
      BY <1>2 DEF LoadStoreSingle
    <2>2. "half" \in Units /\ Bytes("half") = 2
      BY DEF Units, Bytes
    <2>3. [from |-> MiscAddress(r, i).addr, size |-> Bytes("half")] \in Reach(r, i)
      BY <1>2, <2>2 DEF Reach
    <2> QED BY <1>1, <2>1, <2>2, <2>3, MiscAddressTyped
  <1>3. CASE i.cls # 0
    <2> DEFINE unit == IF BBit(i) = 1 THEN "byte" ELSE "word"
    <2>1. LoadStoreSingle(r, m, i)
            = UNION {Transfer(at.reg, m, i, unit, at.addr) : at \in Address(r, i)}
      BY <1>3 DEF LoadStoreSingle
    <2>2. unit \in Units /\ Bytes(unit) = IF BBit(i) = 1 THEN 1 ELSE 4
      BY <1>3 DEF Units, Bytes
    <2> HIDE DEF unit
    <2>3. \A at \in Address(r, i) : [from |-> at.addr, size |-> Bytes(unit)] \in Reach(r, i)
      BY <1>3, <2>2 DEF Reach
    <2> QED BY <1>1, <2>1, <2>2, <2>3, AddressTyped
  <1> QED BY <1>2, <1>3

-----------------------------------------------------------------------------
(* Multiple transfers. *)

\* The registers below one can be counted.
LEMMA CountsAreNumbers ==
  ASSUME NEW n \in Int, NEW S, S \subseteq 0 .. n
  PROVE  IsFiniteSet(S) /\ Cardinality(S) \in Nat
  <1>1. IsFiniteSet(0 .. n)
    BY FS_Interval
  <1> QED BY <1>1, FS_Subset, FS_CardinalityType

\* The addresses of a multiple transfer are words.
LEMMA AddressesAreWords ==
  ASSUME NEW i \in Instruction, NEW start \in Word, NEW n \in 0 .. 15
  PROVE  AddressOf(i, start, n) \in Word
  <1> DEFINE S == {j \in 0 .. n - 1 : InList(i, j)}
  <1>1. Cardinality(S) \in Nat
    <2>1. n - 1 \in Int /\ S \subseteq 0 .. n - 1
      OBVIOUS
    <2> HIDE DEF S
    <2> QED BY <2>1, CountsAreNumbers
  <1> HIDE DEF S
  <1>2. start \in Int /\ 4 * Cardinality(S) \in Int
    BY <1>1, WordConstants
  <1> QED BY <1>2, PlusMinusWords DEF AddressOf, S

\* The loop of LDM: value is a word after each turn.
LEMMA LoadedValuesTyped ==
  ASSUME NEW m \in Contents, NEW i \in Instruction, NEW start \in Word, NEW junk \in Word
  PROVE  \A k \in 0 .. 15 : LoadedValues(m, i, start, junk)[k] \in Word
  <1> DEFINE read(k) == ReadWord(m, BigEndian, AddressOf(i, start, k))
             reads(k) == InList(i, k) /\ InMemory(AddressOf(i, start, k))
             step == [p \in (0 .. 14) \X Word |-> IF reads(p[1]) THEN read(p[1]) ELSE p[2]]
             Values(value) ==
               value = [k \in 0 .. 15 |->
                          IF k = 0 THEN junk
                          ELSE IF InList(i, k - 1) /\ InMemory(AddressOf(i, start, k - 1))
                               THEN ReadWord(m, BigEndian, AddressOf(i, start, k - 1))
                               ELSE value[k - 1]]
  <1>1. \A k \in 0 .. 14 : read(k) \in Word
    <2> TAKE k \in 0 .. 14
    <2>1. AddressOf(i, start, k) \in Word
      BY AddressesAreWords
    <2>2. AddressOf(i, start, k) \in Nat /\ BigEndian \in BOOLEAN
      BY <2>1, WordConstants DEF BigEndian
    <2> QED BY <2>2, ReadsTyped
  <1> HIDE DEF read, reads
  <1>2. \E value : Values(value)
    <2>1. step \in Loop(15, Word) /\ 15 - 1 = 14
      BY <1>1 DEF Loop
    <2>2. PICK f : Runs(f, 15, Word, junk, step)
      <3> HIDE DEF step
      <3> QED BY <2>1, LoopExists
    <2>3. /\ f \in [0 .. 15 -> Word] /\ f[0] = junk
          /\ \A k \in 0 .. 14 : f[k + 1] = step[<<k, f[k]>>]
      BY <2>1, <2>2 DEF Runs
    <2>4. \A k \in 0 .. 14 : f[k + 1] = IF reads(k) THEN read(k) ELSE f[k]
      BY <2>3
    <2>5. \A k \in 0 .. 15 : f[k] = IF k = 0 THEN junk
                                    ELSE IF reads(k - 1) THEN read(k - 1) ELSE f[k - 1]
      <3> SUFFICES ASSUME NEW k \in 1 .. 15
                   PROVE  f[k] = IF reads(k - 1) THEN read(k - 1) ELSE f[k - 1]
        BY <2>3
      <3>1. k - 1 \in 0 .. 14 /\ (k - 1) + 1 = k
        OBVIOUS
      <3> QED BY <2>4, <3>1
    <2>6. f = [k \in 0 .. 15 |-> IF k = 0 THEN junk
                                 ELSE IF reads(k - 1) THEN read(k - 1) ELSE f[k - 1]]
      BY <2>3, <2>5
    <2>7. Values(f)
      BY <2>6 DEF reads, read
    <2> QED BY <2>7
  <1> DEFINE value == CHOOSE value : Values(value)
  <1>3. Values(value)
    BY <1>2
  <1>4. LoadedValues(m, i, start, junk) = value
    BY DEF LoadedValues
  <1> HIDE DEF value
  <1>5. value[0] = junk
    BY <1>3
  <1>6. \A k \in 0 .. 14 : value[k + 1] = IF reads(k) THEN read(k) ELSE value[k]
    <2> TAKE k \in 0 .. 14
    <2>1. k + 1 \in 0 .. 15 /\ k + 1 # 0 /\ (k + 1) - 1 = k
      OBVIOUS
    <2> QED BY <1>3, <2>1 DEF reads, read
  <1>7. \A k \in 0 .. 15 - 1 : value[k] \in Word => value[k + 1] \in Word
    BY <1>1, <1>6
  <1>8. value[0] \in Word /\ 15 \in Nat
    BY <1>5
  <1>9. \A k \in 0 .. 15 : value[k] \in Word
    BY <1>7, <1>8, LoopInvariant
  <1> QED BY <1>4, <1>9

\* A byte of the word of a listed register is in the block of the list.
LEMMA ListedWord ==
  ASSUME NEW i \in Instruction, NEW start \in Word, NEW k \in 0 .. 14, InList(i, k),
         NEW p \in Nat, Minus(p, AddressOf(i, start, k)) < 4
  PROVE  Minus(p, start) < Span(i)
  <1> DEFINE S == {j \in 0 .. k - 1 : InList(i, j)}
             T == {j \in 0 .. 15 : InList(i, j)}
             c == Cardinality(S)
             size == Cardinality(T)
             d == Minus(p, AddressOf(i, start, k))
  <1>1. IsFiniteSet(S) /\ c \in Nat /\ k \notin S
    <2>1. k - 1 \in Int /\ S \subseteq 0 .. k - 1 /\ k \notin S
      OBVIOUS
    <2> HIDE DEF S
    <2> QED BY <2>1, CountsAreNumbers
  <1>2. IsFiniteSet(T) /\ size \in Nat /\ size <= 16
    <2>1. IsFiniteSet(0 .. 15) /\ Cardinality(0 .. 15) = 16
      <3>1. 0 \in Int /\ 15 \in Int /\ (IF 0 > 15 THEN 0 ELSE 15 - 0 + 1) = 16
        OBVIOUS
      <3> QED BY <3>1, FS_Interval
    <2>2. T \subseteq 0 .. 15
      OBVIOUS
    <2> HIDE DEF T
    <2> QED BY <2>1, <2>2, FS_Subset, FS_CardinalityType
  <1>3. S \cup {k} \subseteq T
    OBVIOUS
  <1> HIDE DEF S, T
  <1>4. c + 1 <= size
    <2>1. IsFiniteSet(S \cup {k}) /\ Cardinality(S \cup {k}) = c + 1
      BY <1>1, FS_AddElement
    <2> QED BY <1>2, <1>3, <2>1, FS_Subset
  <1>5. Span(i) = 4 * size
    BY DEF Span, ListSize, T
  <1>6. AddressOf(i, start, k) = (start + 4 * c) % WordMod
    BY DEF AddressOf, Plus, S
  <1> HIDE DEF c, size
  <1>7. start \in Int /\ p \in Int /\ start + 4 * c \in Int
    BY <1>1, WordConstants
  <1>8. PICK x \in Int : (start + 4 * c) % WordMod = start + 4 * c + WordMod * x
    BY <1>7, WordResidue
  <1>9. /\ d \in Word /\ d \in Nat /\ d < 4
        /\ d = (p - ((start + 4 * c) % WordMod)) % WordMod
    <2> DEFINE word == AddressOf(i, start, k)
    <2>1. word \in Word
      <3>1. k \in 0 .. 15
        OBVIOUS
      <3> QED BY <3>1, AddressesAreWords
    <2>2. word \in Int /\ d = (p - word) % WordMod
      BY <2>1, WordConstants DEF Minus
    <2>3. word = (start + 4 * c) % WordMod
      BY <1>6
    <2>4. d < 4
      OBVIOUS
    <2> HIDE DEF word, d
    <2>5. d \in Word
      BY <1>7, <2>2, ModWord
    <2> QED BY <2>2, <2>3, <2>4, <2>5, WordConstants
  <1>10. WordMod \in Nat /\ WordMod >= 256 /\ Word = 0 .. WordMod - 1
    BY WordFacts
  <1> HIDE DEF WordMod, Word
  <1> DEFINE at == (start + 4 * c) % WordMod
  <1>11. at = start + 4 * c + WordMod * x /\ at \in Int /\ p - at \in Int
    BY <1>1, <1>7, <1>8, <1>10
  <1>12. PICK y \in Int : d = (p - at) + WordMod * y
    <2> HIDE DEF at
    <2>1. \E y \in Int : (p - at) % WordMod = (p - at) + WordMod * y
      BY <1>11, WordResidue
    <2>2. d = (p - at) % WordMod
      BY <1>9 DEF at
    <2> QED BY <2>1, <2>2
  <1> HIDE DEF at
  <1>13. p - start = (4 * c + d) + WordMod * (x - y)
    <2>1. WordMod * (x - y) = WordMod * x - WordMod * y
      BY <1>10
    <2> DEFINE u == WordMod * x
               v == WordMod * y
    <2>2. u \in Int /\ v \in Int /\ WordMod * (x - y) = u - v
      BY <1>10, <2>1
    <2>3. at = start + 4 * c + u /\ d = (p - at) + v
      BY <1>11, <1>12
    <2> HIDE DEF u, v
    <2> QED BY <1>1, <1>7, <1>9, <1>11, <2>2, <2>3
  <1>14. 4 * c + d \in Word /\ 4 * c + d < 4 * size
    BY <1>1, <1>2, <1>4, <1>9, <1>10
  <1>15. (p - start) % WordMod = (4 * c + d) % WordMod
    <2>1. p - start \in Int /\ 4 * c + d \in Int /\ x - y \in Int
      BY <1>1, <1>7, <1>9
    <2> QED BY <1>13, <2>1, WordSame
  <1>16. (p - start) % WordMod = 4 * c + d
    BY <1>14, <1>15, WordItself
  <1> QED BY <1>5, <1>14, <1>16 DEF Minus

\* The loop of STM: after each turn a memory, unchanged outside the block of
\* the list.
LEMMA StoredMemoriesTyped ==
  ASSUME NEW r \in RegisterFile, NEW m \in Contents, NEW i \in Instruction, NEW start \in Word
  PROVE  \A k \in 0 .. 15 : StoredMemories(r, m, i, start)[k] \in Within(m, start, Span(i))
  <1> DEFINE wrote(c, k) == Stored(c, "word", AddressOf(i, start, k), ReadRegister(r, k))
             step == [p \in (0 .. 14) \X Within(m, start, Span(i)) |->
                        IF InList(i, p[1]) THEN wrote(p[2], p[1]) ELSE p[2]]
             Memories(stored) ==
               stored = [k \in 0 .. 15 |->
                           IF k = 0 THEN m
                           ELSE IF InList(i, k - 1)
                                THEN Stored(stored[k - 1], "word", AddressOf(i, start, k - 1),
                                            ReadRegister(r, k - 1))
                                ELSE stored[k - 1]]
  <1>1. \A c \in Within(m, start, Span(i)) : \A k \in 0 .. 14 :
         InList(i, k) => wrote(c, k) \in Within(m, start, Span(i))
    <2> TAKE c \in Within(m, start, Span(i))
    <2> TAKE k \in 0 .. 14
    <2> HAVE InList(i, k)
    <2>1. AddressOf(i, start, k) \in Word
      BY AddressesAreWords
    <2>2. ReadRegister(r, k) \in Word
      BY ReadsAreWords
    <2>3. ReadRegister(r, k) \in Nat /\ "word" \in Units /\ "word" # "byte"
      BY <2>2, WordConstants DEF Units
    <2>4. c \in Contents
      BY DEF Within
    <2>5. wrote(c, k) \in Within(c, AddressOf(i, start, k), 4)
      <3>1. wrote(c, k) \in Within(c, AddressOf(i, start, k), Bytes("word"))
        BY <2>1, <2>3, <2>4, StoredTyped
      <3> QED BY <3>1 DEF Bytes
    <2> HIDE DEF wrote
    <2>6. ASSUME NEW p \in Position, wrote(c, k)[p] # m[p] PROVE Minus(p, start) < Span(i)
      <3>1. p \in Nat
        BY MemoryAssumption DEF Position
      <3>2. CASE wrote(c, k)[p] = c[p]
        BY <2>6, <3>2 DEF Within
      <3>3. CASE wrote(c, k)[p] # c[p]
        <4>1. Minus(p, AddressOf(i, start, k)) < 4
          BY <2>5, <3>3 DEF Within
        <4> QED BY <3>1, <4>1, ListedWord
      <3> QED BY <3>2, <3>3
    <2> QED BY <2>5, <2>6 DEF Within
  <1> HIDE DEF wrote
  <1>2. m \in Within(m, start, Span(i))
    BY DEF Within
  <1>3. \E stored : Memories(stored)
    <2>1. step \in Loop(15, Within(m, start, Span(i))) /\ 15 - 1 = 14
      BY <1>1 DEF Loop
    <2>2. PICK f : Runs(f, 15, Within(m, start, Span(i)), m, step)
      <3> HIDE DEF step
      <3> QED BY <1>2, <2>1, LoopExists
    <2>3. /\ f \in [0 .. 15 -> Within(m, start, Span(i))] /\ f[0] = m
          /\ \A k \in 0 .. 14 : f[k + 1] = step[<<k, f[k]>>]
      BY <2>1, <2>2 DEF Runs
    <2>4. \A k \in 0 .. 14 : f[k + 1] = IF InList(i, k) THEN wrote(f[k], k) ELSE f[k]
      BY <2>3
    <2>5. \A k \in 0 .. 15 : f[k] = IF k = 0 THEN m
                                    ELSE IF InList(i, k - 1) THEN wrote(f[k - 1], k - 1)
                                         ELSE f[k - 1]
      <3> SUFFICES ASSUME NEW k \in 1 .. 15
                   PROVE  f[k] = IF InList(i, k - 1) THEN wrote(f[k - 1], k - 1) ELSE f[k - 1]
        BY <2>3
      <3>1. k - 1 \in 0 .. 14 /\ (k - 1) + 1 = k
        OBVIOUS
      <3> QED BY <2>4, <3>1
    <2>6. f = [k \in 0 .. 15 |-> IF k = 0 THEN m
                                 ELSE IF InList(i, k - 1) THEN wrote(f[k - 1], k - 1)
                                      ELSE f[k - 1]]
      BY <2>3, <2>5
    <2>7. Memories(f)
      BY <2>6 DEF wrote
    <2> QED BY <2>7
  <1> DEFINE stored == CHOOSE stored : Memories(stored)
  <1>4. Memories(stored)
    BY <1>3
  <1>5. StoredMemories(r, m, i, start) = stored
    BY DEF StoredMemories
  <1> HIDE DEF stored
  <1>6. stored[0] = m
    BY <1>4
  <1>7. \A k \in 0 .. 14 : stored[k + 1] = IF InList(i, k) THEN wrote(stored[k], k) ELSE stored[k]
    <2> TAKE k \in 0 .. 14
    <2>1. k + 1 \in 0 .. 15 /\ k + 1 # 0 /\ (k + 1) - 1 = k
      OBVIOUS
    <2> QED BY <1>4, <2>1 DEF wrote
  <1>8. \A k \in 0 .. 15 - 1 : stored[k] \in Within(m, start, Span(i)) => stored[k + 1] \in Within(m, start, Span(i))
    BY <1>1, <1>7
  <1>9. stored[0] \in Within(m, start, Span(i)) /\ 15 \in Nat
    BY <1>2, <1>6
  <1>10. \A k \in 0 .. 15 : stored[k] \in Within(m, start, Span(i))
    BY <1>8, <1>9, LoopInvariant
  <1> QED BY <1>5, <1>10

\* What the loads of LDM leave: only listed registers change.
LEMMA LoadEachTyped ==
  ASSUME NEW r \in RegisterFile, NEW m \in Contents, NEW i \in Instruction,
         NEW start \in Word, NEW junk \in Word
  PROVE  LoadEach(r, m, i, start, junk) \in But(r, {n \in 0 .. 15 : InList(i, n)})
  <1> DEFINE value == LoadedValues(m, i, start, junk)
             listed == {n \in 0 .. 15 : InList(i, n)}
             loaded == [n \in 0 .. 16 |->
                          IF n < PC /\ InList(i, n) THEN value[n + 1] ELSE r[n]]
             v == IF InMemory(AddressOf(i, start, PC)) THEN 0 ELSE Ones - 1
  <1>1. \A k \in 0 .. 15 : value[k] \in Word
    BY LoadedValuesTyped
  <1>2. v \in Word
    <2>1. Ones - 1 \in Word
      BY WordFacts DEF Ones
    <2> QED BY <2>1, WordConstants
  <1>3. LoadEach(r, m, i, start, junk) = IF BBit(i) = 0 /\ InList(i, PC)
                                         THEN WriteRegister(loaded, PC, v) ELSE loaded
    BY DEF LoadEach
  <1> HIDE DEF value, v
  <1>4. loaded \in RegisterFile
    <2>1. ASSUME NEW n \in 0 .. 16, n < PC PROVE n + 1 \in 0 .. 15
      BY <2>1 DEF PC
    <2> QED BY <1>1, <2>1 DEF RegisterFile
  <1>5. \A n \in 0 .. 16 : n \notin listed => loaded[n] = r[n]
    <2> SUFFICES ASSUME NEW n \in 0 .. 16, n < PC, InList(i, n) PROVE n \in listed
      OBVIOUS
    <2> QED BY DEF PC
  <1> HIDE DEF loaded
  <1>6. loaded \in But(r, listed)
    <2> HIDE DEF listed
    <2> QED BY <1>4, <1>5 DEF But
  <1>7. ASSUME InList(i, PC) PROVE WriteRegister(loaded, PC, v) \in But(r, listed)
    <2>1. PC \in 0 .. 16
      BY DEF PC
    <2>2. WriteRegister(loaded, PC, v) \in But(loaded, {PC})
      BY <1>2, <1>4, <2>1, WriteTyped
    <2>3. WriteRegister(loaded, PC, v) \in But(r, listed \cup {PC})
      BY <1>6, <2>2, ButAgain
    <2>4. listed \cup {PC} = listed
      BY <1>7 DEF PC
    <2> QED BY <2>3, <2>4
  <1> HIDE DEF listed
  <1>8. LoadEach(r, m, i, start, junk) \in But(r, listed)
    BY <1>3, <1>6, <1>7
  <1> QED BY <1>8 DEF listed

\* The number of listed registers, and of those below the pc.
LEMMA ListSizes ==
  ASSUME NEW i \in Instruction
  PROVE  LET below == Cardinality({j \in 0 .. PC - 1 : InList(i, j)})
         IN  /\ below \in Nat
             /\ ListSize(i) = IF InList(i, PC) THEN below + 1 ELSE below
  <1> DEFINE S == {j \in 0 .. PC - 1 : InList(i, j)}
             T == {j \in 0 .. 15 : InList(i, j)}
  <1>1. IsFiniteSet(S) /\ Cardinality(S) \in Nat /\ PC \notin S
    <2>1. PC - 1 \in Int /\ S \subseteq 0 .. PC - 1 /\ PC \notin S
      BY DEF PC
    <2> HIDE DEF S
    <2> QED BY <2>1, CountsAreNumbers
  <1>2. T = IF InList(i, PC) THEN S \cup {PC} ELSE S
    <2>1. 0 .. 15 = (0 .. PC - 1) \cup {PC}
      BY DEF PC
    <2> QED BY <2>1
  <1>3. ListSize(i) = Cardinality(T)
    BY DEF ListSize
  <1> HIDE DEF S, T
  <1>4. Cardinality(S \cup {PC}) = Cardinality(S) + 1
    BY <1>1, FS_AddElement
  <1>5. Cardinality(S) \in Nat /\ ListSize(i) = IF InList(i, PC) THEN Cardinality(S) + 1
                                                               ELSE Cardinality(S)
    BY <1>1, <1>2, <1>3, <1>4
  <1> QED BY <1>5 DEF S

\* In the four modes the bounds are the ends of the words of the list.
LEMMA BoundsAre ==
  ASSUME NEW r \in RegisterFile, NEW i \in Instruction
  PROVE  /\ Bounds(r, i).start \in Word
         /\ \E x \in Int : /\ Bounds(r, i).start = x % WordMod
                           /\ Bounds(r, i).end = (x + 4 * ListSize(i) - 4) % WordMod
  <1> DEFINE base == ReadRegister(r, i.rn)
             span == Span(i)
  <1>1. base \in Word /\ base \in Int /\ base % WordMod = base
    <2>1. i.rn \in 0 .. 16
      BY Fields
    <2>2. base \in Word
      BY <2>1, ReadsAreWords
    <2> HIDE DEF base
    <2>3. base \in 0 .. WordMod - 1
      BY <2>2, WordFacts
    <2> QED BY <2>2, <2>3, WordFacts
  <1>2. span = 4 * ListSize(i) /\ span \in Int
    <2>1. ListSize(i) \in Int
      <3> DEFINE below == Cardinality({j \in 0 .. PC - 1 : InList(i, j)})
      <3>1. below \in Nat /\ ListSize(i) = IF InList(i, PC) THEN below + 1 ELSE below
        BY ListSizes
      <3> HIDE DEF below
      <3> QED BY <3>1
    <2> QED BY <2>1 DEF Span
  <1>3. TypeModes(i) \in 0 .. 3
    <2>1. UBit(i) \in {0, 1} /\ BBit(i) \in {0, 1}
      BY Fields
    <2> QED BY <2>1 DEF TypeModes
  <1> HIDE DEF base, span
  <1> DEFINE x == CASE TypeModes(i) = 1 -> base
                    [] TypeModes(i) = 3 -> base + 4
                    [] TypeModes(i) = 0 -> base - (span - 4)
                    [] TypeModes(i) = 2 -> base - span
  <1>4. Bounds(r, i) =
          CASE TypeModes(i) = 1 -> [start |-> base, end |-> (base + (span - 4)) % WordMod]
            [] TypeModes(i) = 3 -> [start |-> (base + 4) % WordMod,
                                    end |-> (base + span) % WordMod]
            [] TypeModes(i) = 0 -> [start |-> (base - (span - 4)) % WordMod, end |-> base]
            [] TypeModes(i) = 2 -> [start |-> (base - span) % WordMod,
                                    end |-> (base - 4) % WordMod]
    BY DEF Bounds, Plus, Minus, base, span
  <1>5. x \in Int /\ x + 4 * ListSize(i) - 4 \in Int
    BY <1>1, <1>2, <1>3
  <1>6. Bounds(r, i).start = x % WordMod
    BY <1>1, <1>3, <1>4
  <1>7. Bounds(r, i).end = (x + 4 * ListSize(i) - 4) % WordMod
    <2>1. x + 4 * ListSize(i) - 4 = x + span - 4
      BY <1>2
    <2>2. CASE TypeModes(i) = 1
      <3>1. x + span - 4 = base + (span - 4)
        BY <1>1, <1>2, <2>2
      <3> QED BY <1>4, <2>1, <2>2, <3>1
    <2>3. CASE TypeModes(i) = 3
      <3>1. x + span - 4 = base + span
        BY <1>1, <1>2, <2>3
      <3> QED BY <1>4, <2>1, <2>3, <3>1
    <2>4. CASE TypeModes(i) = 0
      <3>1. x + span - 4 = base
        BY <1>1, <1>2, <2>4
      <3> QED BY <1>1, <1>4, <2>1, <2>4, <3>1
    <2>5. CASE TypeModes(i) = 2
      <3>1. x + span - 4 = base - 4
        BY <1>1, <1>2, <2>5
      <3> QED BY <1>4, <2>1, <2>5, <3>1
    <2> QED BY <1>3, <2>2, <2>3, <2>4, <2>5
  <1> HIDE DEF x
  <1> QED BY <1>5, <1>6, <1>7, ModWord

\* An assertion fails exactly in a load that does not list the pc, and in a
\* store that does.
LEMMA AssertionsFail ==
  ASSUME NEW r \in RegisterFile, NEW i \in Instruction
  PROVE  LET bounds == Bounds(r, i)
             last == AddressOf(i, bounds.start, PC)
         IN  /\ bounds.end = last <=> InList(i, PC)
             /\ bounds.end = Minus(last, 4) <=> ~InList(i, PC)
  <1> DEFINE start == Bounds(r, i).start
             end == Bounds(r, i).end
             last == AddressOf(i, start, PC)
             below == Cardinality({j \in 0 .. PC - 1 : InList(i, j)})
  <1>1. PICK x \in Int : /\ start = x % WordMod
                         /\ end = (x + 4 * ListSize(i) - 4) % WordMod
    BY BoundsAre
  <1>2. below \in Nat /\ ListSize(i) = IF InList(i, PC) THEN below + 1 ELSE below
    BY ListSizes
  <1>3. last = (start + 4 * below) % WordMod
    BY DEF AddressOf, Plus
  <1>4. WordMod \in Nat /\ WordMod > 0 /\ 4 \in 1 .. WordMod - 1
    BY WordFacts
  <1> HIDE DEF start, end, last, below
  <1> DEFINE y == x + 4 * below
  <1>5. y \in Int /\ y - 4 \in Int /\ (y - 4) + 4 = y
    BY <1>2
  <1>6. last = y % WordMod
    <2> DEFINE d == 4 * below
    <2>1. d \in Int
      BY <1>2
    <2> HIDE DEF d
    <2>2. ((x % WordMod) + d) % WordMod = (x + d) % WordMod
      BY <1>4, <2>1, RemainderOfSum, Zenon
    <2> QED BY <1>1, <1>3, <2>2 DEF d
  <1>7. Minus(last, 4) = (y - 4) % WordMod
    <2> HIDE DEF y
    <2> DEFINE d == -4
    <2>1. d \in Int /\ y + d = y - 4 /\ (y % WordMod) + d = (y % WordMod) - 4
      BY <1>4, <1>5
    <2> HIDE DEF d
    <2>2. ((y % WordMod) + d) % WordMod = (y + d) % WordMod
      BY <1>4, <1>5, <2>1, RemainderOfSum, Zenon
    <2> QED BY <1>6, <2>1, <2>2 DEF Minus
  <1>8. end = IF InList(i, PC) THEN y % WordMod ELSE (y - 4) % WordMod
    <2>1. CASE InList(i, PC)
      <3>1. x + 4 * ListSize(i) - 4 = y
        BY <1>2, <2>1
      <3> QED BY <1>1, <2>1, <3>1
    <2>2. CASE ~InList(i, PC)
      <3>1. x + 4 * ListSize(i) - 4 = y - 4
        BY <1>2, <2>2
      <3> QED BY <1>1, <2>2, <3>1
    <2> QED BY <2>1, <2>2
  <1> HIDE DEF y
  <1>9. y % WordMod # (y - 4) % WordMod
    <2>1. ((y - 4) + 4) % WordMod # (y - 4) % WordMod
      BY <1>4, <1>5, RemaindersDiffer
    <2> QED BY <1>5, <2>1
  <1>10. /\ end = last <=> InList(i, PC)
         /\ end = Minus(last, 4) <=> ~InList(i, PC)
    BY <1>6, <1>7, <1>8, <1>9
  <1> QED BY <1>10 DEF end, last, start

\* The base written back.
LEMMA BasedTyped ==
  ASSUME NEW r \in RegisterFile, NEW i \in Instruction
  PROVE  Based(r, i) \in But(r, IF WBit(i) = 1 THEN {i.rn} ELSE {})
  <1> DEFINE base == ReadRegister(r, i.rn)
             v == IF TypeModes(i) \in {1, 3} THEN Plus(base, Span(i)) ELSE Minus(base, Span(i))
  <1>1. i.rn \in 0 .. 16 /\ WBit(i) \in {0, 1}
    BY Fields
  <1>2. base \in Word
    BY <1>1, ReadsAreWords
  <1>3. base \in Int
    BY <1>2, WordConstants
  <1>4. Span(i) \in Int
    <2> DEFINE below == Cardinality({j \in 0 .. PC - 1 : InList(i, j)})
    <2>1. below \in Nat /\ ListSize(i) = IF InList(i, PC) THEN below + 1 ELSE below
      BY ListSizes
    <2> HIDE DEF below
    <2> QED BY <2>1 DEF Span
  <1>5. v \in Word
    <2> HIDE DEF base
    <2> QED BY <1>3, <1>4, PlusMinusWords
  <1>6. Based(r, i) = IF WBit(i) = 0 THEN r ELSE WriteRegister(r, i.rn, v)
    BY DEF Based
  <1> HIDE DEF v
  <1>7. WriteRegister(r, i.rn, v) \in But(r, {i.rn}) /\ r \in But(r, {})
    BY <1>1, <1>5, WriteTyped, ButItself
  <1> QED BY <1>1, <1>6, <1>7

\* What a multiple transfer leaves.
Multiple(r, m, i) ==
  {o \in Outcomes :
     /\ o.reg \in But(r, {n \in 0 .. 15 : LBit(i) = 1 /\ InList(i, n)}
                           \cup IF WBit(i) = 1 THEN {i.rn} ELSE {})
     /\ o.mem \in Within(m, Bounds(r, i).start, Span(i))
     /\ LBit(i) = 1 => o.mem = m
     /\ o.res = 0
     /\ o.failed <=> (LBit(i) = 1 <=> ~InList(i, PC))}

\* arm_load_store_multiple does nothing else, and stops at an assertion as
\* its list says.
LEMMA MultipleTyped ==
  ASSUME NEW r \in RegisterFile, NEW m \in Contents, NEW i \in Instruction
  PROVE  LoadStoreMultiple(r, m, i) \subseteq Multiple(r, m, i)
  <1> DEFINE start == Bounds(r, i).start
             end == Bounds(r, i).end
             last == AddressOf(i, start, PC)
             b == Based(r, i)
             wb == IF WBit(i) = 1 THEN {i.rn} ELSE {}
             loaded == {n \in 0 .. 15 : LBit(i) = 1 /\ InList(i, n)}
             load(junk) == [reg |-> LoadEach(b, m, i, start, junk), mem |-> m, res |-> 0,
                            failed |-> end # last]
             stored == StoredMemories(b, m, i, start)[PC]
             store == [reg |-> b, mem |-> stored, res |-> 0, failed |-> end # Minus(last, 4)]
  <1>1. start \in Word
    BY BoundsAre
  <1>2. b \in But(r, wb)
    BY BasedTyped
  <1>3. b \in RegisterFile
    BY <1>2 DEF But
  <1>4. /\ end = last <=> InList(i, PC)
        /\ end = Minus(last, 4) <=> ~InList(i, PC)
    BY AssertionsFail
  <1>5. LBit(i) \in {0, 1}
    BY Fields
  <1>6. m \in Within(m, start, Span(i))
    BY DEF Within
  <1>7. LoadStoreMultiple(r, m, i) = IF LBit(i) = 1 THEN {load(junk) : junk \in Junk}
                                                  ELSE {store}
    BY DEF LoadStoreMultiple
  <1>8. stored \in Within(m, start, Span(i))
    <2> HIDE DEF b, start
    <2>1. PC \in 0 .. 15
      BY DEF PC
    <2> QED BY <1>1, <1>3, <2>1, StoredMemoriesTyped
  <1> HIDE DEF start, end, last, b, wb, stored
  <1>9. ASSUME LBit(i) = 1, NEW junk \in Junk PROVE load(junk) \in Multiple(r, m, i)
    <2> DEFINE q == LoadEach(b, m, i, start, junk)
    <2>1. q \in But(b, {n \in 0 .. 15 : InList(i, n)})
      <3>1. junk \in Word
        BY WordConstants
      <3> QED BY <1>1, <1>3, <3>1, LoadEachTyped
    <2>2. {n \in 0 .. 15 : InList(i, n)} = loaded
      BY <1>9
    <2> HIDE DEF q, loaded
    <2>3. q \in But(r, loaded \cup wb)
      <3>1. q \in But(r, wb \cup loaded)
        BY <1>2, <1>3, <2>1, <2>2, ButAgain
      <3>2. wb \cup loaded = loaded \cup wb
        OBVIOUS
      <3> QED BY <3>1, <3>2
    <2>4. q \in RegisterFile
      BY <2>3 DEF But
    <2> QED BY <1>4, <1>6, <1>9, <2>3, <2>4 DEF Multiple, Outcomes, q, loaded, wb, start
  <1>10. ASSUME LBit(i) = 0 PROVE store \in Multiple(r, m, i)
    <2>1. b \in But(r, loaded \cup wb)
      <3> HIDE DEF loaded
      <3>1. wb \subseteq loaded \cup wb
        OBVIOUS
      <3> QED BY <1>2, <3>1, ButMore
    <2>2. stored \in Contents
      BY <1>8 DEF Within
    <2>3. store \in Outcomes
      BY <1>3, <2>2 DEF Outcomes
    <2>4. store.failed <=> InList(i, PC)
      BY <1>4
    <2> QED BY <1>8, <1>10, <2>1, <2>3, <2>4 DEF Multiple, loaded, wb, start
  <1> HIDE DEF load, store
  <1> QED BY <1>5, <1>7, <1>9, <1>10

-----------------------------------------------------------------------------
(* Branches and the pc. *)

\* The offset of a branch, and its extension to a number of 32 bits.
LEMMA OffsetFacts ==
  ASSUME NEW i \in Instruction
  PROVE  /\ Offset24(i) \in Int /\ 2^24 \in Int /\ ExtendedOffset(i) \in Int
         /\ \E k \in Int : 256 * 2^24 = WordMod * k
  <1>1. i.op \in 0 .. 31 /\ i.rn \in 0 .. 15 /\ i.rd \in 0 .. 15 /\ i.lo \in Nat
    BY Fields
  <1>2. 2^20 \in Nat /\ 2^16 \in Nat /\ 2^12 \in Nat /\ 2^24 \in Nat
    OBVIOUS
  <1> DEFINE p == 2^24
  <1>3. Offset24(i) \in Int
    <2> DEFINE a == i.op % 16
               b == i.rn
               c == i.rd
               l == i.lo
    <2>1. a \in Int /\ b \in Int /\ c \in Int /\ l \in Int
      BY <1>1
    <2> HIDE DEF a, b, c, l
    <2>2. a * 2^20 + b * 2^16 + c * 2^12 + l \in Int
      BY <1>2, <2>1
    <2> QED BY <2>2 DEF Offset24, a, b, c, l
  <1>4. ExtendedOffset(i) \in Int
    BY <1>2, <1>3 DEF ExtendedOffset
  <1>5. 256 * p = WordMod * 2^(32 - W) /\ 2^(32 - W) \in Int
    <2> DEFINE k == 32 - W
    <2>1. W \in Nat /\ k \in Nat /\ W + k = 32
      BY WidthFacts
    <2> HIDE DEF k
    <2>2. 2^(W + k) = 2^W * 2^k /\ 2^k \in Nat
      BY <2>1, PowerSum, PowerPositive, Zenon
    <2>3. 256 * p = 2^32
      OBVIOUS
    <2>4. 2^(W + k) = 2^32
      BY <2>1
    <2> HIDE DEF p
    <2>5. 256 * p = WordMod * 2^k /\ 2^k \in Int
      BY <2>2, <2>3, <2>4 DEF WordMod
    <2> QED BY <2>5 DEF k
  <1> QED BY <1>2, <1>3, <1>4, <1>5

\* A backward branch goes forward by the offset less 2^24, in words.
LEMMA BackwardTarget ==
  ASSUME NEW pc \in Word, NEW i \in Instruction, Backward(i)
  PROVE  BranchTarget(pc, i) = Minus(pc, 4 * (2^24 - Offset24(i)))
  <1> DEFINE p == 2^24
             o == Offset24(i)
             e == ExtendedOffset(i)
             f == e % WordMod
             g == (4 * f) % WordMod
             n == (0 - g) % WordMod
  <1>1. o \in Int /\ p \in Int /\ e \in Int /\ pc \in Int /\ WordMod \in Int
    BY OffsetFacts, WordConstants, WordFacts
  <1>2. e = o + 63 * p
    BY DEF ExtendedOffset
  <1>3. PICK k \in Int : 256 * p = WordMod * k
    BY OffsetFacts
  <1>4. BranchTarget(pc, i) = (pc - n) % WordMod
    BY DEF BranchTarget, OffsetBytes, Minus
  <1>5. Minus(pc, 4 * (2^24 - Offset24(i))) = (pc - 4 * (p - o)) % WordMod
    BY DEF Minus
  <1> HIDE DEF p, o, e
  <1>6. f \in Int /\ \E x \in Int : f = e + WordMod * x
    BY <1>1, WordResidue
  <1> HIDE DEF f
  <1>7. 4 * f \in Int
    BY <1>6
  <1>8. g \in Int /\ \E x \in Int : g = 4 * f + WordMod * x
    BY <1>7, WordResidue
  <1> HIDE DEF g
  <1>9. 0 - g \in Int
    BY <1>8
  <1>10. n \in Int /\ \E x \in Int : n = (0 - g) + WordMod * x
    BY <1>9, WordResidue
  <1> HIDE DEF n
  <1>11. PICK x \in Int, y \in Int, z \in Int : /\ f = e + WordMod * x
                                                /\ g = 4 * f + WordMod * y
                                                /\ n = (0 - g) + WordMod * z
    BY <1>6, <1>8, <1>10
  <1> DEFINE a == pc - n
             b == pc - 4 * (p - o)
             d == k + 4 * x + y - z
  <1>12. a \in Int /\ b \in Int /\ d \in Int
    BY <1>1, <1>10
  <1>13. a = b + WordMod * d
    <2> DEFINE wk == WordMod * k
               wx == WordMod * x
               wy == WordMod * y
               wz == WordMod * z
    <2>1. wk \in Int /\ wx \in Int /\ wy \in Int /\ wz \in Int
      BY <1>1
    <2>2. WordMod * d = wk + 4 * wx + wy - wz
      BY <1>1
    <2>3. f = e + wx /\ g = 4 * f + wy /\ n = (0 - g) + wz /\ 256 * p = wk
      BY <1>3, <1>11
    <2> HIDE DEF wk, wx, wy, wz
    <2>4. pc - n = (pc - 4 * (p - o)) + (wk + 4 * wx + wy - wz)
      BY <1>1, <1>2, <1>6, <1>8, <1>10, <2>1, <2>3
    <2> QED BY <2>2, <2>4
  <1> HIDE DEF a, b, d
  <1>14. a % WordMod = b % WordMod
    BY <1>12, <1>13, WordSame
  <1> QED BY <1>4, <1>5, <1>14 DEF a, b

\* A branch changes the pc and, with bit 24, the link register.
LEMMA BranchTyped ==
  ASSUME NEW r \in RegisterFile, NEW i \in Instruction
  PROVE  /\ ArmBranch(r, i) \in But(r, {LinkRegister, PC})
         /\ PBit(i) = 1 => ArmBranch(r, i)[LinkRegister] = Minus(ReadRegister(r, PC), 4)
         /\ ArmBranch(r, i)[PC] = BranchTarget(ReadRegister(r, PC), i)
  <1> DEFINE pc == ReadRegister(r, PC)
             link == WriteRegister(r, LinkRegister, Minus(pc, 4))
             linked == IF PBit(i) = 1 THEN link ELSE r
             target == BranchTarget(pc, i)
             q == WriteRegister(linked, PC, target)
  <1>1. PC \in 0 .. 16 /\ LinkRegister \in 0 .. 16 /\ PC # LinkRegister
    BY DEF PC, LinkRegister
  <1>2. pc \in Word
    BY <1>1, ReadsAreWords
  <1> HIDE DEF pc
  <1>3. pc \in Int /\ 4 \in Int /\ 0 \in Int
    BY <1>2, WordConstants
  <1>4. Minus(pc, 4) \in Word
    BY <1>3, PlusMinusWords
  <1>5. target \in Word
    <2> DEFINE g == OffsetBytes(i)
               n == Minus(0, g)
    <2>1. g \in Int
      <3> DEFINE e == ExtendedOffset(i)
                 f == e % WordMod
      <3>1. e \in Int
        BY OffsetFacts
      <3> HIDE DEF e
      <3>2. f \in Word
        BY <3>1, ModWord
      <3>3. g = (4 * f) % WordMod
        BY DEF OffsetBytes, e
      <3> HIDE DEF f
      <3>4. 4 * f \in Int
        BY <3>2, WordConstants
      <3>5. (4 * f) % WordMod \in Word
        BY <3>4, ModWord
      <3> QED BY <3>3, <3>5, WordConstants
    <2> HIDE DEF g
    <2>2. n \in Word
      BY <1>3, <2>1, PlusMinusWords
    <2> HIDE DEF n
    <2>3. n \in Int
      BY <2>2, WordConstants
    <2>4. Minus(pc, n) \in Word /\ Plus(pc, n) \in Word
      BY <1>3, <2>3, PlusMinusWords
    <2> QED BY <2>4 DEF BranchTarget, n, g
  <1> HIDE DEF target
  <1>6. link \in But(r, {LinkRegister}) /\ link[LinkRegister] = Minus(pc, 4)
    BY <1>1, <1>4, WriteTyped
  <1>7. r \in But(r, {LinkRegister})
    BY ButItself
  <1> HIDE DEF link
  <1>8. linked \in But(r, {LinkRegister}) /\ (PBit(i) = 1 => linked[LinkRegister] = Minus(pc, 4))
    BY <1>6, <1>7
  <1> HIDE DEF linked
  <1>9. linked \in RegisterFile
    BY <1>8 DEF But
  <1>10. q \in But(linked, {PC}) /\ q[PC] = target
    BY <1>1, <1>5, <1>9, WriteTyped
  <1>11. ArmBranch(r, i) = q
    BY DEF ArmBranch, pc, link, linked, target
  <1> HIDE DEF q
  <1>12. q \in But(r, {LinkRegister, PC})
    <2>1. q \in But(r, {LinkRegister} \cup {PC})
      BY <1>8, <1>10, ButAgain
    <2>2. {LinkRegister} \cup {PC} = {LinkRegister, PC}
      OBVIOUS
    <2> QED BY <2>1, <2>2
  <1>13. q[LinkRegister] = linked[LinkRegister]
    BY <1>1, <1>10 DEF But
  <1> QED BY <1>8, <1>10, <1>11, <1>12, <1>13 DEF pc, target

\* The pc read has its bit 1 clear, and from such an address the next one that
\* is fetched reads as 4 more.
LEMMA NextPc ==
  ASSUME NEW r \in RegisterFile, NEW q \in RegisterFile,
         q[PC] = Plus(Minus(ReadRegister(r, PC), 4), 4)
  PROVE  Minus(ReadRegister(q, PC), 4) = q[PC]
  <1> DEFINE p == ReadRegister(r, PC)
             u == Plus(r[PC], 4)
             b == Minus(p, 4)
             v == Plus(q[PC], 4)
             quarter == 4 * 2^V
  <1>1. WordMod = 4 * quarter /\ quarter \in Nat /\ quarter > 0
    BY FlagWeights
  <1>2. r[PC] \in Word /\ q[PC] \in Word
    BY DEF RegisterFile, PC
  <1>3. r[PC] \in Int /\ q[PC] \in Int /\ 4 \in Int
    <2> DEFINE x == r[PC]
               y == q[PC]
    <2>1. x \in Word /\ y \in Word
      BY <1>2
    <2> HIDE DEF x, y
    <2>2. x \in Int /\ y \in Int /\ 4 \in Int
      BY <2>1, WordConstants
    <2> QED BY <2>2 DEF x, y
  <1>4. u \in Word /\ v \in Word
    BY <1>3, PlusMinusWords
  <1>5. p \in Word
    <2>1. PC \in 0 .. 16
      BY DEF PC
    <2> QED BY <2>1, ReadsAreWords
  <1>6. p = u - 2 * ((u \div 2) % 2)
    <2>1. Bit(u, 1) = (u \div 2) % 2
      BY DEF Bit
    <2> QED BY <2>1 DEF ReadRegister
  <1>7. ReadRegister(q, PC) = v - 2 * ((v \div 2) % 2)
    <2>1. Bit(v, 1) = (v \div 2) % 2
      BY DEF Bit
    <2> QED BY <2>1 DEF ReadRegister
  <1>8. v = (q[PC] + 4) % WordMod /\ q[PC] = (b + 4) % WordMod /\ b = (p - 4) % WordMod
    BY DEF Plus, Minus
  <1> HIDE DEF p, u, b, v, quarter
  <1>9. u \in Nat /\ v \in Nat /\ p \in Int /\ p - 4 \in Int
    BY <1>4, <1>5, WordConstants
  <1>10. p % 4 \in {0, 1}
    BY <1>6, <1>9
  <1>11. b \in Int /\ \E k \in Int : b = (p - 4) + WordMod * k
    BY <1>8, <1>9, WordResidue
  <1>12. q[PC] = p
    <2>1. PICK k \in Int : b = (p - 4) + WordMod * k
      BY <1>11
    <2> DEFINE a == b + 4
    <2>2. a \in Int /\ a = p + WordMod * k
      <3> DEFINE w == WordMod * k
      <3>1. w \in Int
        BY <1>1
      <3> HIDE DEF w
      <3>2. b = (p - 4) + w
        BY <2>1 DEF w
      <3>3. a \in Int /\ a = p + w
        BY <1>9, <3>1, <3>2
      <3> QED BY <3>3 DEF w
    <2> HIDE DEF a
    <2>3. a % WordMod = p % WordMod
      BY <1>9, <2>2, WordSame
    <2> QED BY <1>5, <1>8, <2>3, WordItself DEF a
  <1>13. v % 4 = p % 4
    <2>1. p + 4 \in Int
      BY <1>9
    <2>2. PICK k \in Int : v = (p + 4) + WordMod * k
      BY <1>8, <1>12, <2>1, WordResidue
    <2> DEFINE t == quarter * k
    <2>3. t \in Int
      BY <1>1
    <2>4. v = p + 4 * (t + 1)
      BY <1>1, <1>9, <2>2
    <2> HIDE DEF t
    <2> QED BY <1>9, <2>3, <2>4
  <1>14. ReadRegister(q, PC) = v
    BY <1>7, <1>9, <1>10, <1>13
  <1>15. (v - 4) % WordMod = p
    <2>1. p + 4 \in Int /\ v - 4 \in Int
      BY <1>9
    <2>2. PICK k \in Int : v = (p + 4) + WordMod * k
      BY <1>8, <1>12, <2>1, WordResidue
    <2> DEFINE w == WordMod * k
               a == v - 4
    <2>3. w \in Int
      BY <1>1
    <2>4. v = (p + 4) + w
      BY <2>2
    <2> HIDE DEF w
    <2>5. a = p + w
      BY <1>9, <2>3, <2>4
    <2>6. a \in Int /\ a = p + WordMod * k
      BY <2>1, <2>5 DEF w
    <2> HIDE DEF a
    <2>7. a % WordMod = p % WordMod
      BY <1>9, <2>6, WordSame
    <2> QED BY <1>5, <2>7, WordItself DEF a
  <1> QED BY <1>12, <1>14, <1>15 DEF Minus

-----------------------------------------------------------------------------
(* The flags of additions and subtractions. *)

\* The overflow of an addition or a subtraction of two words, from their
\* signs and that of the result, is that of the exact signed result.
LEMMA OverflowExact ==
  ASSUME NEW h \in Nat, h > 0, WordMod = 2 * h, h = 2^N,
         NEW a \in Word, NEW b \in Word
  PROVE  LET s(x) == IF x >= h THEN x - WordMod ELSE x
         IN  /\ OverflowFrom(a, b, Plus(a, b), TRUE) = 1
                  <=> s(a) + s(b) \notin -h .. h - 1
             /\ OverflowFrom(a, b, Minus(a, b), FALSE) = 1
                  <=> s(a) - s(b) \notin -h .. h - 1
  <1> DEFINE s(x) == IF x >= h THEN x - WordMod ELSE x
             p == Plus(a, b)
             m == Minus(a, b)
  <1>1. a \in 0 .. 2 * h - 1 /\ b \in 0 .. 2 * h - 1
    BY WordFacts
  <1>2. p \in Word /\ m \in Word
    <2>1. a \in Int /\ b \in Int
      BY WordConstants
    <2> QED BY <2>1, PlusMinusWords
  <1>3. p = IF a + b >= 2 * h THEN a + b - 2 * h ELSE a + b
    <2>1. CASE a + b >= 2 * h
      <3> DEFINE c == a + b
                 d == a + b - 2 * h
      <3>1. c \in Int /\ d \in Word /\ c = d + WordMod * 1 /\ d \in Int
        BY <1>1, <2>1, WordFacts
      <3> HIDE DEF c, d
      <3>2. c % WordMod = d % WordMod
        BY <3>1, WordSame
      <3>3. c % WordMod = d
        BY <3>1, <3>2, WordItself
      <3> QED BY <2>1, <3>3 DEF Plus, c, d
    <2>2. CASE ~(a + b >= 2 * h)
      <3> DEFINE c == a + b
      <3>1. c \in Word
        BY <1>1, <2>2, WordFacts
      <3> HIDE DEF c
      <3>2. c % WordMod = c
        BY <3>1, WordItself
      <3> QED BY <2>2, <3>2 DEF Plus, c
    <2> QED BY <2>1, <2>2
  <1>4. m = IF a < b THEN a - b + 2 * h ELSE a - b
    <2>1. CASE a < b
      <3> DEFINE c == a - b
                 d == a - b + 2 * h
      <3>1. c \in Int /\ d \in Word /\ c = d + WordMod * (-1) /\ d \in Int
        <4>1. WordMod * (-1) = -(2 * h)
          OBVIOUS
        <4>2. d \in 0 .. 2 * h - 1 /\ c \in Int /\ c = d - 2 * h
          BY <1>1, <2>1
        <4>3. d \in Word
          BY <4>2, WordFacts
        <4> HIDE DEF c, d
        <4>4. c = d + WordMod * (-1) /\ d \in Int
          BY <4>1, <4>2
        <4> QED BY <4>2, <4>3, <4>4
      <3> HIDE DEF c, d
      <3>2. c % WordMod = d % WordMod
        BY <3>1, WordSame
      <3>3. c % WordMod = d
        BY <3>1, <3>2, WordItself
      <3> QED BY <2>1, <3>3 DEF Minus, c, d
    <2>2. CASE ~(a < b)
      <3> DEFINE c == a - b
      <3>1. c \in Word
        BY <1>1, <2>2, WordFacts
      <3> HIDE DEF c
      <3>2. c % WordMod = c
        BY <3>1, WordItself
      <3> QED BY <2>2, <3>2 DEF Minus, c
    <2> QED BY <2>1, <2>2
  <1> HIDE DEF p, m
  <1>5. /\ Bit(a, N) = IF a >= h THEN 1 ELSE 0
        /\ Bit(b, N) = IF b >= h THEN 1 ELSE 0
        /\ Bit(p, N) = IF p >= h THEN 1 ELSE 0
        /\ Bit(m, N) = IF m >= h THEN 1 ELSE 0
    BY <1>2, SignBit
  <1>6. /\ OverflowFrom(a, b, p, TRUE) = 1
             <=> Bit(a, N) = Bit(b, N) /\ Bit(a, N) # Bit(p, N)
        /\ OverflowFrom(a, b, m, FALSE) = 1
             <=> Bit(a, N) # Bit(b, N) /\ Bit(a, N) # Bit(m, N)
    BY DEF OverflowFrom
  <1>7. /\ OverflowFrom(a, b, p, TRUE) = 1
             <=> ((a >= h <=> b >= h) /\ ~(a >= h <=> p >= h))
        /\ OverflowFrom(a, b, m, FALSE) = 1
             <=> (~(a >= h <=> b >= h) /\ ~(a >= h <=> m >= h))
    <2>1. /\ (Bit(a, N) = Bit(b, N)) <=> (a >= h <=> b >= h)
          /\ (Bit(a, N) = Bit(p, N)) <=> (a >= h <=> p >= h)
          /\ (Bit(a, N) = Bit(m, N)) <=> (a >= h <=> m >= h)
      BY <1>5
    <2> QED BY <1>6, <2>1
  <1>8. /\ ((a >= h <=> b >= h) /\ ~(a >= h <=> p >= h)) <=> s(a) + s(b) \notin -h .. h - 1
        /\ (~(a >= h <=> b >= h) /\ ~(a >= h <=> m >= h)) <=> s(a) - s(b) \notin -h .. h - 1
    BY <1>1, <1>3, <1>4
  <1> HIDE DEF s
  <1>9. /\ OverflowFrom(a, b, p, TRUE) = 1 <=> s(a) + s(b) \notin -h .. h - 1
        /\ OverflowFrom(a, b, m, FALSE) = 1 <=> s(a) - s(b) \notin -h .. h - 1
    BY <1>7, <1>8
  <1> QED BY <1>9 DEF s, p, m
=============================================================================
