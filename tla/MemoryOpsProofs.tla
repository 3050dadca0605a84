-------------------------- MODULE MemoryOpsProofs --------------------------
(***************************************************************************)
(* The accesses of memory.c as functions of the contents, for every size   *)
(* and base: what they read, and what they leave.                          *)
(***************************************************************************)
EXTENDS MemoryOps, TLAPS

\* A quotient by a digit's weight, cut to a byte, is a byte.
LEMMA CutIsByte == ASSUME NEW x \in Int PROVE x % Base \in Byte
  BY MemoryAssumption DEF Byte

\* A digit is worth a positive integer.
LEMMA WeightPositive == \A k \in 0 .. 3 : Weight(k) \in Nat /\ Weight(k) > 0
  <1>1. Base \in Nat /\ Base > 0
    BY MemoryAssumption
  <1>2. Base * Base \in Nat /\ Base * Base > 0
    BY <1>1
  <1>3. Base * Base * Base \in Nat /\ Base * Base * Base > 0
    BY <1>1, <1>2
  <1> QED
    BY <1>1, <1>2, <1>3 DEF Weight

\* What the write loops store is a byte.
LEMMA StoredIsByte ==
  ASSUME NEW b \in BOOLEAN, NEW n \in 1 .. 4, NEW v \in Int, NEW i \in 0 .. n - 1
  PROVE  StoredByte(b, n, v, i) \in Byte
  <1> DEFINE p == Place(b, n, i)
  <1>1. p \in 0 .. 3
    BY DEF Place
  <1>2. Weight(p) \in Nat /\ Weight(p) > 0
    BY <1>1, WeightPositive
  <1>3. (v + p) \div Weight(p) \in Int
    BY <1>1, <1>2
  <1> QED
    BY <1>3, CutIsByte DEF StoredByte

\* A write leaves contents, and only bytes a .. n-1 changed.
LEMMA WriteBytesKeeps ==
  ASSUME NEW m \in Contents, NEW b \in BOOLEAN, NEW n \in 1 .. 4,
         NEW a \in Nat, NEW v \in Int
  PROVE  /\ WriteBytes(m, b, n, a, v) \in Contents
         /\ \A i \in Position : WriteBytes(m, b, n, a, v)[i] # m[i] => a <= i /\ i < n
  <1>1. \A i \in Position : a <= i /\ i < n => StoredByte(b, n, v, i) \in Byte
    BY StoredIsByte, MemoryAssumption DEF Position
  <1> QED
    BY <1>1 DEF WriteBytes, Contents

\* The digit of a byte is an integer, hence so are the halves and the words.
LEMMA ReadsAreIntegers ==
  ASSUME NEW m \in Contents, NEW b \in BOOLEAN, NEW a \in Nat
  PROVE  ReadHalf(m, b) \in Int /\ ReadWord(m, b, a) \in Int
  <1>1. \A n \in 1 .. 4 : \A i \in 0 .. n - 1 : Digit(m, b, n, i) \in Int
    <2> SUFFICES ASSUME NEW n \in 1 .. 4, NEW i \in 0 .. n - 1
                 PROVE  Digit(m, b, n, i) \in Int
      OBVIOUS
    <2>1. Place(b, n, i) \in 0 .. 3
      BY DEF Place
    <2>2. Weight(Place(b, n, i)) \in Int
      BY <2>1, WeightPositive
    <2>3. m[i] \in Int
      BY MemoryAssumption DEF Contents, Position, Byte
    <2> QED
      BY <2>2, <2>3 DEF Digit
  <1>2. ReadHalf(m, b) \in Int
    BY <1>1 DEF ReadHalf
  <1>3. \A i \in 0 .. 3 : (IF a <= i THEN Digit(m, b, 4, i) ELSE 0) \in Int
    BY <1>1
  <1> QED
    BY <1>2, <1>3 DEF ReadWord

\* Bytes, halves and words are integers.
LEMMA ValuesAreIntegers == Half \subseteq Int /\ Word \subseteq Int /\ Byte \subseteq Int
  BY DEF Half, Word, Byte

-----------------------------------------------------------------------------
(* The values read and written. *)

\* What the loops of the reads add up, written as a number in base Base.
LEMMA ReadsInOrder ==
  ASSUME NEW m \in Contents, NEW b \in BOOLEAN
  PROVE  /\ ReadHalf(m, b) = IF b THEN m[0] * Base + m[1] ELSE m[1] * Base + m[0]
         /\ ReadWord(m, b, 0) =
              IF b THEN ((m[0] * Base + m[1]) * Base + m[2]) * Base + m[3]
                   ELSE ((m[3] * Base + m[2]) * Base + m[1]) * Base + m[0]
  <1>1. /\ m[0] \in Int /\ m[1] \in Int /\ m[2] \in Int /\ m[3] \in Int
        /\ Base \in Int
    BY MemoryAssumption DEF Contents, Position, Byte
  <1>2. /\ Weight(0) = 1 /\ Weight(1) = Base
        /\ Weight(2) = Base * Base /\ Weight(3) = Base * Base * Base
    BY DEF Weight
  <1>3. \A i \in 0 .. 1 : Digit(m, b, 2, i) = m[i] * Weight(IF b THEN 1 - i ELSE i)
    BY DEF Digit, Place
  <1>4. \A i \in 0 .. 3 : Digit(m, b, 4, i) = m[i] * Weight(IF b THEN 3 - i ELSE i)
    BY DEF Digit, Place
  <1>5. ReadHalf(m, b) = IF b THEN m[0] * Base + m[1] ELSE m[1] * Base + m[0]
    BY <1>1, <1>2, <1>3 DEF ReadHalf
  <1>6. ReadWord(m, b, 0) = Digit(m, b, 4, 0) + Digit(m, b, 4, 1)
                              + Digit(m, b, 4, 2) + Digit(m, b, 4, 3)
    BY DEF ReadWord
  <1>7. CASE b
    <2>1. /\ Digit(m, b, 4, 0) = m[0] * (Base * Base * Base)
          /\ Digit(m, b, 4, 1) = m[1] * (Base * Base)
          /\ Digit(m, b, 4, 2) = m[2] * Base /\ Digit(m, b, 4, 3) = m[3]
      <3>1. \A i \in 0 .. 3 : Digit(m, b, 4, i) = m[i] * Weight(3 - i)
        BY <1>4, <1>7
      <3>2. 3 - 0 = 3 /\ 3 - 1 = 2 /\ 3 - 2 = 1 /\ 3 - 3 = 0
        OBVIOUS
      <3>3. /\ Digit(m, b, 4, 0) = m[0] * Weight(3) /\ Digit(m, b, 4, 1) = m[1] * Weight(2)
            /\ Digit(m, b, 4, 2) = m[2] * Weight(1) /\ Digit(m, b, 4, 3) = m[3] * Weight(0)
        BY <3>1, <3>2
      <3> QED
        BY <1>1, <1>2, <3>3
    <2>2. ((m[0] * Base + m[1]) * Base + m[2]) * Base + m[3]
            = m[0] * (Base * Base * Base) + m[1] * (Base * Base) + m[2] * Base + m[3]
      BY <1>1
    <2> QED
      BY <1>5, <1>6, <1>7, <2>1, <2>2
  <1>8. CASE ~b
    <2>1. /\ Digit(m, b, 4, 3) = m[3] * (Base * Base * Base)
          /\ Digit(m, b, 4, 2) = m[2] * (Base * Base)
          /\ Digit(m, b, 4, 1) = m[1] * Base /\ Digit(m, b, 4, 0) = m[0]
      BY <1>1, <1>2, <1>4, <1>8
    <2> QED
      BY <1>1, <1>5, <1>6, <1>8, <2>1
  <1> QED
    BY <1>7, <1>8

\* Adding less than a divisor moves a quotient by one at most.
LEMMA AddedBeforeShift ==
  ASSUME NEW x \in Nat, NEW p \in Nat, NEW w \in Nat, p < w
  PROVE  (x + p) \div w \in {x \div w, x \div w + 1}
  <1> DEFINE q == x \div w
             y == (x + p) \div w
  <1>1. q \in Int /\ y \in Int /\ w > 0
    OBVIOUS
  <1>2. w * q <= x /\ x < w * q + w
    OBVIOUS
  <1>3. w * y <= x + p /\ x + p < w * y + w
    OBVIOUS
  <1> HIDE DEF q, y
  <1>4. y >= q
    <2>1. w * q < w * (y + 1)
      BY <1>1, <1>2, <1>3
    <2>2. q >= y + 1 => w * q >= w * (y + 1)
      BY <1>1
    <2> QED
      BY <1>1, <2>1, <2>2
  <1>5. y <= q + 1
    <2>1. w * y < w * (q + 2)
      BY <1>1, <1>2, <1>3
    <2>2. y >= q + 2 => w * y >= w * (q + 2)
      BY <1>1
    <2> QED
      BY <1>1, <2>1, <2>2
  <1> QED
    BY <1>1, <1>4, <1>5 DEF q, y

\* The remainder is the one that is less than the divisor.
LEMMA RemainderUnique ==
  ASSUME NEW b \in Nat, b > 0, NEW n \in Int, NEW k \in Int, NEW r \in 0 .. b - 1,
         n = b * k + r
  PROVE  n % b = r
  <1> DEFINE h == n \div b
             s == n % b
  <1>1. h \in Int /\ s \in 0 .. b - 1
    OBVIOUS
  <1>2. b * h + s = b * k + r
    OBVIOUS
  <1> HIDE DEF h, s
  <1>3. b * (h - k) = r - s
    BY <1>1, <1>2
  <1>4. h - k >= 1 => b * (h - k) >= b
    BY <1>1
  <1>5. h - k <= -1 => b * (h - k) <= -b
    BY <1>1
  <1>6. h = k
    BY <1>1, <1>3, <1>4, <1>5
  <1>7. s = r
    BY <1>1, <1>3, <1>6
  <1> QED
    BY <1>7 DEF s

\* The successor of a number cut to a digit is that of its digit.
LEMMA NextDigit ==
  ASSUME NEW b \in Nat, b > 1, NEW q \in Int
  PROVE  (q + 1) % b = ((q % b) + 1) % b
  <1> DEFINE k == q \div b
             r == q % b
  <1>1. k \in Int /\ r \in 0 .. b - 1 /\ q = b * k + r
    OBVIOUS
  <1> HIDE DEF k, r
  <1>2. CASE r + 1 < b
    <2>1. q + 1 = b * k + (r + 1) /\ r + 1 \in 0 .. b - 1 /\ q + 1 \in Int
      BY <1>1, <1>2
    <2>2. (q + 1) % b = r + 1
      BY <1>1, <2>1, RemainderUnique
    <2>3. (r + 1) % b = r + 1
      BY <2>1
    <2> QED
      BY <2>2, <2>3 DEF r
  <1>3. CASE r + 1 = b
    <2> DEFINE z == r + 1 - b
               n == k + 1
    <2>1. z \in 0 .. b - 1 /\ n \in Int /\ q + 1 \in Int /\ q + 1 = b * n + z
      BY <1>1, <1>3
    <2>2. z = 0
      BY <1>1, <1>3
    <2> HIDE DEF z, n
    <2>3. (q + 1) % b = 0
      <3>1. (q + 1) % b = z
        <4>1. b > 0
          OBVIOUS
        <4> QED
          BY <2>1, <4>1, RemainderUnique, Zenon
      <3> QED
        BY <2>2, <3>1
    <2>4. b % b = 0
      OBVIOUS
    <2> QED
      BY <1>3, <2>3, <2>4 DEF r
  <1> QED
    BY <1>1, <1>2, <1>3

\* A place is less than what one unit of its digit is worth.
LEMMA PlaceBelowWeight == \A k \in 0 .. 3 : k < Weight(k)
  <1>1. Base \in Nat /\ Base >= 4
    BY MemoryAssumption
  <1>2. Base * Base \in Nat /\ Base * Base >= 16
    BY <1>1
  <1>3. Base * Base * Base \in Nat /\ Base * Base * Base >= 4
    BY <1>1, <1>2
  <1> QED
    BY <1>1, <1>2, <1>3 DEF Weight

\* The byte a write stores is the digit of its place, or that digit plus one, and
\* the digit itself at place 0.
LEMMA StoredIsDigitOrNext ==
  ASSUME NEW b \in BOOLEAN, NEW v \in Nat, NEW i \in 0 .. 3
  PROVE  LET digit == (v \div Weight(Place(b, 4, i))) % Base
         IN  \/ StoredByte(b, 4, v, i) = digit
             \/ /\ StoredByte(b, 4, v, i) = (digit + 1) % Base
                /\ Place(b, 4, i) # 0
  <1> DEFINE p == Place(b, 4, i)
             w == Weight(p)
             q == v \div w
  <1>1. p \in 0 .. 3 /\ w \in Nat /\ w > 0 /\ p < w
    BY WeightPositive, PlaceBelowWeight DEF Place
  <1>2. q \in Int /\ Base \in Nat /\ Base > 0
    BY <1>1, MemoryAssumption
  <1>3. StoredByte(b, 4, v, i) = ((v + p) \div w) % Base
    BY DEF StoredByte
  <1> HIDE DEF p, w
  <1>4. CASE p = 0
    BY <1>1, <1>3, <1>4 DEF p, w
  <1>5. CASE p # 0
    <2>1. (v + p) \div w \in {q, q + 1}
      BY <1>1, AddedBeforeShift
    <2> HIDE DEF q
    <2>2. (q + 1) % Base = ((q % Base) + 1) % Base
      <3>1. Base > 1
        BY MemoryAssumption
      <3> QED
        BY <1>2, <3>1, NextDigit
    <2>3. StoredByte(b, 4, v, i) \in {q % Base, ((q % Base) + 1) % Base}
      BY <1>3, <2>1, <2>2
    <2> QED
      BY <1>5, <2>3 DEF p, w, q
  <1> QED
    BY <1>4, <1>5

\* What is read is a half or a word.
LEMMA ReadsTyped ==
  ASSUME NEW m \in Contents, NEW b \in BOOLEAN, NEW a \in Nat
  PROVE  ReadHalf(m, b) \in Half /\ ReadWord(m, b, a) \in Word
  <1>1. Base \in Nat /\ Base >= 4
    BY MemoryAssumption
  <1>2. m[0] \in Byte /\ m[1] \in Byte /\ m[2] \in Byte /\ m[3] \in Byte
    BY MemoryAssumption DEF Contents, Position
  <1>3. ASSUME NEW x \in Nat, NEW k \in Nat, x < k, NEW d \in Byte
        PROVE  x * Base + d \in 0 .. k * Base - 1
    <2>1. (x + 1) * Base <= k * Base
      BY <1>1, <1>3
    <2>2. d \in 0 .. Base - 1 /\ (x + 1) * Base = x * Base + Base
          /\ x * Base \in Nat /\ k * Base \in Nat
      BY <1>1, <1>3 DEF Byte
    <2> QED BY <1>1, <2>1, <2>2
  <1> DEFINE h(x, y) == x * Base + y
             w(x, y, z, t) == (h(x, y) * Base + z) * Base + t
  <1>4. ASSUME NEW x \in Byte, NEW y \in Byte PROVE h(x, y) \in 0 .. Base * Base - 1
    <2>1. x \in Nat /\ x < Base
      BY <1>1, <1>4 DEF Byte
    <2> QED BY <1>1, <1>3, <1>4, <2>1
  <1>5. ASSUME NEW x \in Byte, NEW y \in Byte, NEW z \in Byte, NEW t \in Byte
        PROVE  w(x, y, z, t) \in 0 .. Base * Base * Base * Base - 1
    <2> DEFINE g == h(x, y)
               k == Base * Base
               l == Base * Base * Base
    <2>1. k \in Nat /\ l \in Nat /\ l = k * Base
      BY <1>1
    <2>2. g \in Nat /\ g < k
      <3>1. g \in 0 .. k - 1
        BY <1>4
      <3> HIDE DEF g, k
      <3> QED BY <2>1, <3>1
    <2> HIDE DEF g, k
    <2>3. g * Base + z \in 0 .. k * Base - 1
      BY <1>3, <2>1, <2>2
    <2> DEFINE f == g * Base + z
    <2>4. f \in Nat /\ f < l
      <3> HIDE DEF f, l
      <3> QED BY <2>1, <2>3 DEF f
    <2> HIDE DEF f, l
    <2>5. f * Base + t \in 0 .. l * Base - 1
      BY <1>3, <2>1, <2>4
    <2> QED BY <2>5 DEF f, g, l
  <1>6. ReadHalf(m, b) \in Half
    BY <1>2, <1>4, ReadsInOrder DEF Half
  <1>7. ReadWord(m, b, 0) \in Word
    <2> HIDE DEF w
    <2>1. ReadWord(m, b, 0) = IF b THEN w(m[0], m[1], m[2], m[3])
                                   ELSE w(m[3], m[2], m[1], m[0])
      BY ReadsInOrder DEF w
    <2> QED BY <1>2, <1>5, <2>1 DEF Word
  <1>8. ReadWord(m, b, a) \in 0 .. ReadWord(m, b, 0)
    <2>1. \A i \in 0 .. 3 : Digit(m, b, 4, i) \in Nat
      <3> TAKE i \in 0 .. 3
      <3>1. Place(b, 4, i) \in 0 .. 3
        BY DEF Place
      <3>2. Weight(Place(b, 4, i)) \in Nat
        BY <3>1, WeightPositive
      <3>3. m[i] \in Nat
        BY <1>1, <1>2 DEF Byte
      <3> QED BY <3>2, <3>3 DEF Digit
    <2> DEFINE From(i) == IF a <= i THEN Digit(m, b, 4, i) ELSE 0
    <2>2. \A i \in 0 .. 3 : From(i) \in 0 .. Digit(m, b, 4, i)
      BY <2>1
    <2>3. ReadWord(m, b, a) = From(0) + From(1) + From(2) + From(3)
      BY DEF ReadWord
    <2>4. ReadWord(m, b, 0) = Digit(m, b, 4, 0) + Digit(m, b, 4, 1)
                                + Digit(m, b, 4, 2) + Digit(m, b, 4, 3)
      BY DEF ReadWord
    <2> HIDE DEF From
    <2> QED BY <2>1, <2>2, <2>3, <2>4
  <1>9. \A x \in Word : 0 .. x \subseteq Word
    <2> DEFINE top == Base * Base * Base * Base
    <2>1. top \in Int
      BY <1>1
    <2> HIDE DEF top
    <2>2. \A x \in 0 .. top - 1 : 0 .. x \subseteq 0 .. top - 1
      BY <2>1
    <2> QED BY <2>2 DEF Word, top
  <1> QED BY <1>6, <1>7, <1>8, <1>9
=============================================================================
