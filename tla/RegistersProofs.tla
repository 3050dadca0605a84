--------------------------- MODULE RegistersProofs ---------------------------
(***************************************************************************)
(* The numbers and the registers that the proofs of the components rest    *)
(* on: the induction over the naturals in its form with sets, loops        *)
(* written as recursive functions, powers of two, quotients and            *)
(* remainders; words of any width and the accesses of registers.c.         *)
(***************************************************************************)
EXTENDS Registers, WellFoundedInduction, FiniteSetTheorems, TLAPS

(* Induction. The theorems of the library take the induction hypothesis as *)
(* an operator; here it is a set.                                          *)

\* A set of naturals that is not empty has a least member: by a well-founded
\* relation that is the order of the naturals,
LEMMA LeastBy ==
  ASSUME NEW R, IsWellFoundedOn(R, Nat), \A x, y \in Nat : <<x, y>> \in R <=> x < y,
         NEW T, T \subseteq Nat, T # {}
  PROVE  \E x \in T : \A y \in T : x <= y
  <1>2. \E x \in T : \A y \in T : ~ (<<y, x>> \in R)
    BY ONLY IsWellFoundedOn(R, Nat), T \subseteq Nat, T # {}, WFMin
  <1>3. PICK x \in T : \A y \in T : ~ (<<y, x>> \in R)
    BY <1>2
  <1>4. \A y \in T : x <= y
    <2> TAKE y \in T
    <2>1. x \in Nat /\ y \in Nat /\ ~(y < x)
      BY <1>3
    <2> QED BY <2>1
  <1> QED BY <1>4

\* there is one,
LEMMA NatWF == \E R : IsWellFoundedOn(R, Nat) /\ \A x, y \in Nat : <<x, y>> \in R <=> x < y
  <1>1. IsWellFoundedOn(OpToRel(<, Nat), Nat)
    BY NatLessThanWellFounded
  <1>2. \A x, y \in Nat : <<x, y>> \in OpToRel(<, Nat) <=> x < y
    BY DEF OpToRel
  <1> WITNESS OpToRel(<, Nat)
  <1> QED BY <1>1, <1>2

\* and so it has.
LEMMA LeastMember ==
  ASSUME NEW T, T \subseteq Nat, T # {}
  PROVE  \E x \in T : \A y \in T : x <= y
  BY NatWF, LeastBy

\* A set of naturals that has 0 and the successor of each of its members.
LEMMA Induction ==
  ASSUME NEW S, 0 \in S, \A n \in Nat : n \in S => n + 1 \in S
  PROVE  Nat \subseteq S
  <1> DEFINE T == Nat \ S
  <1> SUFFICES ASSUME T # {} PROVE FALSE OBVIOUS
  <1>1. PICK x \in T : \A y \in T : x <= y
    BY LeastMember
  <1>2. x # 0 /\ x - 1 \in Nat OBVIOUS
  <1>3. x - 1 \in S BY <1>1, <1>2
  <1> QED BY <1>1, <1>2, <1>3

\* An invariant of a loop of n turns, given as the values of a variable.
LEMMA LoopInvariant ==
  ASSUME NEW n \in Nat, NEW S, NEW f, f[0] \in S,
         \A k \in 0 .. n - 1 : f[k] \in S => f[k + 1] \in S
  PROVE  \A k \in 0 .. n : f[k] \in S
  <1> DEFINE T == {k \in Nat : k <= n => f[k] \in S}
  <1>1. 0 \in T
    OBVIOUS
  <1>2. ASSUME NEW k \in Nat, k \in T PROVE k + 1 \in T
    BY <1>2
  <1>3. Nat \subseteq T
    <2> HIDE DEF T
    <2> QED BY <1>1, <1>2, Induction
  <1> QED BY <1>3

\* The loops of n turns over the values of S, and the values f of a variable
\* in one of them, from its first.
Loop(n, S) == [(0 .. n - 1) \X S -> S]
Runs(f, n, S, init, step) == /\ f \in [0 .. n -> S]
                             /\ f[0] = init
                             /\ \A k \in 0 .. n - 1 : f[k + 1] = step[<<k, f[k]>>]

\* A loop has a run.
LEMMA LoopExists ==
  ASSUME NEW n \in Nat, NEW S, NEW init \in S, NEW step \in Loop(n, S)
  PROVE  \E f : Runs(f, n, S, init, step)
  <1> DEFINE T == {m \in Nat : m <= n => \E f : Runs(f, m, S, init, step)}
  <1>1. 0 \in T
    <2>1. Runs([k \in 0 .. 0 |-> init], 0, S, init, step)
      BY DEF Runs
    <2> QED BY <2>1
  <1>2. ASSUME NEW m \in Nat, m \in T PROVE m + 1 \in T
    <2> SUFFICES ASSUME m + 1 <= n PROVE \E f : Runs(f, m + 1, S, init, step)
      OBVIOUS
    <2>1. PICK f : Runs(f, m, S, init, step)
      BY <1>2
    <2> DEFINE g == [k \in 0 .. m + 1 |-> IF k = m + 1 THEN step[<<m, f[m]>>] ELSE f[k]]
    <2>2. f[m] \in S /\ m \in 0 .. n - 1
      BY <2>1 DEF Runs
    <2>3. step[<<m, f[m]>>] \in S
      BY <2>2 DEF Loop
    <2>4. g \in [0 .. m + 1 -> S] /\ g[0] = init
      BY <2>1, <2>3 DEF Runs
    <2>5. \A k \in 0 .. m : g[k + 1] = step[<<k, g[k]>>]
      <3> TAKE k \in 0 .. m
      <3>1. CASE k = m
        <4>1. g[m + 1] = step[<<m, f[m]>>] /\ g[m] = f[m]
          OBVIOUS
        <4> QED BY <3>1, <4>1
      <3>2. CASE k # m
        <4>1. k \in 0 .. m - 1 /\ k + 1 \in 0 .. m /\ k # m + 1 /\ k + 1 # m + 1
          BY <3>2
        <4>2. g[k + 1] = f[k + 1] /\ g[k] = f[k]
          BY <4>1
        <4>3. f[k + 1] = step[<<k, f[k]>>]
          BY <2>1, <4>1 DEF Runs
        <4> QED BY <4>2, <4>3
      <3> QED BY <3>1, <3>2
    <2>6. Runs(g, m + 1, S, init, step)
      <3>1. (m + 1) - 1 = m
        OBVIOUS
      <3> HIDE DEF g
      <3> QED BY <2>4, <2>5, <3>1 DEF Runs
    <2> QED BY <2>6
  <1>3. n \in T
    <2> HIDE DEF T
    <2> QED BY <1>1, <1>2, Induction
  <1> QED BY <1>3

-----------------------------------------------------------------------------
(* Powers of two. That of n is the number of sets of n elements; the sets  *)
(* of n + 1 elements are those of n with and without the last.             *)

\* The power of two as the number of subsets: a natural.
LEMMA PowerIsCardinality ==
  ASSUME NEW n \in Nat
  PROVE  2^n \in Nat /\ 2^n = Cardinality(SUBSET (1..n))
  <1>1. IsFiniteSet(1..n) /\ Cardinality(1..n) = n
    BY FS_Interval
  <1>2. IsFiniteSet(SUBSET(1..n)) /\ Cardinality(SUBSET(1..n)) = 2^n
    <2>1. IsFiniteSet(SUBSET(1..n)) /\ Cardinality(SUBSET(1..n)) = 2^Cardinality(1..n)
      BY <1>1, FS_SUBSET
    <2> QED BY <1>1, <2>1
  <1> QED BY <1>2, FS_CardinalityType

\* One more in the exponent doubles the power.
LEMMA PowerSuccessor == ASSUME NEW n \in Nat PROVE 2^(n+1) = 2 * 2^n
  <1> DEFINE A == SUBSET (1..n)
             f == [T \in A |-> T \cup {n+1}]
             B == {T \cup {n+1} : T \in A}
  <1>0. n + 1 \notin 1..n /\ 1..n+1 = (1..n) \cup {n+1} OBVIOUS
  <1>1. SUBSET (1..n+1) = A \cup B
    <2>1. ASSUME NEW T \in SUBSET (1..n+1), n+1 \in T PROVE T \in B
      <3>1. T = (T \ {n+1}) \cup {n+1} /\ T \ {n+1} \in A
        BY <1>0, <2>1
      <3> QED BY <3>1
    <2>2. ASSUME NEW T \in SUBSET (1..n+1), n+1 \notin T PROVE T \in A
      BY <1>0, <2>2
    <2>3. A \cup B \subseteq SUBSET (1..n+1)
      BY <1>0
    <2> QED BY <2>1, <2>2, <2>3
  <1>2. A \cap B = {}
    BY <1>0
  <1>3. IsFiniteSet(A) /\ Cardinality(A) = 2^n /\ 2^n \in Nat
    <2>1. IsFiniteSet(1..n)
      BY FS_Interval
    <2> QED BY <2>1, FS_SUBSET, PowerIsCardinality
  <1>4. f \in Bijection(A, B)
    <2>1. ASSUME NEW S \in A, NEW T \in A, f[S] = f[T] PROVE S = T
      <3>1. S \cup {n+1} = T \cup {n+1} /\ n + 1 \notin S /\ n + 1 \notin T
         BY <1>0, <2>1
      <3> QED BY <3>1
    <2>2. f \in [A -> B]
      OBVIOUS
    <2>3. IsInjective(f)
       BY <2>1 DEF IsInjective
    <2>4. \A t \in B : \E s \in A : f[s] = t
       OBVIOUS
    <2> HIDE DEF f, A, B
    <2> QED BY <2>2, <2>3, <2>4 DEF Bijection, Injection, Surjection
  <1>5. IsFiniteSet(B) /\ Cardinality(B) = Cardinality(A)
    <2> HIDE DEF f
    <2>1. ExistsBijection(A, B) BY <1>4 DEF ExistsBijection
    <2> HIDE DEF A, B
    <2> QED BY <1>3, <2>1, FS_Bijection
  <1>6. Cardinality(A \cup B) = Cardinality(A) + Cardinality(B)
    <2> HIDE DEF f, A, B
    <2>1. Cardinality(A \cup B) = Cardinality(A) + Cardinality(B) - Cardinality(A \cap B)
      BY <1>3, <1>5, FS_Union
    <2>2. Cardinality(A \cap B) = 0
      BY <1>2, FS_EmptySet
    <2> QED BY <1>3, <1>5, <2>1, <2>2, FS_CardinalityType
  <1>7. 2^(n+1) = Cardinality(SUBSET (1 .. n+1))
    BY PowerIsCardinality
  <1>8. Cardinality(A \cup B) = 2 * 2^n
    BY <1>3, <1>5, <1>6
  <1> HIDE DEF A, B
  <1> QED BY <1>1, <1>7, <1>8

\* Powers of two are positive naturals.
LEMMA PowerPositive == \A n \in Nat : 2^n \in Nat /\ 2^n > 0
  <1> DEFINE T == {n \in Nat : 2^n \in Nat /\ 2^n > 0}
  <1>1. 0 \in T
    <2>1. 2^0 = 1
      OBVIOUS
    <2> QED BY <2>1
  <1>2. ASSUME NEW n \in Nat, n \in T PROVE n + 1 \in T
    <2>1. 2^(n + 1) = 2 * 2^n
      BY PowerSuccessor
    <2> QED BY <1>2, <2>1
  <1> HIDE DEF T
  <1>3. Nat \subseteq T
    BY <1>1, <1>2, Induction
  <1> QED BY <1>3 DEF T

\* The power of a sum is the product of the powers.
LEMMA PowerSum == \A m, n \in Nat : 2^(m + n) = 2^m * 2^n
  <1> SUFFICES ASSUME NEW m \in Nat PROVE \A n \in Nat : 2^(m + n) = 2^m * 2^n
    OBVIOUS
  <1> DEFINE T == {n \in Nat : 2^(m + n) = 2^m * 2^n}
  <1>1. 0 \in T
    <2>1. 2^0 = 1 /\ m + 0 = m /\ 2^m \in Nat
      BY PowerPositive
    <2>2. 2^m * 2^0 = 2^m
      BY <2>1
    <2> QED BY <2>1, <2>2
  <1>2. ASSUME NEW n \in Nat, n \in T PROVE n + 1 \in T
    <2>1. 2^(n + 1) = 2 * 2^n /\ m + (n + 1) = (m + n) + 1
      BY PowerSuccessor
    <2>2. 2^((m + n) + 1) = 2 * 2^(m + n)
      BY PowerSuccessor
    <2>3. 2^m \in Nat /\ 2^n \in Nat
      BY PowerPositive
    <2>4. 2 * (2^m * 2^n) = 2^m * (2 * 2^n)
      BY <2>3
    <2> QED BY <1>2, <2>1, <2>2, <2>4
  <1> HIDE DEF T
  <1>3. Nat \subseteq T
    BY <1>1, <1>2, Induction
  <1> QED BY <1>3 DEF T

\* The power grows with the exponent.
LEMMA PowerMonotone == ASSUME NEW m \in Nat, NEW n \in Nat, m <= n
                       PROVE  2^m <= 2^n
  <1>1. n - m \in Nat /\ m + (n - m) = n
    OBVIOUS
  <1>2. 2^n = 2^m * 2^(n - m)
    BY <1>1, PowerSum
  <1>3. 2^m \in Nat /\ 2^(n - m) \in Nat /\ 2^(n - m) > 0
    BY <1>1, PowerPositive
  <1> QED BY <1>2, <1>3

-----------------------------------------------------------------------------
(* Quotients and remainders. *)

\* A number is its quotient times the divisor, plus its remainder.
LEMMA Division == ASSUME NEW x \in Int, NEW m \in Nat, m > 0
                  PROVE  /\ x \div m \in Int /\ x % m \in 0 .. m - 1
                         /\ x = m * (x \div m) + (x % m)
  OBVIOUS

\* Only the quotient and the remainder make up the number.
LEMMA DivisionUnique ==
  ASSUME NEW m \in Nat, m > 0, NEW q \in Int, NEW r \in 0 .. m - 1
  PROVE  (m * q + r) \div m = q /\ (m * q + r) % m = r
  <1> DEFINE x == m * q + r
  <1>1. x \in Int
    OBVIOUS
  <1>2. /\ x \div m \in Int /\ x % m \in 0 .. m - 1
        /\ x = m * (x \div m) + (x % m)
    <2> HIDE DEF x
    <2> QED BY <1>1, Division
  <1> DEFINE q1 == x \div m
             r1 == x % m
  <1>3. m * q + r = m * q1 + r1 /\ q1 \in Int /\ r1 \in 0 .. m - 1
    BY <1>2
  <1> HIDE DEF x, q1, r1
  <1>4. m * (q - q1) = r1 - r
    BY <1>3
  <1>5. ~ (q - q1 >= 1)
    <2>1. q - q1 >= 1 => m * (q - q1) >= m
      BY <1>3
    <2> QED BY <1>3, <1>4, <2>1
  <1>6. ~ (q - q1 <= -1)
    <2>1. q - q1 <= -1 => m * (q - q1) <= -m
      BY <1>3
    <2> QED BY <1>3, <1>4, <2>1
  <1>7. q = q1
    BY <1>3, <1>5, <1>6
  <1> QED BY <1>3, <1>7 DEF q1, r1, x

\* Reducing a term of a sum does not change the remainder of the sum.
LEMMA RemainderOfSum ==
  ASSUME NEW m \in Nat, m > 0, NEW a \in Int, NEW b \in Int
  PROVE  ((a % m) + b) % m = (a + b) % m
  <1> DEFINE q == a \div m
             r == a % m
             s == (r + b) \div m
             t == (r + b) % m
  <1>1. q \in Int /\ r \in 0 .. m - 1 /\ a = m * q + r
    BY Division
  <1> HIDE DEF q, r
  <1>2. r + b \in Int
    BY <1>1
  <1>3. s \in Int /\ t \in 0 .. m - 1 /\ r + b = m * s + t
    BY <1>2, Division
  <1> HIDE DEF s, t
  <1>4. a + b = m * (q + s) + t
    BY <1>1, <1>3
  <1>5. q + s \in Int
    BY <1>1, <1>3
  <1>6. (m * (q + s) + t) % m = t
    BY <1>3, <1>5, DivisionUnique
  <1> QED BY <1>4, <1>6 DEF t, r

\* Numbers less than a divisor apart have different remainders.
LEMMA RemaindersDiffer ==
  ASSUME NEW m \in Nat, m > 0, NEW a \in Int, NEW d \in 1 .. m - 1
  PROVE  (a + d) % m # a % m
  <1> DEFINE b == a + d
             q == a \div m
             r == a % m
             s == b \div m
             t == b % m
  <1>1. b \in Int
    OBVIOUS
  <1>2. q \in Int /\ r \in 0 .. m - 1 /\ a = m * q + r
    BY Division
  <1>3. b = a + d
    OBVIOUS
  <1> HIDE DEF q, r, b
  <1>4. s \in Int /\ t \in 0 .. m - 1 /\ b = m * s + t
    BY <1>1, Division
  <1> HIDE DEF s, t
  <1> SUFFICES ASSUME r = t PROVE FALSE
    BY <1>3 DEF r, t
  <1>5. m * (s - q) = d
    BY <1>2, <1>3, <1>4
  <1>6. s - q >= 1 => m * (s - q) >= m
    BY <1>2, <1>4
  <1>7. s - q <= 0 => m * (s - q) <= 0
    BY <1>2, <1>4
  <1> QED BY <1>2, <1>4, <1>5, <1>6, <1>7

\* Numbers a multiple of the divisor apart have the same remainder.
LEMMA SameRemainder ==
  ASSUME NEW m \in Nat, m > 0, NEW a \in Int, NEW b \in Int, NEW k \in Int, a = b + m * k
  PROVE  a % m = b % m
  <1> DEFINE q == b \div m
             r == b % m
  <1>1. q \in Int /\ r \in 0 .. m - 1 /\ b = m * q + r
    BY Division
  <1> HIDE DEF q, r
  <1>2. a = m * (q + k) + r /\ q + k \in Int
    BY <1>1
  <1>3. (m * (q + k) + r) % m = r
    BY <1>1, <1>2, DivisionUnique
  <1> QED BY <1>2, <1>3 DEF r

\* A remainder is a multiple of the divisor away from the number.
LEMMA Residue ==
  ASSUME NEW m \in Nat, m > 0, NEW a \in Int
  PROVE  /\ a % m \in Nat
         /\ \E k \in Int : a % m = a + m * k
  <1> DEFINE q == a \div m
             r == a % m
  <1>1. q \in Int /\ r \in 0 .. m - 1 /\ a = m * q + r
    BY Division
  <1> HIDE DEF q, r
  <1>2. r = a + m * (-q) /\ -q \in Int /\ r \in Nat
    BY <1>1
  <1> QED BY <1>2 DEF r

-----------------------------------------------------------------------------
(* Words. *)

\* The width of a word and the positions of the flags are naturals.
LEMMA WidthFacts == W \in 8 .. 32 /\ W \in Nat /\ N \in Nat /\ Z \in Nat /\ C \in Nat /\ V \in Nat
  BY RegistersAssumption DEF N, Z, C, V

\* The words are the numbers from 0 up to their count, at least 256.
LEMMA WordFacts == /\ WordMod \in Nat /\ WordMod >= 256
                   /\ Word = 0 .. WordMod - 1
                   /\ Ones \in Word
  <1>1. WordMod = Base * Base * Base * Base
    BY RegistersAssumption DEF WordMod
  <1>2. WordMod \in Nat
    BY WidthFacts, PowerPositive DEF WordMod
  <1>3. 2^8 = 256
    OBVIOUS
  <1>4. WordMod >= 256
    <2>1. 8 \in Nat /\ W \in Nat /\ 8 <= W
      BY WidthFacts
    <2>2. 2^8 <= 2^W
      BY <2>1, PowerMonotone
    <2> QED BY <1>3, <2>2 DEF WordMod
  <1>5. Word = 0 .. WordMod - 1
    BY <1>1 DEF Word
  <1> QED BY <1>2, <1>4, <1>5 DEF Ones

\* The weights of the four flags are 8, 4, 2 and 1 times that of V.
LEMMA FlagWeights ==
  /\ 2^V \in Nat /\ 2^V > 0
  /\ 2^C = 2 * 2^V /\ 2^Z = 4 * 2^V /\ 2^N = 8 * 2^V /\ WordMod = 16 * 2^V
  <1>1. V \in Nat /\ C = V + 1 /\ Z = C + 1 /\ N = Z + 1 /\ W = N + 1
    BY WidthFacts DEF N, Z, C, V
  <1>2. 2^V \in Nat /\ 2^V > 0
    BY <1>1, PowerPositive
  <1>3. 2^C = 2 * 2^V /\ 2^Z = 2 * 2^C /\ 2^N = 2 * 2^Z /\ 2^W = 2 * 2^N
    BY WidthFacts, <1>1, PowerSuccessor
  <1> QED BY <1>2, <1>3 DEF WordMod

\* A number cut to the width of a word is a word.
LEMMA ModWord == \A x \in Int : x % WordMod \in Word
  BY WordFacts

\* Sums and differences of words wrap to words.
LEMMA PlusMinusWords == \A a, b \in Int : Plus(a, b) \in Word /\ Minus(a, b) \in Word
  BY ModWord DEF Plus, Minus

\* A bit is 0 or 1.
LEMMA BitIsBit == \A v \in Int : \A i \in Nat : Bit(v, i) \in {0, 1}
  <1> SUFFICES ASSUME NEW v \in Int, NEW i \in Nat PROVE Bit(v, i) \in {0, 1}
    OBVIOUS
  <1>1. 2^i \in Nat /\ 2^i > 0
    BY PowerPositive
  <1>2. v \div 2^i \in Int
    BY <1>1
  <1> QED BY <1>2 DEF Bit

\* The sign bit of a word: the words from 2^N on have it.
LEMMA SignBit == \A v \in Word : Bit(v, N) = IF v >= 2^N THEN 1 ELSE 0
  <1> SUFFICES ASSUME NEW v \in Word PROVE Bit(v, N) = IF v >= 2^N THEN 1 ELSE 0
    OBVIOUS
  <1> DEFINE h == 2^N
  <1>1. h \in Nat /\ h > 0 /\ WordMod = 2 * h
    BY FlagWeights
  <1>2. v \in 0 .. 2 * h - 1 /\ v \in Int
    BY <1>1, WordFacts
  <1> HIDE DEF h
  <1>3. CASE v >= h
    <2>1. v = h * 1 + (v - h) /\ v - h \in 0 .. h - 1
      BY <1>1, <1>2, <1>3
    <2>2. v \div h = 1
      BY <1>1, <2>1, DivisionUnique
    <2> QED BY <1>3, <2>2 DEF Bit, h
  <1>4. CASE v < h
    <2>1. v = h * 0 + v /\ v \in 0 .. h - 1
      BY <1>1, <1>2, <1>4
    <2>2. v \div h = 0
      BY <1>1, <2>1, DivisionUnique
    <2> QED BY <1>1, <1>2, <1>4, <2>2 DEF Bit, h
  <1> QED BY <1>1, <1>2, <1>3, <1>4

\* The bytes are words, words are naturals, and what an uninitialised read
\* gives is a word.
LEMMA WordConstants == /\ \A n \in 0 .. 255 : n \in Word
                       /\ Word \subseteq Int /\ Word \subseteq Nat
                       /\ Junk \subseteq Word
  BY WordFacts, RegistersAssumption

\* A remainder by the words, as a number a multiple of their count away.
LEMMA WordResidue ==
  ASSUME NEW a \in Int
  PROVE  a % WordMod \in Int /\ \E k \in Int : a % WordMod = a + WordMod * k
  <1>1. WordMod \in Nat /\ WordMod > 0
    BY WordFacts
  <1>2. a % WordMod \in Nat /\ \E k \in Int : a % WordMod = a + WordMod * k
    BY <1>1, Residue
  <1> HIDE DEF WordMod
  <1> QED BY <1>2

\* Numbers a multiple of the words apart are the same word.
LEMMA WordSame ==
  ASSUME NEW a \in Int, NEW b \in Int, NEW k \in Int, a = b + WordMod * k
  PROVE  a % WordMod = b % WordMod
  <1>1. WordMod \in Nat /\ WordMod > 0
    BY WordFacts
  <1> QED BY <1>1, SameRemainder

\* A word is its own remainder.
LEMMA WordItself == \A v \in Word : v % WordMod = v
  BY WordFacts

-----------------------------------------------------------------------------
(* Registers. *)

\* What arm_read_register gives is a word, also for a number that is no
\* register of the mode.
LEMMA ReadsAreWords ==
  ASSUME NEW r \in RegisterFile
  PROVE  /\ \A n \in 0 .. 16 : ReadRegister(r, n) \in Word
         /\ \A n \in Int : ReadAnyRegister(r, n) \subseteq Word
         /\ \A f \in Nat : Flag(r, f) \in {0, 1}
  <1>1. \A n \in 0 .. 16 : r[n] \in Word
    BY DEF RegisterFile
  <1>2. ReadRegister(r, PC) \in Word
    <2> DEFINE v == Plus(r[PC], 4)
    <2>1. r[PC] \in Int
      BY <1>1, WordFacts DEF PC
    <2>2. v \in Word
      BY <2>1, PlusMinusWords
    <2> HIDE DEF v
    <2>3. Bit(v, 1) = (v \div 2) % 2
      BY DEF Bit
    <2>4. v \in 0 .. WordMod - 1
      BY <2>2, WordFacts
    <2>5. v - 2 * Bit(v, 1) \in 0 .. WordMod - 1
      BY <2>4, <2>3, WordFacts
    <2> QED BY <2>5, WordFacts DEF ReadRegister, v
  <1>3. \A n \in 0 .. 16 : ReadRegister(r, n) \in Word
    BY <1>1, <1>2 DEF ReadRegister
  <1>4. \A n \in Int : ReadAnyRegister(r, n) \subseteq Word
    <2> TAKE n \in Int
    <2>1. n % 256 \in 0 .. 255
      OBVIOUS
    <2> QED BY <1>3, <2>1, RegistersAssumption DEF ReadAnyRegister, CPSR
  <1>5. r[CPSR] \in Int
    BY <1>1, WordFacts DEF CPSR
  <1> QED BY <1>3, <1>4, <1>5, BitIsBit DEF Flag

\* The register files that differ from r in the registers of S only.
But(r, S) == {q \in RegisterFile : \A k \in 0 .. 16 : k \notin S => q[k] = r[k]}

\* arm_write_register changes the one register it is given.
LEMMA WriteTyped ==
  ASSUME NEW r \in RegisterFile, NEW n \in 0 .. 16, NEW v \in Word
  PROVE  WriteRegister(r, n, v) \in But(r, {n}) /\ WriteRegister(r, n, v)[n] = v
  BY DEF RegisterFile, WriteRegister, But

\* A RESET clears the pc and sets the cpsr, and keeps the other registers.
LEMMA ResetTyped ==
  ASSUME NEW r \in RegisterFile
  PROVE  /\ ResetRegisters(r) \in RegisterFile
         /\ ResetRegisters(r)[PC] = 0 /\ ResetRegisters(r)[CPSR] = ResetCpsr
         /\ \A n \in 0 .. 14 : ResetRegisters(r)[n] = r[n]
  <1>1. ResetCpsr \in Word /\ 0 \in Word
    BY RegistersAssumption, WordFacts
  <1> QED BY <1>1 DEF RegisterFile, ResetRegisters, PC, CPSR

=============================================================================
