------------------------------- MODULE MCCpu -------------------------------
(***************************************************************************)
(* Instances of Cpu for TLC: words of 8 bits, a memory of eight 2-bit      *)
(* bytes, and sets of instructions and registers that meet each boundary.  *)
(***************************************************************************)
EXTENDS Cpu

Ins(cond, cls, op, rn, rd, lo) ==
  [cond |-> cond, cls |-> cls, op |-> op, rn |-> rn, rd |-> rd, lo |-> lo]

\* r1 around the sign and carry boundaries, r2 a shift amount around the word
\* width, both below and above the registers that exist when taken as numbers;
\* flags in the four top bits of the cpsr.
Values == {0, 1, 127, 128, 255}
Amounts == {0, 1, 8, 9, 65}
File(r1, r2, pc, cpsr) ==
  [n \in 0 .. 16 |-> CASE n = 1 -> r1 [] n = 2 -> r2 [] n = 15 -> pc
                       [] n = 16 -> cpsr [] OTHER -> 17 * n % 256]

AluRegisters == {File(a, b, 0, f) : a \in Values, b \in Amounts, f \in {3, 35, 99, 163, 211}}
TransferRegisters == {File(a, b, p, f) : a \in {0, 3, 4, 7, 8}, b \in {0, 5},
                                         p \in {0, 6}, f \in {3, 99}}

Zeros == [i \in Position |-> 0]
Digits == [i \in Position |-> i % Base]
MCContents == {Zeros, Digits}
AluContents == {Digits}

\* Data processing: every operation, with and without S, Rd equal to Rn, to
\* r0, or neither; rotated bytes, and registers shifted both ways.
AluInstructions ==
  {Ins(14, 1, op, 1, rd, lo) : op \in 0 .. 31, rd \in {0, 1, 5},
                               lo \in {0, 1, 127, 255, 513}}
  \cup {Ins(14, 0, op, rn, 5, lo) : op \in {8, 9, 26, 27}, rn \in {1},
          lo \in {k * 128 + s * 32 + 1 : k \in {0, 1, 7}, s \in 0 .. 3}
                   \cup {128 + s * 32 + 16 + 1 : s \in 0 .. 3}}
  \cup {Ins(c, 1, 9, 1, 5, 1) : c \in 0 .. 15}

\* Transfers, branches, and the instructions that raise.
TransferInstructions ==
  {Ins(14, 2, op, 1, rd, lo) : op \in 0 .. 31, rd \in {2}, lo \in {0, 4}}
  \cup {Ins(c, 3, op, 1, 5, lo) : c \in {14, 15}, op \in {0, 9, 19, 27}, lo \in {2, 34}}
  \cup {Ins(14, 0, op, 1, 5, 146) : op \in {0, 1, 5, 8, 10, 13, 17, 22, 29}}
  \cup {Ins(14, 4, op, 1, rd, lo) : op \in {0, 1, 5, 8, 11, 12, 14, 20}, rd \in {0, 8},
                                    lo \in {0, 4, 38}}
  \cup {Ins(14, 5, op, 15, 15, lo) : op \in {0, 15, 31}, lo \in {4094}}
  \cup {Ins(8, 5, 16, 0, 0, 1), Ins(14, 6, 0, 0, 0, 0), Ins(14, 0, 16, 0, 0, 0),
        Ins(14, 1, 16, 0, 0, 0), Ins(14, 3, 0, 0, 0, 16), Ins(14, 7, 16, 0, 0, 0),
        Ins(14, 7, 0, 0, 0, 0), Ins(14, 7, 17, 2, 3, 1110),
        Ins(14, 1, 21, 1, 0, 5), Ins(0, 1, 9, 1, 5, 1)}
=============================================================================
