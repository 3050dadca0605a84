---------------------------- MODULE TokenStream ----------------------------
(***************************************************************************)
(* What the rules of scanner.l promise of a stream of characters: it is    *)
(* cut, from its beginning, into packets wherever one begins and into      *)
(* single characters elsewhere, whatever the pieces in which it arrives.   *)
(*                                                                         *)
(* A character is what the rules tell apart: nul and new line, "#", "$",   *)
(* "+", "-", a hexadecimal digit, and any other.                           *)
(***************************************************************************)
EXTENDS Integers, Sequences

Nul == 0
Other == 1
NewLine == 2
Hash == 3
Dollar == 4
Plus == 5
Minus == 6
Hex == 7
Char == 0 .. 7

CONSTANT Inputs   \* the streams gdb may send

VARIABLES input,  \* the stream
          from,   \* how many of its characters have been cut
          tok,    \* the last token: its rule in scanner.l and its place
          over    \* the end of the stream has been met

vars == <<input, from, tok, over>>

\* Rules 1 to 5 of scanner.l; the fifth is the one flex adds, for what no
\* other matches.
RuleOf(c) == CASE c = Plus -> 1 [] c = Minus -> 2 [] c = NewLine -> 5 [] OTHER -> 4
NoToken == [rule |-> 0, from |-> 0, to |-> 0]

\* The pattern "$"[^$#]*"#"{HEX}{HEX} on the characters from+1 .. to.
IsPacket(s, i, j) ==
  /\ i + 4 <= j /\ j <= Len(s)
  /\ s[i + 1] = Dollar /\ s[j - 2] = Hash /\ s[j - 1] = Hex /\ s[j] = Hex
  /\ \A k \in i + 2 .. j - 3 : s[k] \notin {Dollar, Hash}

Init == /\ input \in Inputs
        /\ from = 0 /\ tok = NoToken /\ over = FALSE

Cut(rule, to) == /\ tok' = [rule |-> rule, from |-> from, to |-> to]
                 /\ from' = to
                 /\ UNCHANGED <<input, over>>

Packet == \E j \in 1 .. Len(input) : IsPacket(input, from, j) /\ Cut(3, j)

Single == /\ from < Len(input)
          /\ \A j \in 1 .. Len(input) : ~IsPacket(input, from, j)
          /\ Cut(RuleOf(input[from + 1]), from + 1)

End == /\ from = Len(input) /\ ~over
       /\ over' = TRUE
       /\ UNCHANGED <<input, from, tok>>

Next == Packet \/ Single \/ End

Spec == Init /\ [][Next]_vars
=============================================================================
