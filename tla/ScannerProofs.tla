--------------------------- MODULE ScannerProofs ---------------------------
(***************************************************************************)
(* The scanner of Scanner cuts every stream as the rules of scanner.l do,  *)
(* for every buffer size and whatever read returns. The argument: at each  *)
(* place of yylex, the state of the automaton says what the characters     *)
(* from yytext_ptr on are (Reads); a replay of yy_get_previous_state       *)
(* therefore finds the states that were met the first time.                *)
(***************************************************************************)
EXTENDS Scanner, TLAPS

Body(i, j) == \A k \in i .. j : input[k] \notin {Stream!Dollar, Stream!Hash}

\* What state s says of the characters start+1 .. k. A nul alone can be held in
\* state 4.
Reads(s, k) ==
  /\ k \in start .. have
  /\ \/ s = 1 /\ k = start
     \/ s = 4 /\ k = start + 1 /\ input[k] = Stream!Nul
     \/ s = 6 /\ k = start + 1 /\ input[k] = Stream!Dollar
     \/ /\ s = 9 /\ k >= start + 2
        /\ input[start + 1] = Stream!Dollar /\ Body(start + 2, k)
     \/ /\ s = 10 /\ k >= start + 2
        /\ input[start + 1] = Stream!Dollar /\ Body(start + 2, k - 1)
        /\ input[k] = Stream!Hash
     \/ /\ s = 11 /\ k >= start + 3
        /\ input[start + 1] = Stream!Dollar /\ Body(start + 2, k - 2)
        /\ input[k - 1] = Stream!Hash /\ input[k] = Stream!Hex

\* The states in which a longer token is still possible.
Live == {1, 4, 6, 9, 10, 11}
Begun(k) == \E s \in Live : Reads(s, k)

\* The character before the place k is a nul, or the first mark.
Marked(k) == /\ k \in start + 1 .. have + 1
             /\ k <= have => input[k] = Stream!Nul
             /\ Begun(k - 1)

NoPacket == \A j \in 1 .. Len(input) : ~Stream!IsPacket(input, start, j)

\* The state in which the automaton backs up from inside a packet.
Dollar == [state |-> 6, cpos |-> start + 1]
Reading == /\ state \in Live /\ Reads(state, cp)
           /\ state \in {9, 10, 11} => last = Dollar

\* The token that is about to be matched.
Cuts(s, k) ==
  /\ k \in start + 1 .. have
  /\ \/ s = 12 /\ Stream!IsPacket(input, start, k)
     \/ /\ s # 12 /\ yy_accept[s] = Stream!RuleOf(input[start + 1])
        /\ k = start + 1 /\ NoPacket

MatchInv == \/ Reading
            \/ state = 3 /\ Marked(cp)
ActionInv == /\ state \in 1 .. 13
             /\ \/ Act \in 1 .. 5 /\ Cuts(Found.state, Found.cpos)
                \/ Act = EOB /\ Marked(Found.cpos)
ReplayInv == /\ Reading /\ cp <= goal /\ Begun(goal)
             /\ resume \in {"match", "action", "nul"}
             /\ resume = "nul" => goal < have /\ input[goal + 1] = Stream!Nul
             /\ resume = "action" => goal > start /\ goal = Len(input)
NulInv == Reading /\ cp < have /\ input[cp + 1] = Stream!Nul
FillInv == cp = have /\ Begun(have)

IInv ==
  /\ TypeOK
  /\ size >= 2 /\ Moved <= size - 1
  /\ pending => have = Len(input)
  /\ at = "match" => MatchInv
  /\ at = "action" => ActionInv
  /\ at = "replay" => ReplayInv
  /\ at = "nul" => NulInv
  /\ at = "fill" => FillInv
  /\ at = "eof" => start = Len(input)
-----------------------------------------------------------------------------
(* The tables of scanner.c and what they make of each state and class. *)

LEMMA Accepts ==
  /\ yy_accept[1] = 0 /\ yy_accept[2] = 0 /\ yy_accept[3] = 6 /\ yy_accept[4] = 4 /\ yy_accept[5] = 5 /\ yy_accept[6] = 4
  /\ yy_accept[7] = 1 /\ yy_accept[8] = 2 /\ yy_accept[9] = 0 /\ yy_accept[10] = 0 /\ yy_accept[11] = 0 /\ yy_accept[12] = 3
  /\ yy_accept[13] = 0
BY DEF yy_accept, Table

LEMMA Bases ==
  /\ yy_base[1] = 0 /\ yy_base[2] = 0 /\ yy_base[3] = 13 /\ yy_base[4] = 14 /\ yy_base[5] = 14 /\ yy_base[6] = 9
  /\ yy_base[7] = 14 /\ yy_base[8] = 14 /\ yy_base[9] = 8 /\ yy_base[10] = 3 /\ yy_base[11] = 2 /\ yy_base[12] = 14
  /\ yy_base[13] = 14 /\ yy_base[14] = 7
BY DEF yy_base, Table

LEMMA Defs ==
  /\ yy_def[1] = 13 /\ yy_def[2] = 1 /\ yy_def[3] = 13 /\ yy_def[4] = 13 /\ yy_def[5] = 13 /\ yy_def[6] = 14
  /\ yy_def[7] = 13 /\ yy_def[8] = 13 /\ yy_def[9] = 14 /\ yy_def[10] = 13 /\ yy_def[11] = 13 /\ yy_def[12] = 13
  /\ yy_def[13] = 0 /\ yy_def[14] = 13
BY DEF yy_def, Table

LEMMA Metas ==
  /\ yy_meta[0] = 0 /\ yy_meta[1] = 1 /\ yy_meta[2] = 1 /\ yy_meta[3] = 1 /\ yy_meta[4] = 2 /\ yy_meta[5] = 1
  /\ yy_meta[6] = 1 /\ yy_meta[7] = 1
BY DEF yy_meta, Table

LEMMA Nexts ==
  /\ yy_nxt[1] = 4 /\ yy_nxt[2] = 5 /\ yy_nxt[3] = 4 /\ yy_nxt[4] = 6 /\ yy_nxt[5] = 7 /\ yy_nxt[6] = 8
  /\ yy_nxt[7] = 4 /\ yy_nxt[8] = 9 /\ yy_nxt[9] = 12 /\ yy_nxt[10] = 11 /\ yy_nxt[11] = 10 /\ yy_nxt[12] = 10
  /\ yy_nxt[13] = 13 /\ yy_nxt[14] = 3 /\ yy_nxt[15] = 13 /\ yy_nxt[16] = 13 /\ yy_nxt[17] = 13 /\ yy_nxt[18] = 13
  /\ yy_nxt[19] = 13 /\ yy_nxt[20] = 13 /\ yy_nxt[21] = 13
BY DEF yy_nxt, Table

LEMMA Checks ==
  /\ yy_chk[0] = 0 /\ yy_chk[1] = 1 /\ yy_chk[2] = 1 /\ yy_chk[3] = 1 /\ yy_chk[4] = 1 /\ yy_chk[5] = 1
  /\ yy_chk[6] = 1 /\ yy_chk[7] = 1 /\ yy_chk[8] = 14 /\ yy_chk[9] = 11 /\ yy_chk[10] = 10 /\ yy_chk[11] = 9
  /\ yy_chk[12] = 6 /\ yy_chk[13] = 3 /\ yy_chk[14] = 13 /\ yy_chk[15] = 13 /\ yy_chk[16] = 13 /\ yy_chk[17] = 13
  /\ yy_chk[18] = 13 /\ yy_chk[19] = 13 /\ yy_chk[20] = 13 /\ yy_chk[21] = 13
BY DEF yy_chk, Table

LEMMA Transitions ==
  /\ \A s \in Live : Goto(s, 0) = 3
  /\ \A c \in 0 .. 7 : Goto(3, c) = 13
  /\ \A c \in 1 .. 7 : Goto(4, c) = 13
  /\ \A c \in {1, 3, 7} : Goto(1, c) = 4
  /\ Goto(1, 2) = 5 /\ Goto(1, 4) = 6 /\ Goto(1, 5) = 7 /\ Goto(1, 6) = 8
  /\ \A s \in {6, 9} : /\ \A c \in {1, 2, 5, 6, 7} : Goto(s, c) = 9
                       /\ Goto(s, 3) = 10 /\ Goto(s, 4) = 13
  /\ \A c \in 1 .. 6 : Goto(10, c) = 13 /\ Goto(11, c) = 13
  /\ Goto(10, 7) = 11 /\ Goto(11, 7) = 12
BY Bases, Defs, Metas, Nexts, Checks DEF Goto, InRow, Deferred, Live

-----------------------------------------------------------------------------
(* What the characters say. *)

Remembered(s, k) == IF yy_accept[s] # 0 THEN [state |-> s, cpos |-> k] ELSE last

\* A stream that does not begin with "$" does not begin with a packet.
LEMMA NotDollar ==
  ASSUME TypeOK, start < have, input[start + 1] # Stream!Dollar
  PROVE  NoPacket
BY DEF TypeOK, NoPacket, Stream!IsPacket

\* The "#" of a packet is the first after its "$".
LEMMA HashPlace ==
  ASSUME TypeOK, NEW h \in Int, h >= start + 2, Body(start + 2, h - 1), input[h] = Stream!Hash,
         NEW j \in 1 .. Len(input), Stream!IsPacket(input, start, j)
  PROVE  j = h + 2
<1>1. start \in Int
  BY DEF TypeOK
<1>2. /\ start + 4 <= j /\ input[j - 2] = Stream!Hash
      /\ \A k \in start + 2 .. j - 3 : input[k] # Stream!Hash
  BY DEF Stream!IsPacket
<1>3. \A k \in start + 2 .. h - 1 : input[k] # Stream!Hash
  BY DEF Body
<1>4. ~(j - 2 < h)
  BY <1>1, <1>2, <1>3
<1>5. ~(j - 2 > h)
  BY <1>1, <1>2
<1> QED
  BY <1>1, <1>4, <1>5

\* Nor one in which what follows "$" cannot be continued.
LEMMA Broken ==
  ASSUME TypeOK, NEW s \in {6, 9, 10, 11}, NEW k, Reads(s, k),
         \/ k = Len(input)
         \/ /\ k < have
            /\ \/ s \in {6, 9} /\ input[k + 1] = Stream!Dollar
               \/ s \in {10, 11} /\ input[k + 1] # Stream!Hex
  PROVE  NoPacket
<1> SUFFICES ASSUME NEW j \in 1 .. Len(input), Stream!IsPacket(input, start, j)
             PROVE  FALSE
  BY DEF NoPacket
<1>0. start \in Int /\ have \in Int /\ k \in start .. have /\ have <= Len(input) /\ Len(input) \in Int
  BY DEF TypeOK, Reads
<1>1. CASE s \in {6, 9}
  <2>1. k >= start + 1 /\ \A i \in start + 2 .. k : input[i] # Stream!Hash
    BY <1>0, <1>1 DEF Reads, Body
  <2>2. /\ start + 4 <= j /\ input[j - 2] = Stream!Hash
        /\ \A i \in start + 2 .. j - 3 : input[i] # Stream!Dollar
    BY DEF Stream!IsPacket
  <2>3. k < j - 2
    BY <1>0, <2>1, <2>2
  <2>4. k < have /\ input[k + 1] = Stream!Dollar
    BY <1>0, <1>1, <2>3
  <2>5. k + 1 = j - 2
    BY <1>0, <2>1, <2>2, <2>3, <2>4
  <2> QED
    BY <2>2, <2>4, <2>5 DEF Stream!Dollar, Stream!Hash
<1>2. CASE s = 10
  <2>1. j = k + 2
    BY <1>0, <1>2, HashPlace DEF Reads
  <2>2. input[k + 1] = Stream!Hex
    BY <1>0, <2>1 DEF Stream!IsPacket
  <2> QED
    BY <1>0, <1>2, <2>1, <2>2
<1>3. CASE s = 11
  <2>1. j = k + 1
    <3>1. k - 1 \in Int /\ k - 1 >= start + 2 /\ Body(start + 2, k - 1 - 1) /\ input[k - 1] = Stream!Hash
      BY <1>0, <1>3 DEF Reads, Body
    <3> QED
      BY <1>0, <3>1, HashPlace
  <2>2. input[k + 1] = Stream!Hex
    BY <1>0, <2>1 DEF Stream!IsPacket
  <2> QED
    BY <1>0, <1>3, <2>1, <2>2
<1> QED
  BY <1>1, <1>2, <1>3

LEMMA RememberedDollar ==
  ASSUME TypeOK, NEW s \in {6, 9, 10, 11}, NEW k, Reads(s, k),
         s \in {9, 10, 11} => last = Dollar
  PROVE  /\ Remembered(s, k) = Dollar /\ k >= start + 1
         /\ input[start + 1] = Stream!Dollar
<1>1. start \in Int /\ k \in Int
  BY DEF TypeOK, Reads
<1>2. CASE s = 6
  <2>1. k = start + 1 /\ input[start + 1] = Stream!Dollar
    BY <1>1, <1>2 DEF Reads
  <2>2. yy_accept[s] # 0
    BY <1>2, Accepts
  <2> QED
    BY <1>1, <1>2, <2>1, <2>2 DEF Remembered, Dollar
<1>3. CASE s \in {9, 10, 11}
  <2>1. yy_accept[s] = 0
    BY <1>3, Accepts
  <2>2. k >= start + 1 /\ input[start + 1] = Stream!Dollar
    BY <1>1, <1>3 DEF Reads
  <2> QED
    BY <1>3, <2>1, <2>2 DEF Remembered
<1> QED
  BY <1>2, <1>3

\* One transition on a character that is not nul: the token goes on, or it is
\* complete, or the automaton jams and backs up to one that is.
LEMMA Character ==
  ASSUME TypeOK, NEW s \in Live, NEW k, Reads(s, k), k < have,
         s \in {9, 10, 11} => last = Dollar,
         input[k + 1] # Stream!Nul,
         NEW t, t = Goto(s, input[k + 1])
  PROVE  \/ /\ t \in {6, 9, 10, 11} /\ Reads(t, k + 1)
            /\ t # 6 => Remembered(s, k) = Dollar
         \/ /\ t \in {4, 5, 7, 8, 12} /\ Cuts(t, k + 1)
         \/ /\ t = 13 /\ Remembered(s, k).state \in {4, 6}
            /\ Cuts(Remembered(s, k).state, Remembered(s, k).cpos)
<1> DEFINE c == input[k + 1]
<1>0. /\ start \in Int /\ have \in Int /\ k \in start .. have /\ have <= Len(input)
      /\ Len(input) \in Int /\ c \in 1 .. 7
  BY DEF TypeOK, Reads, Stream!Char, Stream!Nul
<1>1. CASE s = 1
  <2>0. k = start /\ start < have
    BY <1>0, <1>1 DEF Reads
  <2>1. CASE c = Stream!Dollar
    <3>1. t = 6
      BY <1>1, <2>1, Transitions DEF Stream!Dollar
    <3> QED
      BY <1>0, <2>0, <2>1, <3>1 DEF Reads
  <2>2. CASE c # Stream!Dollar
    <3>1. NoPacket
      BY <2>0, <2>2, NotDollar
    <3>2. /\ t \in {4, 5, 7, 8} /\ yy_accept[t] = Stream!RuleOf(c)
      BY <1>0, <1>1, <2>2, Transitions, Accepts
         DEF Stream!RuleOf, Stream!Dollar, Stream!Plus, Stream!Minus, Stream!NewLine
    <3> QED
      BY <1>0, <2>0, <3>1, <3>2 DEF Cuts
  <2> QED
    BY <2>1, <2>2
<1>2. CASE s = 4
  <2>1. k = start + 1 /\ input[start + 1] = Stream!Nul
    BY <1>0, <1>2 DEF Reads
  <2>2. NoPacket
    BY <1>0, <2>1, NotDollar DEF Stream!Nul, Stream!Dollar
  <2>3. t = 13
    BY <1>0, <1>2, Transitions
  <2>4. Remembered(s, k) = [state |-> 4, cpos |-> start + 1]
    BY <1>2, <2>1, Accepts DEF Remembered
  <2>5. Cuts(4, start + 1)
    BY <1>0, <2>1, <2>2, Accepts
       DEF Cuts, Stream!RuleOf, Stream!Nul, Stream!Plus, Stream!Minus, Stream!NewLine
  <2> QED
    BY <2>3, <2>4, <2>5
<1>3. CASE s \in {6, 9, 10, 11}
  <2>1. /\ Remembered(s, k) = Dollar /\ k >= start + 1
        /\ input[start + 1] = Stream!Dollar
    BY <1>0, <1>3, RememberedDollar
  <2>2. ASSUME NoPacket PROVE Cuts(6, start + 1)
    BY <1>0, <2>1, <2>2, Accepts
       DEF Cuts, Stream!RuleOf, Stream!Dollar, Stream!Plus, Stream!Minus, Stream!NewLine
  <2>3. CASE s \in {6, 9} /\ c = Stream!Dollar
    <3>1. t = 13
      BY <2>3, Transitions DEF Stream!Dollar
    <3>2. NoPacket
      BY <2>3, Broken
    <3> QED
      BY <2>1, <2>2, <3>1, <3>2 DEF Dollar
  <2>4. CASE s \in {6, 9} /\ c = Stream!Hash
    <3>1. t = 10
      BY <2>4, Transitions DEF Stream!Hash
    <3>2. Reads(10, k + 1)
      BY <1>0, <2>1, <2>4 DEF Reads, Body
    <3> QED
      BY <2>1, <3>1, <3>2
  <2>5. CASE s \in {6, 9} /\ c \notin {Stream!Dollar, Stream!Hash}
    <3>1. t = 9
      BY <1>0, <2>5, Transitions DEF Stream!Hash, Stream!Dollar
    <3>2. Reads(9, k + 1)
      BY <1>0, <2>1, <2>5 DEF Reads, Body
    <3> QED
      BY <2>1, <3>1, <3>2
  <2>6. CASE s \in {10, 11} /\ c # Stream!Hex
    <3>1. t = 13
      BY <1>0, <2>6, Transitions DEF Stream!Hex
    <3>2. NoPacket
      BY <2>6, Broken
    <3> QED
      BY <2>1, <2>2, <3>1, <3>2 DEF Dollar
  <2>7. CASE s = 10 /\ c = Stream!Hex
    <3>1. t = 11
      BY <2>7, Transitions DEF Stream!Hex
    <3>2. Reads(11, k + 1)
      BY <1>0, <2>1, <2>7 DEF Reads, Body
    <3> QED
      BY <2>1, <3>1, <3>2
  <2>8. CASE s = 11 /\ c = Stream!Hex
    <3>1. t = 12
      BY <2>8, Transitions DEF Stream!Hex
    <3>2. Stream!IsPacket(input, start, k + 1)
      BY <1>0, <2>8 DEF Reads, Body, Stream!IsPacket
    <3> QED
      BY <1>0, <3>1, <3>2 DEF Cuts
  <2> QED
    BY <1>3, <2>3, <2>4, <2>5, <2>6, <2>7, <2>8
<1> QED
  BY <1>1, <1>2, <1>3 DEF Live

\* Where no longer token is possible the automaton backs up to "$", or a nul.
LEMMA Stuck ==
  ASSUME TypeOK, NEW s \in Live \ {1}, NEW k, Reads(s, k),
         s \in {9, 10, 11} => last = Dollar,
         \/ k = Len(input)
         \/ k < have /\ input[k + 1] = Stream!Nul /\ s \in {4, 10, 11}
  PROVE  /\ yy_accept[Remembered(s, k).state] = 4
         /\ Cuts(Remembered(s, k).state, Remembered(s, k).cpos)
<1>0. start \in Int /\ have \in Int /\ k \in start .. have
  BY DEF TypeOK, Reads
<1>1. CASE s = 4
  <2>1. k = start + 1 /\ input[start + 1] = Stream!Nul
    BY <1>0, <1>1 DEF Reads
  <2>2. NoPacket
    BY <1>0, <2>1, NotDollar DEF Stream!Nul, Stream!Dollar
  <2>3. Remembered(s, k) = [state |-> 4, cpos |-> start + 1]
    BY <1>1, <2>1, Accepts DEF Remembered
  <2> QED
    BY <1>0, <2>1, <2>2, <2>3, Accepts
       DEF Cuts, Stream!RuleOf, Stream!Nul, Stream!Plus, Stream!Minus, Stream!NewLine
<1>2. CASE s \in {6, 9, 10, 11}
  <2>1. /\ Remembered(s, k) = Dollar /\ k >= start + 1
        /\ input[start + 1] = Stream!Dollar
    BY <1>2, RememberedDollar
  <2>2. NoPacket
    BY <1>0, <1>2, Broken DEF Stream!Nul, Stream!Hex
  <2> QED
    BY <1>0, <2>1, <2>2, Accepts
       DEF Dollar, Cuts, Stream!RuleOf, Stream!Dollar, Stream!Plus, Stream!Minus, Stream!NewLine
<1> QED
  BY <1>1, <1>2 DEF Live

\* The class yy_get_previous_state gives a character.
Class(c) == IF c = 0 THEN 1 ELSE c

\* A replay meets the states it leads through only.
LEMMA Replayed ==
  ASSUME TypeOK, NEW s \in Live, NEW k, Reads(s, k),
         NEW u \in Live, NEW g, Reads(u, g), k < g,
         s \in {9, 10, 11} => last = Dollar,
         NEW t, t = Goto(s, Class(input[k + 1]))
  PROVE  /\ t \in Live /\ Reads(t, k + 1)
         /\ t \in {9, 10, 11} => Remembered(s, k) = Dollar
<1> DEFINE c == input[k + 1]
<1>0. /\ start \in Int /\ have \in Int /\ k \in start .. have /\ g \in start .. have
      /\ have <= Len(input) /\ Len(input) \in Int /\ c \in 0 .. 7
  BY DEF TypeOK, Reads, Stream!Char
<1>1. CASE s = 1
  <2>1. k = start /\ c \in {Stream!Nul, Stream!Dollar} /\ (c = Stream!Nul => u = 4)
    BY <1>0, <1>1 DEF Reads, Live, Stream!Nul, Stream!Dollar
  <2>2. t = (IF c = Stream!Nul THEN 4 ELSE 6)
    BY <1>1, <2>1, Transitions DEF Class, Stream!Nul, Stream!Dollar
  <2> QED
    BY <1>0, <2>1, <2>2 DEF Reads, Live
<1>2. CASE s = 4
  BY <1>0, <1>2 DEF Reads, Live, Stream!Nul, Stream!Dollar
<1>3. CASE s \in {6, 9, 10, 11}
  <2>1. /\ Remembered(s, k) = Dollar /\ k >= start + 1
        /\ input[start + 1] = Stream!Dollar /\ g >= start + 2 /\ u \in {9, 10, 11}
    <3>1. /\ Remembered(s, k) = Dollar /\ k >= start + 1
          /\ input[start + 1] = Stream!Dollar
      BY <1>0, <1>3, RememberedDollar
    <3> QED
      BY <1>0, <3>1 DEF Reads, Live
  <2>2. CASE s \in {6, 9} /\ c = Stream!Hash
    <3>1. t = 10
      BY <2>2, Transitions DEF Class, Stream!Hash
    <3>2. Reads(10, k + 1)
      BY <1>0, <2>1, <2>2 DEF Reads, Body
    <3> QED
      BY <2>1, <3>1, <3>2 DEF Live
  <2>3. CASE s \in {6, 9} /\ c # Stream!Hash
    <3>1. c # Stream!Dollar
      BY <1>0, <2>1, <2>3 DEF Reads, Body, Stream!Hash, Stream!Hex, Stream!Dollar
    <3>2. t = 9
      <4>1. Class(c) \in {1, 2, 5, 6, 7}
        BY <1>0, <2>3, <3>1 DEF Class, Stream!Hash, Stream!Dollar
      <4> QED
        BY <2>3, <4>1, Transitions
    <3>3. Reads(9, k + 1)
      BY <1>0, <2>1, <2>3, <3>1 DEF Reads, Body
    <3> QED
      BY <2>1, <3>2, <3>3 DEF Live
  <2>4. CASE s = 10
    <3>1. input[k] = Stream!Hash /\ k >= start + 2
      BY <1>0, <2>4 DEF Reads
    <3>2. u = 11 /\ g = k + 1 /\ c = Stream!Hex
      BY <1>0, <2>1, <3>1 DEF Reads, Body, Stream!Hash, Stream!Hex
    <3>3. t = 11
      BY <2>4, <3>2, Transitions DEF Class, Stream!Hex
    <3>4. Reads(11, k + 1)
      BY <1>0, <2>1, <2>4, <3>2 DEF Reads, Body
    <3> QED
      BY <2>1, <3>3, <3>4 DEF Live
  <2>5. CASE s = 11
    <3>1. input[k - 1] = Stream!Hash /\ k - 1 >= start + 2
      BY <1>0, <2>5 DEF Reads
    <3> QED
      BY <1>0, <2>1, <3>1 DEF Reads, Body, Stream!Hash, Stream!Hex
  <2> QED
    BY <1>3, <2>2, <2>3, <2>4, <2>5
<1> QED
  BY <1>1, <1>2, <1>3 DEF Live

-----------------------------------------------------------------------------
(* Every step keeps the invariant. *)

LEMMA MatchKeeps ==
  ASSUME IInv, Match
  PROVE  IInv'
<1>0. /\ TypeOK /\ start \in Int /\ have \in Int /\ cp \in Int /\ start <= have /\ have <= Len(input)
      /\ MatchInv /\ Len(input) \in Int
  BY DEF IInv, TypeOK, Match
<1>1. /\ UNCHANGED <<input, have, start, size, pending, goal, resume, tok>>
      /\ state' = Goto(state, Scanned) /\ cp' = cp + 1
      /\ at' = (IF yy_base[state'] = 14 THEN "action" ELSE "match")
      /\ last' = Remembered(state, cp)
  BY DEF Match, Remember, Remembered, JamBase
<1>2. Scanned \in 0 .. 7
  BY <1>0 DEF TypeOK, Scanned, Stream!Char
<1>3. ASSUME /\ state \in 1 .. 12 /\ cp \in start .. have + 1 /\ state' \in 1 .. 13
             /\ at' = "match" => MatchInv'
             /\ at' = "action" => ActionInv'
      PROVE  IInv'
  <2>1. last' \in [state : 0 .. 12, cpos : 0 .. have + 1]
    BY <1>0, <1>1, <1>3 DEF Remembered, TypeOK
  <2>2. TypeOK'
    BY <1>0, <1>1, <1>3, <2>1 DEF TypeOK
  <2> QED
    BY <1>0, <1>1, <1>3, <2>2 DEF IInv, Moved
<1>4. CASE state = 3 /\ Marked(cp)
  <2>1. state' = 13 /\ at' = "action"
    BY <1>1, <1>2, <1>4, Transitions, Bases
  <2>2. last' = [state |-> 3, cpos |-> cp]
    BY <1>1, <1>4, Accepts DEF Remembered
  <2>3. Found' = [state |-> 3, cpos |-> cp] /\ Act' = EOB
    BY <2>1, <2>2, Accepts DEF Found, Act, EOB
  <2>4. Marked(Found.cpos)'
    BY <1>1, <1>4, <2>3 DEF Marked, Begun, Reads, Body
  <2> QED
    BY <1>0, <1>3, <1>4, <2>1, <2>3, <2>4 DEF ActionInv, Marked
<1>5. CASE Reading /\ Scanned = 0
  <2>1. state' = 3 /\ at' = "match"
    BY <1>1, <1>5, Transitions, Bases DEF Reading
  <2>2. cp \in start .. have /\ (cp < have => input[cp + 1] = 0)
    BY <1>5 DEF Reading, Reads, Scanned
  <2>3. Marked(cp)'
    BY <1>0, <1>1, <1>5, <2>2 DEF Marked, Begun, Reading, Reads, Body, Stream!Nul
  <2> QED
    BY <1>0, <1>3, <1>5, <2>1, <2>2, <2>3 DEF MatchInv, Reading, Live
<1>6. CASE Reading /\ Scanned # 0
  <2>0. /\ cp < have /\ input[cp + 1] # 0 /\ state' = Goto(state, input[cp + 1])
        /\ cp \in start .. have /\ state \in Live /\ Reads(state, cp)
        /\ state \in {9, 10, 11} => last = Dollar
    BY <1>0, <1>1, <1>6 DEF Reading, Reads, Scanned
  <2>1. CASE /\ state' \in {6, 9, 10, 11} /\ Reads(state', cp + 1)
             /\ state' # 6 => Remembered(state, cp) = Dollar
    <3>1. at' = "match"
      BY <1>1, <2>1, Bases
    <3>2. Reading'
      BY <1>1, <2>1 DEF Reading, Live, Reads, Body, Dollar
    <3> QED
      BY <1>0, <1>3, <2>0, <2>1, <3>1, <3>2 DEF MatchInv, Live
  <2>2. CASE state' \in {4, 5, 7, 8, 12} /\ Cuts(state', cp + 1)
    <3>1. at' = "action"
      BY <1>1, <2>2, Bases
    <3>2. /\ Found' = [state |-> state', cpos |-> cp']
          /\ Act' \in 1 .. 5
      BY <2>2, Accepts DEF Found, Act
    <3>3. Cuts(Found.state, Found.cpos)'
      BY <1>1, <2>2, <3>2 DEF Cuts, NoPacket, Stream!IsPacket
    <3> QED
      BY <1>0, <1>3, <2>0, <2>2, <3>1, <3>2, <3>3 DEF ActionInv, Live
  <2>3. CASE /\ state' = 13 /\ Remembered(state, cp).state \in {4, 6}
             /\ Cuts(Remembered(state, cp).state, Remembered(state, cp).cpos)
    <3>1. at' = "action"
      BY <1>1, <2>3, Bases
    <3>2. Found' = last' /\ Act' \in 1 .. 5
      BY <1>1, <2>3, Accepts DEF Found, Act
    <3>3. Cuts(Found.state, Found.cpos)'
      BY <1>1, <2>3, <3>2 DEF Cuts, NoPacket, Stream!IsPacket
    <3> QED
      BY <1>0, <1>3, <2>0, <2>3, <3>1, <3>2, <3>3 DEF ActionInv, Live
  <2> QED
    BY <1>0, <2>0, <2>1, <2>2, <2>3, Character DEF Stream!Nul
<1> QED
  BY <1>0, <1>4, <1>5, <1>6 DEF MatchInv

LEMMA RuleKeeps ==
  ASSUME IInv, Rule
  PROVE  IInv'
<1>1. /\ TypeOK /\ ActionInv /\ Act \in 1 .. 5
      /\ start \in Int /\ have \in Int /\ size \in Int
  BY DEF IInv, TypeOK, Rule
<1>2. Found.cpos \in start + 1 .. have
  BY <1>1 DEF ActionInv, EOB, Cuts
<1>3. TypeOK'
  BY <1>1, <1>2 DEF TypeOK, Rule
<1>4. Reading'
  BY <1>1, <1>2 DEF Rule, Reading, Reads, Live
<1> QED
  BY <1>1, <1>2, <1>3, <1>4 DEF IInv, Rule, Moved, MatchInv

\* A replay starts in the first state.
LEMMA ReplayStarts ==
  ASSUME IInv, NEW to, NEW next, Replay(to, next), UNCHANGED <<input, start>>, have' >= have,
         have' \in 0 .. Len(input),
         Begun(to), to \in Int, next \in {"match", "action", "nul"},
         next = "nul" => to < have /\ input[to + 1] = Stream!Nul,
         next = "action" => to > start /\ to = Len(input)
  PROVE  at' = "replay" /\ ReplayInv' /\ goal' \in 0 .. have' /\ state' = 1 /\ cp' = start
<1>1. start \in Int /\ have \in Int /\ 0 <= start /\ start <= have
  BY DEF IInv, TypeOK
<1>2. Reading'
  BY <1>1 DEF Replay, Reading, Reads, Live
<1>3. Begun(goal)' /\ goal' \in start .. have
  BY <1>1 DEF Replay, Begun, Reads, Body
<1> QED
  BY <1>1, <1>2, <1>3 DEF Replay, ReplayInv

LEMMA EndOfBufferKeeps ==
  ASSUME IInv, EndOfBuffer
  PROVE  IInv'
<1>1. /\ TypeOK /\ ActionInv /\ Act = EOB
      /\ start \in Int /\ have \in Int /\ have <= Len(input) /\ start <= have /\ 0 <= start
  BY DEF IInv, TypeOK, EndOfBuffer
<1>2. Marked(Found.cpos)
  BY <1>1 DEF ActionInv, EOB
<1>3. CASE Found.cpos <= have
  <2>1. Replay(Found.cpos - 1, "nul")
    BY <1>3 DEF EndOfBuffer
  <2>2. at' = "replay" /\ ReplayInv' /\ goal' \in 0 .. have' /\ state' = 1 /\ cp' = start
    BY <1>1, <1>2, <1>3, <2>1, ReplayStarts DEF Marked, EndOfBuffer, TypeOK
  <2>3. TypeOK'
    BY <1>1, <1>3, <2>1, <2>2 DEF TypeOK, EndOfBuffer, Replay
  <2> QED
    BY <1>1, <2>2, <2>3 DEF IInv, EndOfBuffer, Moved
<1>4. CASE Found.cpos > have
  <2>1. /\ Found.cpos = have + 1 /\ at' = "fill" /\ cp' = have
        /\ UNCHANGED <<input, have, start, state, last, size, pending, goal, resume, tok>>
    BY <1>1, <1>2, <1>4 DEF Marked, EndOfBuffer
  <2>2. TypeOK'
    BY <1>1, <2>1 DEF TypeOK
  <2>3. FillInv'
    BY <1>1, <1>2, <2>1 DEF Marked, EndOfBuffer, FillInv, Begun, Reads, Body
  <2> QED
    BY <1>1, <1>4, <2>1, <2>2, <2>3 DEF IInv, EndOfBuffer, Moved
<1> QED
  BY <1>1, <1>2, <1>3, <1>4 DEF Marked

LEMMA PreviousStateKeeps ==
  ASSUME IInv, PreviousState
  PROVE  IInv'
<1>1. /\ TypeOK /\ ReplayInv /\ cp < goal /\ last' = Remembered(state, cp)
      /\ state' = Goto(state, Class(input[cp + 1])) /\ cp' = cp + 1
      /\ UNCHANGED <<input, have, start, size, pending, at, goal, resume, tok>>
      /\ at = "replay"
      /\ cp \in Int /\ start \in Int /\ have \in Int /\ goal \in Int /\ goal <= have
  BY DEF IInv, TypeOK, PreviousState, Remember, Remembered, Class
<1>2. /\ state' \in Live /\ Reads(state', cp + 1)
      /\ state' \in {9, 10, 11} => Remembered(state, cp) = Dollar
  <2>1. PICK u \in Live : Reads(u, goal)
    BY <1>1 DEF ReplayInv, Begun
  <2> QED
    BY <1>1, <2>1, Replayed DEF ReplayInv, Reading
<1>3. Reading'
  BY <1>1, <1>2 DEF Reading, Reads, Body, Dollar
<1>4. Begun(goal)'
  BY <1>1 DEF ReplayInv, Begun, Reads, Body
<1>5. last' \in [state : 0 .. 12, cpos : 0 .. have + 1]
  BY <1>1 DEF ReplayInv, Reading, Reads, Live, Remembered, TypeOK
<1>6. TypeOK'
  BY <1>1, <1>2, <1>5 DEF TypeOK, Live
<1> QED
  BY <1>1, <1>3, <1>4, <1>6 DEF IInv, ReplayInv, Moved

LEMMA PreviousStateEndsKeeps ==
  ASSUME IInv, PreviousStateEnds
  PROVE  IInv'
<1>1. /\ TypeOK /\ ReplayInv /\ cp = goal /\ at' = resume /\ at = "replay"
      /\ UNCHANGED <<input, have, start, cp, state, last, size, pending, goal, resume, tok>>
  BY DEF IInv, PreviousStateEnds
<1>2. TypeOK' /\ (Reading /\ cp = goal)'
  BY <1>1 DEF TypeOK, ReplayInv, Reading, Reads, Body, Dollar
<1>3. CASE resume = "match"
  BY <1>1, <1>2, <1>3 DEF IInv, MatchInv, Moved
<1>4. CASE resume = "nul"
  BY <1>1, <1>2, <1>4 DEF IInv, ReplayInv, NulInv, Moved
<1>5. CASE resume = "action"
  <2>1. state \in Live \ {1} /\ Reads(state, cp) /\ cp = Len(input)
        /\ (state \in {9, 10, 11} => last = Dollar)
    BY <1>1, <1>5 DEF ReplayInv, Reading, Reads, TypeOK
  <2>2. /\ yy_accept[Remembered(state, cp).state] = 4
        /\ Cuts(Remembered(state, cp).state, Remembered(state, cp).cpos)
    BY <1>1, <2>1, Stuck
  <2>3. Found = Remembered(state, cp)
    BY DEF Found, Remembered
  <2>4. ActionInv
    BY <1>1, <2>2, <2>3 DEF ActionInv, Act, TypeOK
  <2>5. ActionInv'
    BY <1>1, <2>4 DEF ActionInv, Act, Found, Cuts, NoPacket, Stream!IsPacket, Marked, Begun, Reads, Body
  <2> QED
    BY <1>1, <1>2, <1>5, <2>5 DEF IInv, Moved
<1> QED
  BY <1>1, <1>3, <1>4, <1>5 DEF ReplayInv

LEMMA NulTransitionKeeps ==
  ASSUME IInv, NulTransition
  PROVE  IInv'
<1>1. /\ TypeOK /\ NulInv /\ last' = Remembered(state, cp) /\ at = "nul"
      /\ UNCHANGED <<input, have, start, size, pending, goal, resume, tok>>
      /\ cp \in start .. have /\ state \in Live /\ Reads(state, cp)
      /\ (state \in {9, 10, 11} => last = Dollar)
      /\ cp < have /\ input[cp + 1] = Stream!Nul
      /\ start \in Int /\ have \in Int
  BY DEF IInv, TypeOK, NulTransition, Remember, Remembered, NulInv, Reading, Reads
<1>2. last' \in [state : 0 .. 12, cpos : 0 .. have + 1]
  BY <1>1 DEF Live, Remembered, TypeOK
<1>3. CASE state \in {4, 10, 11}
  <2>1. UNCHANGED <<state, cp>> /\ at' = "action"
    BY <1>3, Transitions DEF NulTransition, Jam
  <2>2. /\ yy_accept[Remembered(state, cp).state] = 4
        /\ Cuts(Remembered(state, cp).state, Remembered(state, cp).cpos)
    BY <1>1, <1>3, Stuck
  <2>3. Found' = Remembered(state, cp)
    BY <1>1, <2>1 DEF Found, Remembered
  <2>4. ActionInv'
    BY <1>1, <2>1, <2>2, <2>3
       DEF ActionInv, Act, TypeOK, Cuts, NoPacket, Stream!IsPacket
  <2>5. TypeOK'
    BY <1>1, <1>2, <2>1 DEF TypeOK
  <2> QED
    BY <1>1, <2>1, <2>4, <2>5 DEF IInv, Moved
<1>4. CASE state \in {1, 6, 9}
  <2>1. /\ state' = (IF state = 1 THEN 4 ELSE 9) /\ cp' = cp + 1 /\ at' = "match"
    BY <1>4, Transitions DEF NulTransition, Jam
  <2>2. state' = 9 => Remembered(state, cp) = Dollar
    BY <1>1, <1>4, <2>1, RememberedDollar
  <2>3. Reading'
    BY <1>1, <1>4, <2>1, <2>2
       DEF Reading, Reads, Body, Live, Dollar, Stream!Nul, Stream!Dollar, Stream!Hash
  <2>4. TypeOK'
    BY <1>1, <1>2, <2>1 DEF TypeOK
  <2> QED
    BY <1>1, <2>1, <2>3, <2>4 DEF IInv, Moved, MatchInv
<1> QED
  BY <1>1, <1>3, <1>4 DEF Live

-----------------------------------------------------------------------------
(* The buffer. *)

LEMMA LeastOfThree ==
  ASSUME NEW a \in Int, NEW b \in Int, NEW c \in Int
  PROVE  /\ Least({a, b, c}) \in {a, b, c}
         /\ Least({a, b, c}) <= a /\ Least({a, b, c}) <= b /\ Least({a, b, c}) <= c
<1>1. \E n \in {a, b, c} : \A m \in {a, b, c} : n <= m
  <2>1. CASE a <= b /\ a <= c
    BY <2>1
  <2>2. CASE b <= a /\ b <= c
    BY <2>2
  <2>3. CASE c <= a /\ c <= b
    BY <2>3
  <2> QED
    BY <2>1, <2>2, <2>3
<1> QED
  BY <1>1 DEF Least

\* One doubling makes room, and read returns at least one character as long as
\* some have not been read.
LEMMA GrownRoom ==
  ASSUME TypeOK, size >= 2, Moved <= size - 1
  PROVE  /\ Grown \in Nat /\ Grown >= size /\ Room(Grown) \in Int /\ Room(Grown) > 0
         /\ Least({Room(Grown), ReadSize, Len(input) - have}) \in Int
         /\ Readable = IF have = Len(input) THEN {0}
                       ELSE 1 .. Least({Room(Grown), ReadSize, Len(input) - have})
<1>1. start \in Int /\ have \in Int /\ size \in Int /\ have <= Len(input) /\ Len(input) \in Int
  BY DEF TypeOK
<1>2. Grown \in Nat /\ Grown >= size /\ Room(Grown) \in Int /\ Room(Grown) > 0
  BY <1>1 DEF Grown, Room, Moved
<1> DEFINE most == Least({Room(Grown), ReadSize, Len(input) - have})
<1>3. /\ most \in {Room(Grown), ReadSize, Len(input) - have}
      /\ most <= Len(input) - have
  <2>1. Room(Grown) \in Int /\ ReadSize \in Int /\ Len(input) - have \in Int
    BY <1>1, <1>2, SizeAssumption
  <2> HIDE DEF most
  <2> QED
    BY <2>1, LeastOfThree DEF most
<1>4. most = 0 <=> have = Len(input)
  BY <1>1, <1>2, <1>3, SizeAssumption
<1> QED
  BY <1>1, <1>2, <1>3, <1>4, SizeAssumption DEF Readable

LEMMA FillMoreKeeps ==
  ASSUME IInv, FillMore
  PROVE  IInv'
<1>1. /\ TypeOK /\ FillInv /\ at = "fill" /\ ~pending /\ size >= 2 /\ Moved <= size - 1
      /\ start \in Int /\ have \in Int /\ have <= Len(input) /\ Len(input) \in Int
      /\ Replay(cp, "match") /\ size' = Grown /\ ~pending' /\ 0 <= start /\ start <= have
      /\ UNCHANGED <<input, start, last, pending, tok>>
  BY DEF IInv, TypeOK, FillMore
<1>2. PICK n \in Readable \ {0} : have' = have + n
  BY DEF FillMore
<1>3. /\ Grown \in Nat /\ Grown >= size /\ Room(Grown) \in Int
      /\ n \in 1 .. Least({Room(Grown), ReadSize, Len(input) - have})
  BY <1>1, <1>2, GrownRoom
<1>4. n \in Int /\ n >= 1 /\ n <= Room(Grown) /\ n <= Len(input) - have
  <2>1. Room(Grown) \in Int /\ ReadSize \in Int /\ Len(input) - have \in Int
    BY <1>1, <1>3, SizeAssumption
  <2> DEFINE most == Least({Room(Grown), ReadSize, Len(input) - have})
  <2>2. /\ most \in {Room(Grown), ReadSize, Len(input) - have}
        /\ most <= Room(Grown) /\ most <= Len(input) - have
    BY <2>1, LeastOfThree
  <2> HIDE DEF most
  <2>3. n \in 1 .. most
    BY <1>3 DEF most
  <2> QED
    BY <2>1, <2>2, <2>3
<1>5. have' \in 0 .. Len(input) /\ have' >= have /\ Moved' <= size' - 1
  BY <1>1, <1>2, <1>3, <1>4 DEF Room, Moved, TypeOK
<1>6. at' = "replay" /\ ReplayInv' /\ goal' \in 0 .. have' /\ state' = 1 /\ cp' = start
  BY <1>1, <1>5, ReplayStarts DEF FillInv
<1>7. TypeOK'
  <2>1. last' \in [state : 0 .. 12, cpos : 0 .. have' + 1]
    BY <1>1, <1>5 DEF TypeOK
  <2>2. resume' = "match"
    BY <1>1 DEF Replay
  <2>3. start' \in 0 .. have' /\ cp' \in start' .. have' + 2 /\ size' \in Nat
    <3>1. start' = start /\ cp' = start /\ size' = Grown /\ Grown \in Nat
      BY <1>1, <1>3, <1>6
    <3>2. PICK h \in Int : h = have' /\ 0 <= start /\ start <= h
      BY <1>1, <1>5
    <3>3. start \in 0 .. h /\ start \in start .. h + 2
      <4>1. start \in Int /\ 0 <= start /\ start <= h
        BY <1>1, <3>2
      <4> QED
        BY <4>1
    <3> QED
      BY <3>1, <3>2, <3>3, Zenon
  <2>4. pending' \in BOOLEAN /\ input' \in Seq(Stream!Char) /\ have' \in 0 .. Len(input')
    BY <1>1, <1>5 DEF TypeOK
  <2>5. tok'.rule \in 0 .. 5 /\ tok'.from <= tok'.to /\ tok'.to = start'
    BY <1>1 DEF TypeOK
  <2>6. state' \in 1 .. 13
    BY <1>6
  <2>7. at' \in {"match", "action", "replay", "nul", "fill", "eof"} /\ resume' \in {"match", "action", "nul"}
    BY <1>6, <2>2
  <2> QED
    BY <1>6, <2>1, <2>3, <2>4, <2>5, <2>6, <2>7, Zenon DEF TypeOK
<1>8. size' >= 2
  BY <1>1, <1>3 DEF TypeOK
<1> QED
  BY <1>1, <1>5, <1>6, <1>7, <1>8 DEF IInv

\* No more is read at the end of the stream only.
LEMMA NothingLeft ==
  ASSUME IInv, at = "fill", pending \/ 0 \in Readable
  PROVE  /\ have = Len(input)
         /\ size' = (IF pending THEN size ELSE Grown) => size' \in Nat /\ size' >= size
<1>1. TypeOK /\ size >= 2 /\ Moved <= size - 1 /\ size \in Nat
  BY DEF IInv, TypeOK
<1>2. Grown \in Nat /\ Grown >= size
  BY <1>1, GrownRoom
<1>3. CASE pending
  BY <1>1, <1>2, <1>3 DEF IInv
<1>4. CASE 0 \in Readable
  BY <1>1, <1>2, <1>4, GrownRoom
<1> QED
  BY <1>3, <1>4

LEMMA LastMatchKeeps ==
  ASSUME IInv, LastMatch
  PROVE  IInv'
<1>1. /\ TypeOK /\ FillInv /\ at = "fill" /\ Moved > 0 /\ pending' = TRUE
      /\ start \in Int /\ have \in Int /\ start <= have /\ size >= 2 /\ Moved <= size - 1
      /\ Replay(cp, "action") /\ size' = (IF pending THEN size ELSE Grown)
      /\ UNCHANGED <<input, have, start, last, tok>>
  BY DEF IInv, TypeOK, LastMatch
<1>2. have = Len(input) /\ size' \in Nat /\ size' >= size
  BY <1>1, NothingLeft DEF LastMatch
<1>3. at' = "replay" /\ ReplayInv' /\ goal' \in 0 .. have' /\ state' = 1 /\ cp' = start
  BY <1>1, <1>2, ReplayStarts DEF FillInv, Moved, TypeOK
<1>4. TypeOK'
  BY <1>1, <1>2, <1>3 DEF TypeOK, Replay
<1> QED
  BY <1>1, <1>2, <1>3, <1>4 DEF IInv, Moved, TypeOK

LEMMA EndOfFileKeeps ==
  ASSUME IInv, EndOfFile
  PROVE  IInv' /\ start = Len(input)
<1>1. /\ TypeOK /\ at = "fill" /\ Moved = 0 /\ pending' = FALSE /\ at' = "eof"
      /\ start \in Int /\ have \in Int /\ size >= 2 /\ Moved <= size - 1
      /\ size' = (IF pending THEN size ELSE Grown)
      /\ UNCHANGED <<input, have, start, cp, state, last, goal, resume, tok>>
  BY DEF IInv, TypeOK, EndOfFile, Restart
<1>2. have = Len(input) /\ size' \in Nat /\ size' >= size /\ start = have
  BY <1>1, NothingLeft DEF EndOfFile, Moved
<1>3. TypeOK'
  BY <1>1, <1>2 DEF TypeOK
<1> QED
  BY <1>1, <1>2, <1>3 DEF IInv, Moved, TypeOK

LEMMA InitInv ==
  ASSUME Init
  PROVE  IInv
<1>1. input \in Seq(Stream!Char) /\ Len(input) \in Nat
  BY InputsAssumption DEF Init
<1>2. TypeOK
  <2>1. last \in [state : 0 .. 12, cpos : 0 .. have + 1]
    BY DEF Init
  <2>2. tok.rule \in 0 .. 5 /\ tok.from <= tok.to /\ tok.to = start
    BY DEF Init, Stream!NoToken
  <2>3. size \in Nat /\ pending \in BOOLEAN
    BY SizeAssumption DEF Init
  <2>4. /\ have \in 0 .. Len(input) /\ start \in 0 .. have /\ cp \in start .. have + 2
        /\ state \in 1 .. 13 /\ goal \in 0 .. have
    BY <1>1 DEF Init
  <2>5. at = "match" /\ resume = "match"
    BY DEF Init
  <2> QED
    BY <1>1, <2>1, <2>2, <2>3, <2>4, <2>5 DEF TypeOK
<1>3. Reading
  BY DEF Init, Reading, Reads, Live
<1> QED
  BY <1>2, <1>3, SizeAssumption DEF Init, IInv, MatchInv, Moved

LEMMA Invariance ==
  ASSUME IInv, [Next]_vars
  PROVE  IInv'
<1>1. CASE UNCHANGED vars
  BY <1>1 DEF vars, IInv, TypeOK, Moved, MatchInv, Reading, Reads, Body, Marked, Begun, Dollar,
     ActionInv, Act, Found, Cuts, NoPacket, Stream!IsPacket, ReplayInv, NulInv, FillInv
<1> QED
  BY <1>1, MatchKeeps, RuleKeeps, EndOfBufferKeeps, PreviousStateKeeps, PreviousStateEndsKeeps,
     NulTransitionKeeps, FillMoreKeeps, LastMatchKeeps, EndOfFileKeeps
     DEF Next, yylex, Ended

THEOREM Inductive == Spec => []IInv
BY InitInv, Invariance, PTL DEF Spec

-----------------------------------------------------------------------------
(* What follows. *)

\* The variables of yylex keep their types, and no pointer leaves the buffer and
\* its marks.
THEOREM TypeCorrect == Spec => []TypeOK
<1>1. IInv => TypeOK
  BY DEF IInv
<1> QED
  BY <1>1, Inductive, PTL

\* Whatever the size of the buffer, it grows before a longer token is read over,
\* and read is never called without room.
THEOREM BufferGrows == Spec => []BufferFits
<1>1. IInv => BufferFits
  BY GrownRoom DEF IInv, BufferFits
<1> QED
  BY <1>1, Inductive, PTL

\* Whatever the stream and its pieces, read is called for the rest of a packet,
\* or after a nul alone, never after a complete token.
THEOREM WaitsInside == Spec => []WaitsOnlyInsidePacket
<1>1. ASSUME IInv, at = "fill", ~pending
      PROVE  Pending \in {<<>>, <<Stream!Nul>>} \/ BeginsPacket(Pending)
  <2>0. /\ start \in Int /\ have \in Int /\ start <= have /\ have <= Len(input) /\ 0 <= start
        /\ input \in Seq(Stream!Char)
    BY <1>1 DEF IInv, TypeOK
  <2>1. PICK s \in Live : Reads(s, have)
    BY <1>1 DEF IInv, FillInv, Begun
  <2>2. /\ Len(Pending) = have - start
        /\ \A i \in 1 .. have - start : Pending[i] = input[start + i]
    BY <2>0 DEF Pending
  <2>3. CASE s = 1
    BY <2>0, <2>1, <2>3 DEF Pending, Reads
  <2>4. CASE s = 4
    <3>1. have = start + 1 /\ input[start + 1] = Stream!Nul
      BY <2>1, <2>4 DEF Reads
    <3>2. Pending = <<Stream!Nul>>
      <4>1. Len(Pending) = 1 /\ Pending[1] = Stream!Nul
        BY <2>0, <2>2, <3>1
      <4>2. Pending \in Seq(Stream!Char)
        <5>1. \A n \in start + 1 .. have : input[n] \in Stream!Char
          BY <2>0
        <5> QED
          BY <2>0, <5>1 DEF Pending
      <4> QED
        BY <4>1, <4>2
    <3> QED
      BY <3>2
  <2>5. CASE s \in {6, 9}
    <3>1. /\ have >= start + 1 /\ input[start + 1] = Stream!Dollar
          /\ \A k \in start + 2 .. have : input[k] \notin {Stream!Dollar, Stream!Hash}
      BY <2>0, <2>1, <2>5 DEF Reads, Body
    <3>2. Pending[1] = Stream!Dollar
      BY <2>0, <2>2, <3>1
    <3>3. \A k \in 2 .. Len(Pending) : Pending[k] \notin {Stream!Dollar, Stream!Hash}
      BY <2>0, <2>2, <3>1
    <3> QED
      BY <3>2, <3>3 DEF BeginsPacket
  <2>6. CASE s \in {10, 11}
    <3> DEFINE h == IF s = 10 THEN have ELSE have - 1
               j == h - start
    <3>1. /\ h >= start + 2 /\ input[start + 1] = Stream!Dollar /\ input[h] = Stream!Hash
          /\ \A k \in start + 2 .. h - 1 : input[k] \notin {Stream!Dollar, Stream!Hash}
          /\ \A k \in h + 1 .. have : input[k] = Stream!Hex
          /\ h \in {have - 1, have}
      BY <2>0, <2>1, <2>6 DEF Reads, Body
    <3> HIDE DEF h
    <3>2. Pending[1] = Stream!Dollar
      BY <2>0, <2>2, <3>1
    <3>0. j \in 1 .. have - start /\ start + j = h /\ j # 1
      BY <2>0, <3>1
    <3>3. j \in {Len(Pending) - 1, Len(Pending)} \ {1} /\ Pending[j] = Stream!Hash
      BY <2>0, <2>2, <3>0, <3>1
    <3>4. /\ \A k \in 2 .. j - 1 : Pending[k] \notin {Stream!Dollar, Stream!Hash}
          /\ \A k \in j + 1 .. Len(Pending) : Pending[k] = Stream!Hex
      BY <2>0, <2>2, <3>0, <3>1
    <3> QED
      BY <3>2, <3>3, <3>4 DEF BeginsPacket
  <2> QED
    BY <2>1, <2>3, <2>4, <2>5, <2>6 DEF Live
<1>2. IInv => WaitsOnlyInsidePacket
  BY <1>1 DEF WaitsOnlyInsidePacket
<1> QED
  BY <1>2, Inductive, PTL

-----------------------------------------------------------------------------
(* The refinement of TokenStream. *)

LEMMA RuleCuts ==
  ASSUME IInv, Rule
  PROVE  Stream!Next
<1>1. /\ TypeOK /\ ActionInv /\ Act \in 1 .. 5 /\ at = "action" /\ at' = "match"
      /\ start \in Int /\ have \in Int /\ have <= Len(input) /\ Len(input) \in Int /\ 0 <= start
      /\ start' = Found.cpos /\ tok' = [rule |-> Act, from |-> start, to |-> Found.cpos]
      /\ input' = input
  BY DEF IInv, TypeOK, Rule
<1>2. Cuts(Found.state, Found.cpos) /\ Found.cpos \in start + 1 .. have
  BY <1>1 DEF ActionInv, EOB, Cuts
<1>3. ASSUME NEW rule, rule = Act PROVE Stream!Cut(rule, Found.cpos)
  BY <1>1, <1>3 DEF Stream!Cut
<1>4. CASE Found.state = 12 /\ Stream!IsPacket(input, start, Found.cpos)
  <2>1. Act = 3
    BY <1>4, Accepts DEF Act
  <2>2. Found.cpos \in 1 .. Len(input)
    BY <1>1, <1>2
  <2>3. Stream!Packet
    BY <1>3, <1>4, <2>1, <2>2 DEF Stream!Packet
  <2> QED
    BY <2>3 DEF Stream!Next
<1>5. CASE /\ yy_accept[Found.state] = Stream!RuleOf(input[start + 1])
           /\ Found.cpos = start + 1 /\ NoPacket
  <2>1. Stream!Cut(Stream!RuleOf(input[start + 1]), start + 1)
    BY <1>3, <1>5 DEF Act
  <2>2. Stream!Single
    BY <1>1, <1>2, <1>5, <2>1 DEF Stream!Single, NoPacket
  <2> QED
    BY <2>2 DEF Stream!Next
<1> QED
  BY <1>2, <1>4, <1>5 DEF Cuts

LEMMA StepRefines ==
  ASSUME IInv, [Next]_vars
  PROVE  Stream!Next \/ UNCHANGED Stream!vars
<1>1. CASE Rule
  BY <1>1, RuleCuts
<1>2. CASE EndOfFile
  <2>1. start = Len(input) /\ UNCHANGED <<input, start, tok>> /\ at # "eof" /\ at' = "eof"
    BY <1>2, EndOfFileKeeps DEF EndOfFile, Restart
  <2> QED
    BY <2>1 DEF Stream!Next, Stream!End
<1>3. CASE Match \/ EndOfBuffer \/ PreviousState \/ PreviousStateEnds \/ NulTransition
           \/ FillMore \/ LastMatch
  <2>1. UNCHANGED <<input, start, tok>>
    BY <1>3 DEF Match, EndOfBuffer, PreviousState, PreviousStateEnds, NulTransition,
       FillMore, LastMatch
  <2>2. at # "eof" /\ at' # "eof"
    BY <1>3 DEF IInv, TypeOK, Match, EndOfBuffer, PreviousState, PreviousStateEnds, NulTransition,
       FillMore, LastMatch, Replay
  <2> QED
    BY <2>1, <2>2 DEF Stream!vars
<1>4. CASE UNCHANGED vars
  BY <1>4 DEF vars, Stream!vars
<1> QED
  BY <1>1, <1>2, <1>3, <1>4 DEF Next, yylex, Ended

\* Whatever the stream, the pieces in which read returns it and the size of the
\* buffer: the tokens yylex cuts are those of the rules of scanner.l, and it
\* meets the end of the stream after the last of them. That it comes there is
\* left to TLC.
THEOREM Implements == Spec => CutsByRules
<1>1. Init => Stream!Init
  BY DEF Init, Stream!Init, Stream!NoToken
<1> QED
  BY <1>1, StepRefines, Inductive, PTL DEF Spec, CutsByRules, Stream!Spec
=============================================================================
