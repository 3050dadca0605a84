------------------------------ MODULE Scanner ------------------------------
(***************************************************************************)
(* yylex, the scanner flex generates from scanner.l: an automaton held in  *)
(* compressed tables, run over a buffer that read fills with what has      *)
(* arrived and whose end two nul characters mark. When they are met inside *)
(* a token, the rest of the token is read and the automaton run again from *)
(* the token's beginning; a nul of the stream itself is told from the mark *)
(* by its place.                                                           *)
(*                                                                         *)
(* Pointers into yy_ch_buf are places in the stream, what the moves of the *)
(* buffer leave alone. A character is its class in yy_ec.                  *)
(***************************************************************************)
EXTENDS Integers, Sequences

CONSTANTS Inputs,    \* the streams gdb may send
          BufSize,   \* YY_BUF_SIZE
          ReadSize   \* YY_READ_BUF_SIZE

ASSUME SizeAssumption == /\ BufSize \in Nat /\ BufSize >= 2
                         /\ ReadSize \in Nat /\ ReadSize > 0

VARIABLES
  input,    \* the stream, up to the end of the connection
  have,     \* how much of it read has returned
  start,    \* yytext_ptr: where the token being matched begins
  cp,       \* yy_cp, or yy_c_buf_p between two runs of the automaton
  state,    \* yy_current_state
  last,     \* yy_last_accepting_state and yy_last_accepting_cpos
  size,     \* yy_buf_size
  pending,  \* yy_buffer_status = YY_BUFFER_EOF_PENDING
  at,       \* where yylex is
  goal,     \* where yy_get_previous_state stops
  resume,   \* where yylex goes on after yy_get_previous_state
  tok       \* the last rule executed, with the place of yytext

vars == <<input, have, start, cp, state, last, size, pending, at, goal, resume, tok>>

Stream == INSTANCE TokenStream WITH from <- start, over <- (at = "eof")

ASSUME InputsAssumption == Inputs \subseteq Seq(Stream!Char)

-----------------------------------------------------------------------------
(* The tables, indexed from 0 as in C. *)

Table(s) == [i \in 0 .. Len(s) - 1 |-> s[i + 1]]

yy_accept == Table(<<0, 0, 0, 6, 4, 5, 4, 1, 2, 0, 0, 0, 3, 0>>)
yy_meta == Table(<<0, 1, 1, 1, 2, 1, 1, 1>>)
yy_base == Table(<<0, 0, 0, 13, 14, 14, 9, 14, 14, 8, 3, 2, 14, 14, 7>>)
yy_def == Table(<<0, 13, 1, 13, 13, 13, 14, 13, 13, 14, 13, 13, 13, 0, 13>>)
yy_nxt == Table(<<0, 4, 5, 4, 6, 7, 8, 4, 9, 12, 11, 10, 10, 13, 3,
                  13, 13, 13, 13, 13, 13, 13>>)
yy_chk == Table(<<0, 1, 1, 1, 1, 1, 1, 1, 14, 11, 10, 9, 6, 3, 13,
                  13, 13, 13, 13, 13, 13, 13>>)

Jam == 13      \* the state without transitions
JamBase == 14  \* yy_base of the states without transitions
EOB == 6       \* YY_END_OF_BUFFER

\* A row that does not hold a class defers to another; no chain of deferrals is
\* longer than two.
InRow(s, c) == yy_chk[yy_base[s] + c] = s
Deferred(s, c) == IF yy_def[s] >= 14 THEN yy_meta[c] ELSE c

\* A mutant of Goto: the classes of the row deferred to are not mapped.
GotoUnmapped(s, c) ==
  IF InRow(s, c) THEN yy_nxt[yy_base[s] + c]
  ELSE IF InRow(yy_def[s], c) THEN yy_nxt[yy_base[yy_def[s]] + c]
  ELSE yy_nxt[yy_base[yy_def[yy_def[s]]] + c]

Goto(s, c) ==
  LET d == yy_def[s]
      m == Deferred(s, c)
  IN  IF InRow(s, c) THEN yy_nxt[yy_base[s] + c]
      ELSE IF InRow(d, m) THEN yy_nxt[yy_base[d] + m]
      ELSE yy_nxt[yy_base[yy_def[d]] + Deferred(d, m)]

-----------------------------------------------------------------------------
\* The start of gdb_scanner and of yylex: an empty buffer, its two marks.
Init == /\ input \in Inputs
        /\ have = 0 /\ start = 0 /\ cp = 0
        /\ state = 1 /\ last = [state |-> 0, cpos |-> 0]
        /\ size = BufSize /\ pending = FALSE
        /\ at = "match" /\ goal = 0 /\ resume = "match"
        /\ tok = Stream!NoToken

\* What *yy_cp is: a character of the stream, or a mark.
Scanned == IF cp < have THEN input[cp + 1] ELSE 0

\* The last state that accepts is remembered before each transition.
Remember == last' = IF yy_accept[state] # 0 THEN [state |-> state, cpos |-> cp] ELSE last

\* A mutant of Match: the loop stops in the jam state only, as in a scanner
\* that is not interactive.
MatchToJam ==
  /\ at = "match"
  /\ Remember
  /\ state' = Goto(state, Scanned)
  /\ cp' = cp + 1
  /\ at' = IF state' = Jam THEN "action" ELSE "match"
  /\ UNCHANGED <<input, have, start, size, pending, goal, resume, tok>>

\* One turn of the loop of yy_match, which stops as soon as no character can
\* make the token longer.
Match ==
  /\ at = "match"
  /\ Remember
  /\ state' = Goto(state, Scanned)
  /\ cp' = cp + 1
  /\ at' = IF yy_base[state'] = JamBase THEN "action" ELSE "match"
  /\ UNCHANGED <<input, have, start, size, pending, goal, resume, tok>>

\* yy_find_action: in a state that does not accept, back up to the last that did.
Found == IF yy_accept[state] # 0 THEN [state |-> state, cpos |-> cp] ELSE last
Act == yy_accept[Found.state]

\* The rules of scanner.l, and the next token.
Rule ==
  /\ at = "action" /\ Act \in 1 .. 5
  /\ tok' = [rule |-> Act, from |-> start, to |-> Found.cpos]
  /\ start' = Found.cpos /\ cp' = Found.cpos
  /\ state' = 1 /\ at' = "match"
  /\ UNCHANGED <<input, have, last, size, pending, goal, resume>>

\* yy_get_previous_state begins again from yytext_ptr, up to the place to.
Replay(to, next) == /\ at' = "replay" /\ goal' = to /\ resume' = next
                    /\ cp' = start /\ state' = 1

\* The end of the buffer, or a nul of the stream met before it.
EndOfBuffer ==
  /\ at = "action" /\ Act = EOB
  /\ IF Found.cpos <= have
     THEN Replay(Found.cpos - 1, "nul")
     ELSE /\ at' = "fill" /\ cp' = Found.cpos - 1
          /\ UNCHANGED <<state, goal, resume>>
  /\ UNCHANGED <<input, have, start, last, size, pending, tok>>

\* One turn of the loop of yy_get_previous_state: a nul is of the class 1.
PreviousState ==
  /\ at = "replay" /\ cp < goal
  /\ Remember
  /\ state' = Goto(state, IF input[cp + 1] = 0 THEN 1 ELSE input[cp + 1])
  /\ cp' = cp + 1
  /\ UNCHANGED <<input, have, start, size, pending, at, goal, resume, tok>>

PreviousStateEnds ==
  /\ at = "replay" /\ cp = goal
  /\ at' = resume
  /\ UNCHANGED <<input, have, start, cp, state, last, size, pending, goal, resume, tok>>

\* yy_try_NUL_trans, and the branch on its result.
NulTransition ==
  /\ at = "nul"
  /\ Remember
  /\ IF Goto(state, 1) = Jam
     THEN at' = "action" /\ UNCHANGED <<state, cp>>
     ELSE at' = "match" /\ state' = Goto(state, 1) /\ cp' = cp + 1
  /\ UNCHANGED <<input, have, start, size, pending, goal, resume, tok>>

-----------------------------------------------------------------------------
(* yy_get_next_buffer, with the characters of the token at the beginning. *)

Moved == have - start
Room(s) == s - Moved - 1
Least(S) == CHOOSE n \in S : \A m \in S : n <= m

\* A mutant of Grown: the buffer grows when nothing is left of it, not when
\* there is no room to read.
GrownLate == IF Room(size) < 0 THEN 2 * size ELSE size

\* One doubling is enough: the token was in the buffer.
Grown == IF Room(size) <= 0 THEN 2 * size ELSE size

\* How many characters read may return: some of those that have arrived, none
\* at the end of the connection or into no room.
Readable == LET most == Least({Room(Grown), ReadSize, Len(input) - have})
            IN  IF most = 0 THEN {0} ELSE 1 .. most

FillMore ==
  /\ at = "fill" /\ ~pending
  /\ \E n \in Readable \ {0} : have' = have + n
  /\ size' = Grown
  /\ Replay(cp, "match")
  /\ UNCHANGED <<input, start, last, pending, tok>>

\* A mutant of LastMatch: the end of the stream ends the scan inside a token.
LastMatchLost ==
  /\ at = "fill" /\ (pending \/ 0 \in Readable) /\ Moved > 0
  /\ at' = "eof" /\ start' = have
  /\ size' = (IF pending THEN size ELSE Grown)
  /\ UNCHANGED <<input, have, cp, state, last, pending, goal, resume, tok>>

\* A mutant of LastMatch: the scan goes on, as after a read.
LastMatchScans ==
  /\ at = "fill" /\ (pending \/ 0 \in Readable) /\ Moved > 0
  /\ pending' = TRUE
  /\ size' = (IF pending THEN size ELSE Grown)
  /\ Replay(cp, "match")
  /\ UNCHANGED <<input, have, start, last, tok>>

\* At the end of the stream the token is matched with what there is of it.
LastMatch ==
  /\ at = "fill" /\ (pending \/ 0 \in Readable) /\ Moved > 0
  /\ pending' = TRUE
  /\ size' = (IF pending THEN size ELSE Grown)
  /\ Replay(cp, "action")
  /\ UNCHANGED <<input, have, start, last, tok>>

\* yyrestart, of a buffer in which nothing is left: the pointers are where it
\* puts them.
Restart == pending' = FALSE /\ UNCHANGED <<have, start, cp>>

\* EOB_ACT_END_OF_FILE, yywrap and the <<EOF>> rule.
EndOfFile ==
  /\ at = "fill" /\ (pending \/ 0 \in Readable) /\ Moved = 0
  /\ at' = "eof" /\ Restart
  /\ size' = (IF pending THEN size ELSE Grown)
  /\ UNCHANGED <<input, state, last, goal, resume, tok>>

yylex == \/ Match \/ Rule \/ EndOfBuffer \/ PreviousState \/ PreviousStateEnds
         \/ NulTransition \/ FillMore \/ LastMatch \/ EndOfFile

Ended == at = "eof" /\ UNCHANGED vars

Next == yylex \/ Ended

\* gdb sends its stream and closes the connection.
Spec == Init /\ [][Next]_vars /\ WF_vars(yylex)

-----------------------------------------------------------------------------
TypeOK ==
  /\ input \in Seq(Stream!Char)
  /\ have \in 0 .. Len(input) /\ start \in 0 .. have
  /\ cp \in start .. have + 2
  /\ state \in 1 .. 13
  /\ last \in [state : 0 .. 12, cpos : 0 .. have + 1]
  /\ size \in Nat /\ pending \in BOOLEAN
  /\ at \in {"match", "action", "replay", "nul", "fill", "eof"}
  /\ goal \in 0 .. have /\ resume \in {"match", "action", "nul"}
  /\ tok.rule \in 0 .. 5 /\ tok.from <= tok.to /\ tok.to = start

\* Whatever the pieces in which read returns the stream, and whatever its nuls,
\* the rules executed are those the patterns of scanner.l call for, in order,
\* and the end of the stream is met after the last of them.
CutsByRules == Stream!Spec

\* And it is always met: yylex neither rescans a token for ever nor waits for
\* more of one that the end of the stream has broken off.
EndIsMet == <>(at = "eof")

\* gdb sends a packet and waits for its answer. The scanner never waits for the
\* character after a complete token: what it has not acted upon when it calls
\* read is the beginning of a packet, or a nul alone, which it holds until the
\* next character.
Pending == SubSeq(input, start + 1, have)
BeginsPacket(s) ==
  /\ s[1] = Stream!Dollar
  /\ \/ \A k \in 2 .. Len(s) : s[k] \notin {Stream!Dollar, Stream!Hash}
     \/ \E j \in {Len(s) - 1, Len(s)} \ {1} :
          /\ s[j] = Stream!Hash /\ \A k \in 2 .. j - 1 : s[k] \notin {Stream!Dollar, Stream!Hash}
          /\ \A k \in j + 1 .. Len(s) : s[k] = Stream!Hex
WaitsOnlyInsidePacket ==
  (at = "fill" /\ ~pending) => \/ Pending \in {<<>>, <<Stream!Nul>>}
                               \/ BeginsPacket(Pending)

\* A token longer than the buffer makes it grow before it is read over: the
\* characters of the buffer and the two marks fit in yy_ch_buf, and read is
\* never called without room, which it would answer as the end of the stream.
BufferFits == /\ Moved <= size - 1
              /\ (at = "fill" /\ ~pending) => Room(Grown) > 0
=============================================================================
