----------------------------- MODULE RemoteCall -----------------------------
(***************************************************************************)
(* What a debugger expects of the simulator behind the link: it makes one  *)
(* call at a time, each is executed once and its answer is its result.     *)
(* Once the link has added or lost characters (noisy), only this is left:  *)
(* no call is executed that has not been made, nor one older than the last *)
(* executed.                                                               *)
(***************************************************************************)
EXTENDS Integers, Sequences

CONSTANTS Size,   \* the bytes of the memory
          Op,     \* the calls the debugger makes
          Pc,     \* where the program can be after a step
          MaxRun  \* the steps it makes when continued, at most

VARIABLES mem, regs,   \* the simulated program: its memory, its registers,
          steps, stop, \* how far it has run, why it stopped after its last step
          calls,       \* the calls made, in order
          served,      \* the number of the last one executed
          result,      \* its result
          waiting,     \* is the debugger waiting for an answer?
          answer,      \* the last it got
          noisy

program == <<mem, regs, steps, stop>>
vars == <<program, calls, served, result, waiting, answer, noisy>>

Address == 0 .. Size - 1
None == <<"none">>

\* Values written to the pc lose their bit 1 when they are read back. Register
\* numbers are read as decimal by p: r10 to r15 are not what it answers with.
Kept(n, v) == IF n = 15 /\ (v \div 2) % 2 = 1 THEN v - 2 ELSE v
Named(n) == IF n < 10 THEN n ELSE 0

Init == /\ mem = [a \in Address |-> 0]
        /\ DOMAIN regs = 0 .. 16 /\ \A n \in 0 .. 15 : regs[n] = 0
        /\ steps = 0 /\ stop = "S05"
        /\ calls = <<>> /\ served = 0 /\ result = None
        /\ waiting = FALSE /\ answer = None /\ noisy = FALSE

Call == /\ ~waiting
        /\ \E op \in Op : calls' = Append(calls, op)
        /\ waiting' = TRUE
        /\ UNCHANGED <<program, served, result, answer, noisy>>

\* The bytes of a read that lie in the memory; a write that meets its end stops
\* there and is refused.
ReadMemory(op) ==
  LET inside == {k \in 1 .. op.size : op.addr + k <= Size}
  IN  /\ result' = <<"bytes", [k \in inside |-> mem[op.addr + k - 1]]>>
      /\ UNCHANGED program

WriteMemory(op) ==
  /\ mem' = [a \in Address |-> IF a - op.addr + 1 \in 1 .. op.size
                               THEN op.data[a - op.addr + 1] ELSE mem[a]]
  /\ result' = IF op.addr < Size /\ op.addr + op.size <= Size THEN <<"OK">> ELSE <<"E02">>
  /\ UNCHANGED <<regs, steps, stop>>

WriteRegisters(new) == /\ regs' = new /\ result' = <<"OK">>
                       /\ UNCHANGED <<mem, steps, stop>>

\* Some steps, of which the last says why the program stopped.
Run(n) == /\ steps' = steps + n
          /\ \E pc \in Pc : regs' = [regs EXCEPT ![15] = pc]
          /\ stop' \in {"S04", "S05", "S10"}
          /\ result' = <<stop'>>
          /\ UNCHANGED mem

Answer(r) == result' = r /\ UNCHANGED program

\* A continue that meets a breakpoint at once makes no step, and answers with
\* the reason of an earlier one.
Effect(op) ==
  \/ op.kind = "m" /\ ReadMemory(op)
  \/ op.kind = "X" /\ WriteMemory(op)
  \/ op.kind = "g" /\ Answer(<<"words", regs>>)
  \/ op.kind = "p" /\ Answer(<<"word", regs[Named(op.addr)]>>)
  \/ op.kind = "G" /\ WriteRegisters([n \in 0 .. 16 |-> Kept(n, op.data[n])])
  \/ op.kind = "P" /\ WriteRegisters([regs EXCEPT ![op.addr] = Kept(op.addr, op.data)])
  \/ op.kind = "s" /\ Run(1)
  \/ op.kind = "c" /\ ((\E n \in 1 .. MaxRun : Run(n)) \/ Answer(<<stop>>))
  \/ op.kind = "?" /\ Answer(<<stop>>)
  \/ op.kind = "z" /\ Answer(<<"">>)

Execute(k) ==
  /\ k \in 1 .. Len(calls)
  /\ IF noisy THEN k >= served ELSE waiting /\ k = Len(calls) /\ k = served + 1
  /\ served' = k
  /\ Effect(calls[k])
  /\ UNCHANGED <<calls, waiting, answer, noisy>>

Return == /\ waiting
          /\ waiting' = FALSE
          /\ noisy \/ (served = Len(calls) /\ answer' = result)
          /\ UNCHANGED <<program, calls, served, result, noisy>>

Noise == /\ noisy' = TRUE
         /\ UNCHANGED <<program, calls, served, result, waiting, answer>>

Next == Call \/ (\E k \in 1 .. Len(calls) : Execute(k)) \/ Return \/ Noise

Spec == Init /\ [][Next]_vars
=============================================================================
