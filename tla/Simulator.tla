----------------------------- MODULE Simulator -----------------------------
(***************************************************************************)
(* arm_simulator as a process of three threads: main, which waits for the  *)
(* gdb session and then frees the core; the gdb listener, which runs one   *)
(* packet handler at a time; the irq listener, which raises exceptions.    *)
(* The lock of shared_data is meant to make handlers and exceptions        *)
(* atomic. Each access to the core and to the trace state is a step.       *)
(*                                                                         *)
(* The core is abstracted to what two threads can disagree on: the pc, the *)
(* cpsr, and whether the word at 0 is the breakpoint of cont. It is the    *)
(* only word that can be: memory_read_word gives 0 from address 4 on.      *)
(***************************************************************************)
EXTENDS Integers, Sequences

CONSTANTS Pc,          \* the addresses of the next instruction, 0 among them
          MemSize,     \* the size of the memory: not every pc is inside
          Cpsr,        \* the values of the status register
          ResetCpsr,   \* 0x1d3
          QueueBound,  \* bytes or packets a socket holds for its reader
          CmdBudget,   \* packets the gdb client sends
          IrqBudget    \* bytes the irq clients send

ASSUME SimulatorAssumption == /\ Pc \subseteq Nat /\ 0 \in Pc
                              /\ MemSize \in Nat /\ MemSize > 0
                              /\ ResetCpsr \in Cpsr
                              /\ QueueBound \in Nat
                              /\ CmdBudget \in Nat /\ IrqBudget \in Nat

VARIABLES
  proc,      \* "running" until exit, abort, a signal or the return of main
  lock,      \* the holder of shared.lock, or "free"
  main,      \* where main is: "join", "freeing", "returning"
  at,        \* where each listener is
  in,        \* how many LOCATIONs each has open
  pc, cpsr,  \* registers 15 and 16
  brk,       \* is the word at 0 the breakpoint instruction?
  live,      \* arm_destroy has not been called
  enabled,   \* trace.c: enabled
  depth,     \* trace.c: location_stack_top + 1
  cmd,       \* the packet being handled
  exc,       \* gdb->target_exception
  buf,       \* what the handler has put in gdb->buffer
  client,    \* the gdb connection: "none", "open", "half" (SHUT_WR), "closed"
  packets,   \* packets received and not scanned
  irqClient, \* the irq connection: "none", "open", "closed"
  irqs,      \* bytes received from it and not read
  irq,       \* the byte being handled
  cmdLeft, irqLeft  \* what is left of the clients' budgets

core    == <<pc, cpsr, brk>>
tracing == <<enabled, depth>>
links   == <<client, packets, cmdLeft>>
irqLink == <<irqClient, irqs, irqLeft>>
vars == <<proc, lock, main, at, in, core, live, tracing, cmd, exc, buf,
          links, irqLink, irq>>

Listener == {"gdb", "irq"}

\* The packets gdb_init has a handler for, "p_bad" standing for a p or a P
\* that names a register the assertions refuse; "v" has no handler.
Packet == {"g", "G", "p", "P", "p_bad", "m", "X", "s", "c", "?", "H", "q", "k", "v"}
Handled == Packet \ {"v"}

\* Handlers that suspend the trace while they access the registers.
Quiet == {"g", "G", "p", "P", "c"}

\* What arm_step returns: RESET, or 0 for all the results that arm_exception
\* ignores (nothing raised, a failed store, an undefined instruction, an swi).
RESET == 1
Result == {0, RESET}

\* The values of the byte an irq client sends that arm_exception tells apart.
IrqByte == {RESET, 6}

GdbAt == {"accept", "scan", "empty", "lock", "start", "read_pc", "read_cpsr",
          "write_pc", "write_cpsr", "peek", "enable", "memory", "decide",
          "step", "exc_cpsr", "exc_pc", "state", "loop", "send", "unlock", "done"}
IrqAt == {"accept", "read", "lock", "exc_cpsr", "exc_pc", "unlock"}

\* The places inside an arm_read_ or arm_write_ macro of trace_location.h.
Access == {"read_pc", "read_cpsr", "write_pc", "write_cpsr", "peek",
           "exc_cpsr", "exc_pc", "step"}

\* Only arm_step nests them, the operand of a write being a read:
\* arm_write_cpsr(p, arm_read_cpsr(p) | ..). No operand of a read is an access.
Nesting == 2
Deepest(place) == IF place = "step" THEN Nesting ELSE 1

\* The places reached with the lock held.
GdbHolds == GdbAt \ {"accept", "scan", "empty", "lock", "done"}
IrqHolds == {"exc_cpsr", "exc_pc", "unlock"}

TypeOK ==
  /\ proc \in {"running", "exited"}
  /\ lock \in Listener \cup {"free"}
  /\ main \in {"join", "freeing", "returning"}
  /\ at \in [Listener -> GdbAt \cup IrqAt] /\ at["gdb"] \in GdbAt /\ at["irq"] \in IrqAt
  /\ in \in [Listener -> 0 .. Nesting]
  /\ pc \in Pc /\ cpsr \in Cpsr /\ brk \in BOOLEAN /\ live \in BOOLEAN
  /\ enabled \in BOOLEAN /\ depth \in Int
  /\ cmd \in Packet /\ exc \in Result
  /\ buf \in [pc : Pc, cpsr : Cpsr, brk : BOOLEAN]
  /\ client \in {"none", "open", "half", "closed"}
  /\ packets \in Seq(Packet)
  /\ irqClient \in {"none", "open", "closed"}
  /\ irqs \in Seq(IrqByte) /\ irq \in IrqByte
  /\ cmdLeft \in 0 .. CmdBudget /\ irqLeft \in 0 .. IrqBudget

\* main has created the memory and the core, which arm_create resets, and the
\* two threads. gdb_init_data sets target_exception to 0.
Init ==
  /\ proc = "running" /\ lock = "free" /\ main = "join"
  /\ at = [t \in Listener |-> "accept"] /\ in = [t \in Listener |-> 0]
  /\ pc = 0 /\ cpsr = ResetCpsr /\ brk \in BOOLEAN /\ live = TRUE
  /\ enabled = TRUE /\ depth = 0
  /\ cmd = "?" /\ exc = 0 /\ buf = [pc |-> 0, cpsr |-> ResetCpsr, brk |-> FALSE]
  /\ client = "none" /\ packets = <<>> /\ cmdLeft = CmdBudget
  /\ irqClient = "none" /\ irqs = <<>> /\ irqLeft = IrqBudget /\ irq = RESET

GoTo(t, place) == at' = [at EXCEPT ![t] = place]
Exit == proc' = "exited"

-----------------------------------------------------------------------------
(* The accesses of either listener. *)

\* LOCATION: the first operand of the macro.
Enter(t) ==
  /\ at[t] \in Access /\ in[t] < Deepest(at[t])
  /\ in' = [in EXCEPT ![t] = in[t] + 1]
  /\ depth' = IF enabled THEN depth + 1 ELSE depth
  /\ UNCHANGED <<proc, lock, main, at, core, live, enabled, cmd, exc, buf,
                 links, irqLink, irq>>

\* The access itself and END_LOCATION, which close the macro.
Leave(t, place, next) ==
  /\ at[t] = place /\ in[t] = 1
  /\ in' = [in EXCEPT ![t] = 0]
  /\ depth' = IF enabled THEN depth - 1 ELSE depth
  /\ GoTo(t, next)
  /\ UNCHANGED <<proc, lock, main, live, enabled, cmd, links, irqLink, irq>>

\* arm_exception on RESET: cpsr, then the user register 15. Once the core is
\* freed the store is undefined: it lands nowhere, or the process dies.
ExceptionCpsr(t) ==
  /\ Leave(t, "exc_cpsr", "exc_pc")
  /\ cpsr' = IF live THEN ResetCpsr ELSE cpsr
  /\ UNCHANGED <<pc, brk, exc, buf>>

\* A mutant of ExceptionPc: the address fetched last, one word before the pc.
ExceptionPcFetched(t) ==
  /\ Leave(t, "exc_pc", IF t = "gdb" THEN "state" ELSE "unlock")
  /\ pc' = IF live THEN -4 ELSE pc
  /\ UNCHANGED <<cpsr, brk, exc, buf>>

ExceptionPc(t) ==
  /\ Leave(t, "exc_pc", IF t = "gdb" THEN "state" ELSE "unlock")
  /\ pc' = IF live THEN 0 ELSE pc
  /\ UNCHANGED <<cpsr, brk, exc, buf>>

FreedAccess(t) ==
  /\ at[t] \in Access /\ in[t] > 0 /\ ~live
  /\ Exit
  /\ UNCHANGED <<lock, main, at, in, core, live, tracing, cmd, exc, buf, links,
                 irqLink, irq>>

\* A mutant of Lock: a trylock whose result is ignored.
LockTried(t, next) ==
  /\ at[t] = "lock"
  /\ lock' = IF lock = "free" THEN t ELSE lock
  /\ GoTo(t, next)
  /\ UNCHANGED <<proc, main, in, core, live, tracing, cmd, exc, buf, links,
                 irqLink, irq>>

Lock(t, next) ==
  /\ at[t] = "lock" /\ lock = "free"
  /\ lock' = t
  /\ GoTo(t, next)
  /\ UNCHANGED <<proc, main, in, core, live, tracing, cmd, exc, buf, links,
                 irqLink, irq>>

\* A mutant of Unlock: a return that leaves the lock held.
UnlockForgotten(t, next) ==
  /\ at[t] = "unlock"
  /\ GoTo(t, next)
  /\ UNCHANGED <<proc, lock, main, in, core, live, tracing, cmd, exc, buf, links,
                 irqLink, irq>>

Unlock(t, next) ==
  /\ at[t] = "unlock"
  /\ lock' = "free"
  /\ GoTo(t, next)
  /\ UNCHANGED <<proc, main, in, core, live, tracing, cmd, exc, buf, links,
                 irqLink, irq>>

-----------------------------------------------------------------------------
(* The gdb listener. *)

GdbAccept ==
  /\ at["gdb"] = "accept" /\ client # "none"
  /\ GoTo("gdb", "scan")
  /\ UNCHANGED <<proc, lock, main, in, core, live, tracing, cmd, exc, buf, links,
                 irqLink, irq>>

\* The scanner matches a packet, gdb_packet_analysis acknowledges it. With the
\* sending side shut down the acknowledgement raises SIGPIPE; with the client
\* gone it may.
GdbScan ==
  /\ at["gdb"] = "scan" /\ packets # <<>>
  /\ cmd' = Head(packets) /\ packets' = Tail(packets)
  /\ \/ /\ client # "half"
        /\ GoTo("gdb", IF cmd' \in Handled THEN "lock" ELSE "empty")
        /\ UNCHANGED proc
     \/ client # "open" /\ Exit /\ UNCHANGED at
  /\ UNCHANGED <<lock, main, in, core, live, tracing, exc, buf, client, cmdLeft,
                 irqLink, irq>>

\* A mutant of GdbEof: the listener accepts again instead of ending.
GdbEofAccepts ==
  /\ at["gdb"] = "scan" /\ packets = <<>> /\ client = "closed"
  /\ GoTo("gdb", "accept")
  /\ UNCHANGED <<proc, lock, main, in, core, live, tracing, cmd, exc, buf, links,
                 irqLink, irq>>

\* <<EOF>>, the end of gdb_scanner and of the thread.
GdbEof ==
  /\ at["gdb"] = "scan" /\ packets = <<>> /\ client = "closed"
  /\ GoTo("gdb", "done")
  /\ UNCHANGED <<proc, lock, main, in, core, live, tracing, cmd, exc, buf, links,
                 irqLink, irq>>

\* A request without a handler is answered without the lock, from gdb->packet.
GdbEmpty ==
  /\ at["gdb"] = "empty"
  /\ \/ GoTo("gdb", "scan") /\ UNCHANGED proc
     \/ client # "open" /\ Exit /\ UNCHANGED at
  /\ UNCHANGED <<lock, main, in, core, live, tracing, cmd, exc, buf, links,
                 irqLink, irq>>

\* Where the handler of a packet begins its accesses.
Start == [p \in Handled |->
            CASE p \in {"g", "p", "c"} -> "read_pc"
              [] p \in {"G", "P"} -> "write_pc"
              [] p \in {"m", "X"} -> "memory"
              [] p = "s" -> "step"
              [] p = "k" -> "unlock"
              [] OTHER -> "send"]

\* The call of the handler, and its trace_disable. kill_request shuts the
\* sending side down; the assertion on the register number aborts. The local
\* instruction of cont is not initialised.
GdbStart ==
  /\ at["gdb"] = "start"
  /\ IF cmd = "p_bad" THEN Exit /\ UNCHANGED at
                      ELSE GoTo("gdb", Start[cmd]) /\ UNCHANGED proc
  /\ enabled' = IF cmd \in Quiet THEN FALSE ELSE enabled
  /\ client' = IF cmd = "k" /\ client = "open" THEN "half" ELSE client
  /\ \E b \in BOOLEAN : buf' = IF cmd = "c" THEN [buf EXCEPT !.brk = b] ELSE buf
  /\ UNCHANGED <<lock, main, in, core, live, depth, cmd, exc, packets, cmdLeft,
                 irqLink, irq>>

GdbReadPc ==
  /\ Leave("gdb", "read_pc", CASE cmd = "g" -> "read_cpsr"
                               [] cmd = "p" -> "enable"
                               [] OTHER -> "peek")
  /\ buf' = [buf EXCEPT !.pc = pc]
  /\ UNCHANGED <<core, exc>>

GdbReadCpsr ==
  /\ Leave("gdb", "read_cpsr", "enable")
  /\ buf' = [buf EXCEPT !.cpsr = cpsr]
  /\ UNCHANGED <<core, exc>>

GdbWritePc ==
  /\ Leave("gdb", "write_pc", IF cmd = "G" THEN "write_cpsr" ELSE "enable")
  /\ pc' \in Pc
  /\ UNCHANGED <<cpsr, brk, exc, buf>>

GdbWriteCpsr ==
  /\ Leave("gdb", "write_cpsr", "enable")
  /\ cpsr' \in Cpsr
  /\ UNCHANGED <<pc, brk, exc, buf>>

\* A mutant of GdbPeek: the word at 0 whatever the pc.
GdbPeekAtZero ==
  /\ Leave("gdb", "peek", "enable")
  /\ buf' = [buf EXCEPT !.brk = brk]
  /\ UNCHANGED <<core, exc>>

\* cont reads in anticipation the word at the pc. Outside the memory the read
\* fails, which cont does not look at, and instruction stays as it is.
GdbPeek ==
  /\ Leave("gdb", "peek", "enable")
  /\ buf' = IF pc < MemSize THEN [buf EXCEPT !.brk = (pc = 0 /\ brk)] ELSE buf
  /\ UNCHANGED <<core, exc>>

\* A mutant of GdbEnable: the handler returns without trace_enable.
GdbEnableForgotten ==
  /\ at["gdb"] = "enable"
  /\ GoTo("gdb", IF cmd = "c" THEN "decide" ELSE "send")
  /\ UNCHANGED <<proc, lock, main, in, core, live, tracing, cmd, exc, buf, links,
                 irqLink, irq>>

GdbEnable ==
  /\ at["gdb"] = "enable"
  /\ enabled' = TRUE
  /\ GoTo("gdb", IF cmd = "c" THEN "decide" ELSE "send")
  /\ UNCHANGED <<proc, lock, main, in, core, live, depth, cmd, exc, buf, links,
                 irqLink, irq>>

\* read_memory and write_memory_binary, which call memory.c directly.
GdbMemory ==
  /\ at["gdb"] = "memory"
  /\ IF cmd = "m" THEN buf' = [buf EXCEPT !.brk = brk] /\ UNCHANGED brk
                  ELSE brk' \in BOOLEAN /\ UNCHANGED buf
  /\ GoTo("gdb", "send")
  /\ UNCHANGED <<proc, lock, main, in, pc, cpsr, live, tracing, cmd, exc, links,
                 irqLink, irq>>

\* The breakpoint ends cont without being executed.
GdbDecide ==
  /\ at["gdb"] = "decide"
  /\ GoTo("gdb", IF buf.brk THEN "send" ELSE "step")
  /\ UNCHANGED <<proc, lock, main, in, core, live, tracing, cmd, exc, buf, links,
                 irqLink, irq>>

\* A mutant of GdbStepAccess: the END_LOCATION of an operand forgotten.
GdbStepAccessUnclosed ==
  /\ at["gdb"] = "step" /\ in["gdb"] > 0
  /\ in' = [in EXCEPT !["gdb"] = in["gdb"] - 1]
  /\ depth' = IF enabled /\ in["gdb"] = 1 THEN depth - 1 ELSE depth
  /\ UNCHANGED <<proc, lock, main, at, core, live, enabled, cmd, exc, buf, links,
                 irqLink, irq>>

\* An access of arm_step that is not its last: an operand, or one the
\* instruction goes on after.
GdbStepAccess ==
  /\ at["gdb"] = "step" /\ in["gdb"] > 0
  /\ in' = [in EXCEPT !["gdb"] = in["gdb"] - 1]
  /\ depth' = IF enabled THEN depth - 1 ELSE depth
  /\ UNCHANGED <<proc, lock, main, at, core, live, enabled, cmd, exc, buf, links,
                 irqLink, irq>>

\* The last access, with which arm_execute_instruction has had any effect on
\* the core and gives any result; arm_step then raises the exception that the
\* result names, and only RESET does something. A fetch outside the memory
\* returns RESET.
GdbStep ==
  /\ exc' \in (IF pc < MemSize THEN Result ELSE {RESET})
  /\ Leave("gdb", "step", IF exc' = RESET THEN "exc_cpsr" ELSE "state")
  /\ pc' \in Pc /\ cpsr' \in Cpsr /\ brk' \in BOOLEAN
  /\ UNCHANGED buf

\* The software interrupt 0x123456 ends the process between two accesses, as
\* the assertions of arm_load_store_multiple do.
GdbSwiExit ==
  /\ at["gdb"] = "step" /\ in["gdb"] = 0 /\ pc < MemSize
  /\ Exit
  /\ UNCHANGED <<lock, main, at, in, core, live, tracing, cmd, exc, buf, links,
                 irqLink, irq>>

\* trace_arm_state, and the loop of cont.
GdbState ==
  /\ at["gdb"] = "state"
  /\ GoTo("gdb", IF cmd = "c" THEN "loop" ELSE "send")
  /\ UNCHANGED <<proc, lock, main, in, core, live, tracing, cmd, exc, buf, links,
                 irqLink, irq>>

GdbLoop ==
  /\ at["gdb"] = "loop"
  /\ enabled' = FALSE
  /\ GoTo("gdb", "read_pc")
  /\ UNCHANGED <<proc, lock, main, in, core, live, depth, cmd, exc, buf, links,
                 irqLink, irq>>

GdbSend ==
  /\ at["gdb"] = "send"
  /\ \/ GoTo("gdb", "unlock") /\ UNCHANGED proc
     \/ client # "open" /\ Exit /\ UNCHANGED at
  /\ UNCHANGED <<lock, main, in, core, live, tracing, cmd, exc, buf, links,
                 irqLink, irq>>

GdbListener ==
  \/ GdbAccept \/ GdbScan \/ GdbEof \/ GdbEmpty
  \/ Lock("gdb", "start") \/ GdbStart \/ Enter("gdb")
  \/ GdbReadPc \/ GdbReadCpsr \/ GdbWritePc \/ GdbWriteCpsr \/ GdbPeek
  \/ GdbEnable \/ GdbMemory \/ GdbDecide
  \/ GdbStepAccess \/ GdbStep \/ GdbSwiExit
  \/ ExceptionCpsr("gdb") \/ ExceptionPc("gdb") \/ GdbState \/ GdbLoop
  \/ GdbSend \/ Unlock("gdb", "scan")

-----------------------------------------------------------------------------
(* The irq listener. *)

IrqAccept ==
  /\ at["irq"] = "accept" /\ irqClient # "none"
  /\ GoTo("irq", "read")
  /\ UNCHANGED <<proc, lock, main, in, core, live, tracing, cmd, exc, buf, links,
                 irqLink, irq>>

IrqRead ==
  /\ at["irq"] = "read" /\ irqs # <<>>
  /\ irq' = Head(irqs) /\ irqs' = Tail(irqs)
  /\ GoTo("irq", "lock")
  /\ UNCHANGED <<proc, lock, main, in, core, live, tracing, cmd, exc, buf, links,
                 irqClient, irqLeft>>

\* Read returns 0 at the end of the connection; the next one can be accepted.
IrqEof ==
  /\ at["irq"] = "read" /\ irqs = <<>> /\ irqClient = "closed"
  /\ GoTo("irq", "accept")
  /\ irqClient' = "none"
  /\ UNCHANGED <<proc, lock, main, in, core, live, tracing, cmd, exc, buf, links,
                 irqs, irqLeft, irq>>

\* A mutant of IrqLock: the exception is raised without the lock.
IrqLockDropped ==
  /\ at["irq"] = "lock"
  /\ GoTo("irq", IF irq = RESET THEN "exc_cpsr" ELSE "unlock")
  /\ UNCHANGED <<proc, lock, main, in, core, live, tracing, cmd, exc, buf, links,
                 irqLink, irq>>

\* arm_exception does something for RESET only.
IrqLock == Lock("irq", IF irq = RESET THEN "exc_cpsr" ELSE "unlock")

IrqListener ==
  \/ IrqAccept \/ IrqRead \/ IrqEof \/ IrqLock \/ Enter("irq")
  \/ ExceptionCpsr("irq") \/ ExceptionPc("irq") \/ FreedAccess("irq")
  \/ Unlock("irq", "read")

-----------------------------------------------------------------------------
(* main and the clients. *)

\* A mutant of MainJoin: main does not wait for the gdb listener.
MainJoinSkipped ==
  /\ main = "join" /\ client = "closed"
  /\ main' = "freeing"
  /\ UNCHANGED <<proc, lock, at, in, core, live, tracing, cmd, exc, buf, links,
                 irqLink, irq>>

MainJoin ==
  /\ main = "join" /\ at["gdb"] = "done"
  /\ main' = "freeing"
  /\ UNCHANGED <<proc, lock, at, in, core, live, tracing, cmd, exc, buf, links,
                 irqLink, irq>>

\* arm_destroy and memory_destroy, without the lock.
MainDestroy ==
  /\ main = "freeing"
  /\ main' = "returning" /\ live' = FALSE
  /\ UNCHANGED <<proc, lock, at, in, core, tracing, cmd, exc, buf, links,
                 irqLink, irq>>

MainReturn ==
  /\ main = "returning"
  /\ Exit
  /\ UNCHANGED <<lock, main, at, in, core, live, tracing, cmd, exc, buf, links,
                 irqLink, irq>>

Main == MainJoin \/ MainDestroy \/ MainReturn

server == <<lock, main, at, in, core, live, tracing, cmd, exc, buf, irq>>

GdbConnect == /\ client = "none" /\ client' = "open"
              /\ UNCHANGED <<proc, server, packets, cmdLeft, irqLink>>

GdbCommand == /\ client \in {"open", "half"} /\ cmdLeft > 0 /\ Len(packets) < QueueBound
              /\ \E p \in Packet : packets' = Append(packets, p)
              /\ cmdLeft' = cmdLeft - 1
              /\ UNCHANGED <<proc, server, client, irqLink>>

GdbClose == /\ client \in {"open", "half"} /\ client' = "closed"
            /\ UNCHANGED <<proc, server, packets, cmdLeft, irqLink>>

IrqConnect == /\ irqClient = "none" /\ irqLeft > 0 /\ irqClient' = "open"
              /\ UNCHANGED <<proc, server, links, irqs, irqLeft>>

IrqSend == /\ irqClient = "open" /\ irqLeft > 0 /\ Len(irqs) < QueueBound
           /\ \E b \in IrqByte : irqs' = Append(irqs, b)
           /\ irqLeft' = irqLeft - 1
           /\ UNCHANGED <<proc, server, links, irqClient>>

IrqClose == /\ irqClient = "open" /\ irqClient' = "closed"
            /\ UNCHANGED <<proc, server, links, irqs, irqLeft>>

\* A connection that is reset: read fails, and both readers end the process.
Reset == /\ \/ client \in {"open", "half"} /\ at["gdb"] = "scan"
            \/ irqClient = "open" /\ at["irq"] = "read"
         /\ Exit
         /\ UNCHANGED <<server, links, irqLink>>

Clients == \/ GdbConnect \/ GdbCommand \/ GdbClose
           \/ IrqConnect \/ IrqSend \/ IrqClose \/ Reset

Exited == proc = "exited" /\ UNCHANGED vars

Next == \/ proc = "running" /\ (GdbListener \/ IrqListener \/ Main \/ Clients)
        \/ Exited

Spec == Init /\ [][Next]_vars

\* Every thread runs, and an instruction makes finitely many accesses; the
\* clients may stop at any time.
FairSpec == Spec /\ WF_vars(GdbListener /\ proc = "running")
                 /\ SF_vars(GdbStep /\ proc = "running")
                 /\ WF_vars(IrqListener /\ proc = "running")
                 /\ WF_vars(Main /\ proc = "running")

\* And the program, when continued, comes to its breakpoint.
BreakSpec == FairSpec /\ SF_vars(GdbStep /\ proc = "running" /\ pc' = 0 /\ brk')

-----------------------------------------------------------------------------
\* A handler of gdb_protocol.c and an exception raised by irq_listener run
\* with the lock held, so never at the same time.
MutualExclusion == /\ at["gdb"] \in GdbHolds => lock = "gdb"
                   /\ at["irq"] \in IrqHolds => lock = "irq"

\* trace_disable and trace_enable change what LOCATION and END_LOCATION do.
\* Whatever the interleaving, no location stays on the stack of trace.c and
\* the trace is never left disabled once a handler or an exception is over;
\* of its 128 entries, which nothing checks, two are used at most.
TraceBalanced == /\ lock = "free" => enabled /\ depth = 0
                 /\ depth \in 0 .. Nesting

\* What a read handler is about to send is the core as it is when it sends it:
\* a g reply never mixes the pc and the cpsr of before and after a RESET.
ReplyIsCurrent ==
  at["gdb"] = "send" => /\ cmd \in {"g", "p"} => buf.pc = pc
                        /\ cmd = "g" => buf.cpsr = cpsr
                        /\ cmd = "m" => buf.brk = brk

\* cont ends, when the pc is inside the memory, on the breakpoint it has read
\* in anticipation: nothing has moved the pc or overwritten the word since.
StopsAtBreakpoint ==
  (at["gdb"] = "send" /\ cmd = "c" /\ pc < MemSize) => pc = 0 /\ brk

\* The comment of cont: it is a loop that waits for the breakpoint instruction.
\* Violated when it begins outside the memory: what it tests there has never
\* been read.
ContinueWaits == (at["gdb"] = "send" /\ cmd = "c") => pc = 0 /\ brk

\* main frees the core only after the gdb session is over, with every packet
\* handled: no handler runs on a freed core (irq_listener still may).
FreedAfterSession == ~live => /\ at["gdb"] = "done"
                              /\ client = "closed" /\ packets = <<>>

\* Between the two stores of a RESET, and between any two accesses of a gdb
\* handler, the other listener leaves the core and the trace switch alone.
NoInterference ==
  [][\A t \in Listener :
       (lock = t /\ at'[t] = at[t]) => UNCHANGED <<core, enabled>>]_vars

\* A packet other than a continue is handled to its end, whatever the irqs do.
GdbAnswers == (at["gdb"] = "lock" /\ cmd # "c")
                ~> (at["gdb"] = "scan" \/ proc = "exited")

\* arm_simulator.c, usage: the simulator can receive interrupts. A byte that
\* irq_listener has read is eventually handled.
IrqReceived == at["irq"] = "lock" ~> (at["irq"] = "read" \/ proc = "exited")

\* The end of the gdb session ends the process.
SessionEnds == client = "closed" ~> proc = "exited"
=============================================================================
