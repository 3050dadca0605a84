-------------------------- MODULE SimulatorProofs --------------------------
(***************************************************************************)
(* For every set of addresses and status values and every budget: what the *)
(* lock of shared_data protects. IInv is the inductive invariant: who      *)
(* holds the lock follows from where the listeners are, and what a handler *)
(* has done from its place and its packet.                                 *)
(***************************************************************************)
EXTENDS Simulator, TLAPS

\* The lock is held by the listener that is inside its critical section.
LockByPlace == /\ (lock = "gdb") <=> (at["gdb"] \in GdbHolds)
               /\ (lock = "irq") <=> (at["irq"] \in IrqHolds)

\* A listener has locations open only inside an access, and more than one
\* only inside arm_step.
InByPlace == \A t \in Listener : /\ in[t] > 0 => at[t] \in Access
                                 /\ in[t] > 1 => at[t] = "step"

\* The trace is disabled in the quiet part of a handler only, and the stack
\* holds the locations of whoever is inside a traced access.
QuietAt == {"read_pc", "read_cpsr", "write_pc", "write_cpsr", "peek", "enable"}
TraceByPlace == /\ enabled <=> at["gdb"] \notin QuietAt
                /\ depth = (IF enabled THEN in["gdb"] ELSE 0) + in["irq"]

\* The packets whose handler comes to each place.
PacketByPlace ==
  LET g == at["gdb"]
  IN  /\ g \in {"lock", "start"} => cmd \in Handled
      /\ g = "read_pc" => cmd \in {"g", "p", "c"}
      /\ g = "read_cpsr" => cmd = "g"
      /\ g = "write_pc" => cmd \in {"G", "P"}
      /\ g = "write_cpsr" => cmd = "G"
      /\ g \in {"peek", "decide"} => cmd = "c"
      /\ g = "enable" => cmd \in Quiet
      /\ g = "memory" => cmd \in {"m", "X"}
      /\ g \in {"step", "exc_cpsr", "exc_pc", "state"} => cmd \in {"s", "c"}
      /\ g = "loop" => cmd = "c"

\* What the buffer holds since it was filled.
BufferByPlace ==
  LET g == at["gdb"]
  IN  /\ g \in {"read_cpsr", "enable", "send"} /\ cmd \in {"g", "p"} => buf.pc = pc
      /\ g \in {"enable", "send"} /\ cmd = "g" => buf.cpsr = cpsr
      /\ g = "send" /\ cmd = "m" => buf.brk = brk
      /\ g \in {"enable", "decide"} /\ cmd = "c" /\ pc < MemSize =>
           buf.brk = (pc = 0 /\ brk)
      /\ g = "send" /\ cmd = "c" /\ pc < MemSize => pc = 0 /\ brk

\* main leaves its join once the session is over.
SessionOver == /\ main # "join" => at["gdb"] = "done"
               /\ ~live => main # "join"
               /\ at["gdb"] = "done" => client = "closed" /\ packets = <<>>

IInv == /\ TypeOK /\ LockByPlace /\ InByPlace /\ TraceByPlace
        /\ PacketByPlace /\ BufferByPlace /\ SessionOver

-----------------------------------------------------------------------------
USE DEF IInv, TypeOK, LockByPlace, InByPlace, TraceByPlace, PacketByPlace,
        BufferByPlace, SessionOver, core, tracing, links, irqLink, server,
        GoTo, Exit, Listener, Access, GdbHolds, IrqHolds, GdbAt, IrqAt, QuietAt,
        Packet, Handled, Quiet, Result, RESET, IrqByte, Start,
        Nesting, Deepest

\* A listener that does not hold the lock has no location open, and the trace
\* is enabled unless gdb holds it.
LEMMA Outside ==
  IInv => /\ in["gdb"] \in 0 .. 2 /\ in["irq"] \in 0 .. 2
          /\ lock # "gdb" => in["gdb"] = 0 /\ enabled
          /\ lock # "irq" => in["irq"] = 0
  <1> SUFFICES ASSUME IInv
               PROVE  /\ in["gdb"] \in 0 .. 2 /\ in["irq"] \in 0 .. 2
                      /\ lock # "gdb" => in["gdb"] = 0 /\ enabled
                      /\ lock # "irq" => in["irq"] = 0
    OBVIOUS
  <1>1. in["gdb"] \in 0 .. 2 /\ in["irq"] \in 0 .. 2
    OBVIOUS
  <1>2. lock # "gdb" => at["gdb"] \notin Access /\ enabled
    OBVIOUS
  <1>3. lock # "irq" => at["irq"] \notin Access
    OBVIOUS
  <1>4. /\ in["gdb"] > 0 => at["gdb"] \in Access
        /\ in["irq"] > 0 => at["irq"] \in Access
    BY Zenon
  <1> QED
    BY <1>1, <1>2, <1>3, <1>4

\* Every action of the gdb listener keeps the invariant.
LEMMA GdbKeeps == IInv /\ GdbListener => IInv'
  <1> SUFFICES ASSUME IInv, GdbListener PROVE IInv'
    OBVIOUS
  <1>1. CASE GdbAccept
    BY <1>1, SimulatorAssumption DEF GdbAccept
  <1>2. CASE GdbScan
    BY <1>2, SimulatorAssumption DEF GdbScan
  <1>3. CASE GdbEof
    BY <1>3, SimulatorAssumption DEF GdbEof
  <1>4. CASE GdbEmpty
    BY <1>4, SimulatorAssumption DEF GdbEmpty
  <1>5. CASE Lock("gdb", "start")
    BY <1>5, SimulatorAssumption DEF Lock
  <1>6. CASE GdbStart
    <2>a. PICK b \in BOOLEAN : buf' = IF cmd = "c" THEN [buf EXCEPT !.brk = b] ELSE buf
      BY <1>6 DEF GdbStart
    <2>b. buf' \in [pc : Pc, cpsr : Cpsr, brk : BOOLEAN]
      BY <2>a
    <2>c. at' \in [Listener -> GdbAt \cup IrqAt] /\ at'["gdb"] \in GdbAt /\ at'["irq"] \in IrqAt
      BY <1>6 DEF GdbStart
    <2>d. /\ enabled' \in BOOLEAN /\ proc' \in {"running", "exited"}
          /\ client' \in {"none", "open", "half", "closed"}
      BY <1>6 DEF GdbStart
    <2>e. UNCHANGED <<lock, main, in, pc, cpsr, brk, live, depth, cmd, exc, packets,
                      cmdLeft, irqClient, irqs, irqLeft, irq>>
      BY <1>6 DEF GdbStart
    <2>1. TypeOK'
      BY <2>b, <2>c, <2>d, <2>e
    <2>2. LockByPlace'
      BY <1>6, SimulatorAssumption DEF GdbStart
    <2>3. InByPlace'
      BY <1>6, SimulatorAssumption DEF GdbStart
    <2>4. TraceByPlace'
      BY <1>6, SimulatorAssumption DEF GdbStart
    <2>5. PacketByPlace'
      BY <1>6, SimulatorAssumption DEF GdbStart
    <2>6. BufferByPlace'
      BY <1>6, SimulatorAssumption DEF GdbStart
    <2>7. SessionOver'
      BY <1>6, SimulatorAssumption DEF GdbStart
    <2> QED
      BY <2>1, <2>2, <2>3, <2>4, <2>5, <2>6, <2>7
  <1>7. CASE Enter("gdb")
    BY <1>7, SimulatorAssumption DEF Enter
  <1>8. CASE GdbReadPc
    BY <1>8, SimulatorAssumption DEF GdbReadPc, Leave
  <1>9. CASE GdbReadCpsr
    BY <1>9, SimulatorAssumption DEF GdbReadCpsr, Leave
  <1>10. CASE GdbWritePc
    BY <1>10, SimulatorAssumption DEF GdbWritePc, Leave
  <1>11. CASE GdbWriteCpsr
    BY <1>11, SimulatorAssumption DEF GdbWriteCpsr, Leave
  <1>12. CASE GdbPeek
    <2>a. buf' \in [pc : Pc, cpsr : Cpsr, brk : BOOLEAN]
      BY <1>12 DEF GdbPeek
    <2>1. TypeOK'
      BY <1>12, <2>a, SimulatorAssumption DEF GdbPeek, Leave
    <2>2. LockByPlace'
      BY <1>12, <2>a, SimulatorAssumption DEF GdbPeek, Leave
    <2>3. InByPlace'
      BY <1>12, <2>a, SimulatorAssumption DEF GdbPeek, Leave
    <2>4. TraceByPlace'
      BY <1>12, <2>a, SimulatorAssumption DEF GdbPeek, Leave
    <2>5. PacketByPlace'
      BY <1>12, <2>a, SimulatorAssumption DEF GdbPeek, Leave
    <2>6. BufferByPlace'
      BY <1>12, <2>a, SimulatorAssumption DEF GdbPeek, Leave
    <2>7. SessionOver'
      BY <1>12, <2>a, SimulatorAssumption DEF GdbPeek, Leave
    <2> QED
      BY <2>1, <2>2, <2>3, <2>4, <2>5, <2>6, <2>7
  <1>13. CASE GdbEnable
    <2>1. TypeOK'
      BY <1>13, SimulatorAssumption DEF GdbEnable
    <2>2. LockByPlace'
      BY <1>13, SimulatorAssumption DEF GdbEnable
    <2>3. InByPlace'
      BY <1>13, SimulatorAssumption DEF GdbEnable
    <2>4. TraceByPlace'
      BY <1>13, SimulatorAssumption DEF GdbEnable
    <2>5. PacketByPlace'
      BY <1>13, SimulatorAssumption DEF GdbEnable
    <2>6. BufferByPlace'
      BY <1>13, SimulatorAssumption DEF GdbEnable
    <2>7. SessionOver'
      BY <1>13, SimulatorAssumption DEF GdbEnable
    <2> QED
      BY <2>1, <2>2, <2>3, <2>4, <2>5, <2>6, <2>7
  <1>14. CASE GdbMemory
    <2>a. buf' \in [pc : Pc, cpsr : Cpsr, brk : BOOLEAN] /\ brk' \in BOOLEAN
      BY <1>14 DEF GdbMemory
    <2>1. TypeOK'
      BY <1>14, <2>a, SimulatorAssumption DEF GdbMemory
    <2>2. LockByPlace'
      BY <1>14, <2>a, SimulatorAssumption DEF GdbMemory
    <2>3. InByPlace'
      BY <1>14, <2>a, SimulatorAssumption DEF GdbMemory
    <2>4. TraceByPlace'
      BY <1>14, <2>a, SimulatorAssumption DEF GdbMemory
    <2>5. PacketByPlace'
      BY <1>14, <2>a, SimulatorAssumption DEF GdbMemory
    <2>6. BufferByPlace'
      BY <1>14, <2>a, SimulatorAssumption DEF GdbMemory
    <2>7. SessionOver'
      BY <1>14, <2>a, SimulatorAssumption DEF GdbMemory
    <2> QED
      BY <2>1, <2>2, <2>3, <2>4, <2>5, <2>6, <2>7
  <1>15. CASE GdbDecide
    BY <1>15, SimulatorAssumption DEF GdbDecide
  <1>16. CASE GdbStep
    BY <1>16, SimulatorAssumption DEF GdbStep, Leave
  <1>17. CASE GdbSwiExit
    BY <1>17, SimulatorAssumption DEF GdbSwiExit
  <1>18. CASE ExceptionCpsr("gdb")
    BY <1>18, SimulatorAssumption DEF ExceptionCpsr, Leave
  <1>19. CASE ExceptionPc("gdb")
    BY <1>19, SimulatorAssumption DEF ExceptionPc, Leave
  <1>20. CASE GdbState
    BY <1>20, SimulatorAssumption DEF GdbState
  <1>21. CASE GdbSend
    BY <1>21, SimulatorAssumption DEF GdbSend
  <1>22. CASE Unlock("gdb", "scan")
    BY <1>22, SimulatorAssumption DEF Unlock
  <1>23. CASE GdbLoop
    <2>a. enabled' \in BOOLEAN
      BY <1>23, Zenon DEF GdbLoop
    <2>1. TypeOK'
      BY <1>23, <2>a, SimulatorAssumption DEF GdbLoop
    <2>2. LockByPlace'
      BY <1>23, SimulatorAssumption DEF GdbLoop
    <2>3. InByPlace'
      BY <1>23, SimulatorAssumption DEF GdbLoop
    <2>4. TraceByPlace'
      BY <1>23, SimulatorAssumption DEF GdbLoop
    <2>5. PacketByPlace'
      BY <1>23, SimulatorAssumption DEF GdbLoop
    <2>6. BufferByPlace'
      BY <1>23, SimulatorAssumption DEF GdbLoop
    <2>7. SessionOver'
      BY <1>23, SimulatorAssumption DEF GdbLoop
    <2> QED
      BY <2>1, <2>2, <2>3, <2>4, <2>5, <2>6, <2>7
  <1>24. CASE GdbStepAccess
    BY <1>24, SimulatorAssumption DEF GdbStepAccess
  <1> QED
    BY <1>1, <1>2, <1>3, <1>4, <1>5, <1>6, <1>7, <1>8, <1>9, <1>10, <1>11, <1>12,
       <1>13, <1>14, <1>15, <1>16, <1>17, <1>18, <1>19, <1>20, <1>21, <1>22, <1>23,
       <1>24
    DEF GdbListener

\* So does every action of the irq listener,
LEMMA IrqKeeps == IInv /\ IrqListener => IInv'
  <1> SUFFICES ASSUME IInv, IrqListener PROVE IInv'
    OBVIOUS
  <1>1. CASE IrqAccept
    BY <1>1, SimulatorAssumption DEF IrqAccept
  <1>2. CASE IrqRead
    BY <1>2, SimulatorAssumption DEF IrqRead
  <1>3. CASE IrqEof
    BY <1>3, SimulatorAssumption DEF IrqEof
  <1>4. CASE IrqLock
    BY <1>4, SimulatorAssumption DEF IrqLock, Lock
  <1>5. CASE Enter("irq")
    <2>1. TypeOK'
      BY <1>5, SimulatorAssumption DEF Enter
    <2>2. LockByPlace'
      BY <1>5, SimulatorAssumption DEF Enter
    <2>3. InByPlace'
      BY <1>5, SimulatorAssumption DEF Enter
    <2>0. lock = "irq" /\ at["gdb"] \notin GdbHolds
      BY <1>5 DEF Enter
    <2>a. lock = "irq" /\ at["gdb"] \notin GdbHolds /\ enabled /\ in["gdb"] = 0
      BY <2>0, Outside
    <2>b. /\ in'["irq"] = in["irq"] + 1 /\ in'["gdb"] = in["gdb"] /\ at'["gdb"] = at["gdb"]
          /\ depth' = depth + 1 /\ enabled' = enabled
      BY <1>5, <2>a DEF Enter
    <2>c. depth = in["irq"] /\ in["irq"] \in Int
      BY <2>a
    <2>4. TraceByPlace'
      BY <2>a, <2>b, <2>c
    <2>5. PacketByPlace'
      BY <1>5, SimulatorAssumption DEF Enter
    <2>6. BufferByPlace'
      BY <1>5, SimulatorAssumption DEF Enter
    <2>7. SessionOver'
      BY <1>5, SimulatorAssumption DEF Enter
    <2> QED
      BY <2>1, <2>2, <2>3, <2>4, <2>5, <2>6, <2>7
  <1>6. CASE ExceptionCpsr("irq")
    <2>d. /\ cpsr' \in Cpsr /\ depth' \in Int
          /\ in' \in [Listener -> 0 .. Nesting]
      BY <1>6, SimulatorAssumption DEF ExceptionCpsr, Leave
    <2>e. /\ at' \in [Listener -> GdbAt \cup IrqAt]
          /\ at'["gdb"] \in GdbAt /\ at'["irq"] \in IrqAt
      BY <1>6 DEF ExceptionCpsr, Leave
    <2>f. UNCHANGED <<proc, lock, main, pc, brk, live, enabled, cmd, exc, buf, client,
                      packets, cmdLeft, irqClient, irqs, irqLeft, irq>>
      BY <1>6 DEF ExceptionCpsr, Leave
    <2>1. TypeOK'
      BY <2>d, <2>e, <2>f
    <2>2. LockByPlace'
      BY <1>6, SimulatorAssumption DEF ExceptionCpsr, Leave
    <2>3. InByPlace'
      BY <1>6, SimulatorAssumption DEF ExceptionCpsr, Leave
    <2>0. lock = "irq" /\ at["gdb"] \notin GdbHolds
      BY <1>6 DEF ExceptionCpsr, Leave
    <2>a. lock = "irq" /\ at["gdb"] \notin GdbHolds /\ enabled /\ in["gdb"] = 0
      BY <2>0, Outside
    <2>b. /\ in'["irq"] = in["irq"] - 1 /\ in'["gdb"] = in["gdb"] /\ at'["gdb"] = at["gdb"]
          /\ depth' = depth - 1 /\ enabled' = enabled
      BY <1>6, <2>a DEF ExceptionCpsr, Leave
    <2>c. depth = in["irq"] /\ in["irq"] \in Int
      BY <2>a
    <2>4. TraceByPlace'
      BY <2>a, <2>b, <2>c
    <2>5. PacketByPlace'
      BY <1>6, SimulatorAssumption DEF ExceptionCpsr, Leave
    <2>6. BufferByPlace'
      BY <1>6, SimulatorAssumption DEF ExceptionCpsr, Leave
    <2>7. SessionOver'
      BY <1>6, SimulatorAssumption DEF ExceptionCpsr, Leave
    <2> QED
      BY <2>1, <2>2, <2>3, <2>4, <2>5, <2>6, <2>7
  <1>7. CASE ExceptionPc("irq")
    <2>1. TypeOK'
      BY <1>7, SimulatorAssumption DEF ExceptionPc, Leave
    <2>2. LockByPlace'
      BY <1>7, SimulatorAssumption DEF ExceptionPc, Leave
    <2>3. InByPlace'
      BY <1>7, SimulatorAssumption DEF ExceptionPc, Leave
    <2>0. lock = "irq" /\ at["gdb"] \notin GdbHolds
      BY <1>7 DEF ExceptionPc, Leave
    <2>a. lock = "irq" /\ at["gdb"] \notin GdbHolds /\ enabled /\ in["gdb"] = 0
      BY <2>0, Outside
    <2>b. /\ in'["irq"] = in["irq"] - 1 /\ in'["gdb"] = in["gdb"] /\ at'["gdb"] = at["gdb"]
          /\ depth' = depth - 1 /\ enabled' = enabled
      BY <1>7, <2>a DEF ExceptionPc, Leave
    <2>c. depth = in["irq"] /\ in["irq"] \in Int
      BY <2>a
    <2>4. TraceByPlace'
      BY <2>a, <2>b, <2>c
    <2>5. PacketByPlace'
      BY <1>7, SimulatorAssumption DEF ExceptionPc, Leave
    <2>6. BufferByPlace'
      BY <1>7, SimulatorAssumption DEF ExceptionPc, Leave
    <2>7. SessionOver'
      BY <1>7, SimulatorAssumption DEF ExceptionPc, Leave
    <2> QED
      BY <2>1, <2>2, <2>3, <2>4, <2>5, <2>6, <2>7
  <1>8. CASE FreedAccess("irq")
    BY <1>8, SimulatorAssumption DEF FreedAccess
  <1>9. CASE Unlock("irq", "read")
    BY <1>9, SimulatorAssumption DEF Unlock
  <1> QED
    BY <1>1, <1>2, <1>3, <1>4, <1>5, <1>6, <1>7, <1>8, <1>9 DEF IrqListener

\* of main,
LEMMA MainKeeps == IInv /\ Main => IInv'
  <1> SUFFICES ASSUME IInv, Main PROVE IInv'
    OBVIOUS
  <1>1. CASE MainJoin
    BY <1>1, SimulatorAssumption DEF MainJoin
  <1>2. CASE MainDestroy
    <2>0. main' \in {"join", "freeing", "returning"} /\ live' \in BOOLEAN
      BY <1>2, Zenon DEF MainDestroy
    <2>1. TypeOK'
      BY <1>2, <2>0, SimulatorAssumption DEF MainDestroy
    <2>2. LockByPlace'
      BY <1>2, SimulatorAssumption DEF MainDestroy
    <2>3. InByPlace'
      BY <1>2, SimulatorAssumption DEF MainDestroy
    <2>4. TraceByPlace'
      BY <1>2, SimulatorAssumption DEF MainDestroy
    <2>5. PacketByPlace'
      BY <1>2, SimulatorAssumption DEF MainDestroy
    <2>6. BufferByPlace'
      BY <1>2, SimulatorAssumption DEF MainDestroy
    <2>7. SessionOver'
      BY <1>2, SimulatorAssumption DEF MainDestroy
    <2> QED
      BY <2>1, <2>2, <2>3, <2>4, <2>5, <2>6, <2>7
  <1>3. CASE MainReturn
    BY <1>3, SimulatorAssumption DEF MainReturn
  <1> QED
    BY <1>1, <1>2, <1>3 DEF Main

\* and of the clients.
LEMMA ClientsKeep == IInv /\ Clients => IInv'
  <1> SUFFICES ASSUME IInv, Clients PROVE IInv'
    OBVIOUS
  <1>1. CASE GdbConnect
    BY <1>1, SimulatorAssumption DEF GdbConnect
  <1>2. CASE GdbCommand
    BY <1>2, SimulatorAssumption DEF GdbCommand
  <1>3. CASE GdbClose
    BY <1>3, SimulatorAssumption DEF GdbClose
  <1>4. CASE IrqConnect
    BY <1>4, SimulatorAssumption DEF IrqConnect
  <1>5. CASE IrqSend
    BY <1>5, SimulatorAssumption DEF IrqSend
  <1>6. CASE IrqClose
    BY <1>6, SimulatorAssumption DEF IrqClose
  <1>7. CASE Reset
    BY <1>7, SimulatorAssumption DEF Reset
  <1> QED
    BY <1>1, <1>2, <1>3, <1>4, <1>5, <1>6, <1>7 DEF Clients

LEMMA StutterKeeps == IInv /\ UNCHANGED vars => IInv'
  <1> SUFFICES ASSUME IInv, UNCHANGED vars PROVE IInv'
    OBVIOUS
  <1>1. /\ UNCHANGED <<proc, lock, main, at, in, pc, cpsr, brk, live, enabled, depth>>
        /\ UNCHANGED <<cmd, exc, buf, client, packets, cmdLeft, irqClient, irqs,
                       irqLeft, irq>>
    BY DEF vars
  <1> QED
    BY <1>1

LEMMA InitHolds == Init => IInv
  <1> SUFFICES ASSUME Init PROVE IInv
    OBVIOUS
  <1>1. TypeOK
    BY SimulatorAssumption DEF Init
  <1>2. LockByPlace /\ InByPlace /\ TraceByPlace /\ PacketByPlace /\ BufferByPlace
    BY DEF Init
  <1>3. SessionOver
    BY DEF Init
  <1> QED
    BY <1>1, <1>2, <1>3

LEMMA StepKeeps == IInv /\ [Next]_vars => IInv'
  <1> SUFFICES ASSUME IInv, [Next]_vars PROVE IInv'
    OBVIOUS
  <1>1. \/ GdbListener \/ IrqListener \/ Main \/ Clients \/ UNCHANGED vars
    BY DEF Next, Exited
  <1> QED
    BY <1>1, GdbKeeps, IrqKeeps, MainKeeps, ClientsKeep, StutterKeeps

\* What the invariant says of the lock, the trace, the buffer and the session.
LEMMA Implied == IInv => /\ MutualExclusion /\ TraceBalanced /\ ReplyIsCurrent
                         /\ StopsAtBreakpoint /\ FreedAfterSession
  <1> SUFFICES ASSUME IInv
               PROVE  /\ MutualExclusion /\ TraceBalanced /\ ReplyIsCurrent
                      /\ StopsAtBreakpoint /\ FreedAfterSession
    OBVIOUS
  <1>1. MutualExclusion
    BY DEF MutualExclusion
  <1>2. TraceBalanced
    <2>1. depth = (IF enabled THEN in["gdb"] ELSE 0) + in["irq"]
      OBVIOUS
    <2>2. lock # "gdb" \/ lock # "irq"
      OBVIOUS
    <2> QED
      BY <2>1, <2>2, Outside DEF TraceBalanced
  <1>3. ReplyIsCurrent
    BY DEF ReplyIsCurrent
  <1>4. StopsAtBreakpoint
    BY DEF StopsAtBreakpoint
  <1>5. FreedAfterSession
    BY DEF FreedAfterSession
  <1> QED
    BY <1>1, <1>2, <1>3, <1>4, <1>5

\* Only the holder of the lock changes the core or the trace switch, and the
\* step takes it to its next place.
Moves(t) == lock = t /\ at'[t] # at[t]

LEMMA GdbChanges == IInv /\ GdbListener => UNCHANGED <<core, enabled>> \/ Moves("gdb")
  <1> SUFFICES ASSUME IInv, GdbListener
               PROVE  UNCHANGED <<core, enabled>> \/ Moves("gdb")
    OBVIOUS
  <1>1. CASE GdbAccept \/ GdbScan \/ GdbEof \/ GdbEmpty \/ Lock("gdb", "start")
    BY <1>1 DEF GdbAccept, GdbScan, GdbEof, GdbEmpty, Lock
  <1>2. CASE GdbDecide \/ GdbSwiExit \/ GdbState \/ GdbSend \/ Unlock("gdb", "scan")
    BY <1>2 DEF GdbDecide, GdbSwiExit, GdbState, GdbSend, Unlock
  <1>3. CASE Enter("gdb") \/ GdbStepAccess \/ GdbReadPc \/ GdbReadCpsr \/ GdbPeek
    BY <1>3 DEF Enter, GdbStepAccess, GdbReadPc, GdbReadCpsr, GdbPeek, Leave
  <1>4. CASE GdbStart
    BY <1>4 DEF GdbStart, Moves
  <1>5. CASE GdbWritePc \/ GdbWriteCpsr
    BY <1>5 DEF GdbWritePc, GdbWriteCpsr, Leave, Moves
  <1>6. CASE GdbEnable \/ GdbMemory \/ GdbLoop
    BY <1>6 DEF GdbEnable, GdbMemory, GdbLoop, Moves
  <1>7. CASE GdbStep
    BY <1>7 DEF GdbStep, Leave, Moves
  <1>8. CASE ExceptionCpsr("gdb") \/ ExceptionPc("gdb")
    BY <1>8 DEF ExceptionCpsr, ExceptionPc, Leave, Moves
  <1> QED
    BY <1>1, <1>2, <1>3, <1>4, <1>5, <1>6, <1>7, <1>8 DEF GdbListener

LEMMA IrqChanges == IInv /\ IrqListener => UNCHANGED <<core, enabled>> \/ Moves("irq")
  <1> SUFFICES ASSUME IInv, IrqListener
               PROVE  UNCHANGED <<core, enabled>> \/ Moves("irq")
    OBVIOUS
  <1>1. CASE IrqAccept \/ IrqRead \/ IrqEof \/ IrqLock
    BY <1>1 DEF IrqAccept, IrqRead, IrqEof, IrqLock, Lock
  <1>2. CASE Enter("irq") \/ FreedAccess("irq") \/ Unlock("irq", "read")
    BY <1>2 DEF Enter, FreedAccess, Unlock
  <1>3. CASE ExceptionCpsr("irq") \/ ExceptionPc("irq")
    BY <1>3 DEF ExceptionCpsr, ExceptionPc, Leave, Moves
  <1> QED
    BY <1>1, <1>2, <1>3 DEF IrqListener

LEMMA OthersKeep == Main \/ Clients => UNCHANGED <<core, enabled>>
  BY DEF Main, MainJoin, MainDestroy, MainReturn, Clients, GdbConnect, GdbCommand,
         GdbClose, IrqConnect, IrqSend, IrqClose, Reset

LEMMA StepSeparates ==
  IInv /\ Next => \A t \in Listener :
                    (lock = t /\ at'[t] = at[t]) => UNCHANGED <<core, enabled>>
  <1> SUFFICES ASSUME IInv, Next, NEW t \in Listener, lock = t, at'[t] = at[t]
               PROVE  UNCHANGED <<core, enabled>>
    OBVIOUS
  <1>1. ~Moves("gdb") /\ ~Moves("irq")
    BY DEF Moves
  <1>2. Exited => UNCHANGED <<core, enabled>>
    BY DEF Exited, vars
  <1> QED
    BY <1>1, <1>2, GdbChanges, IrqChanges, OthersKeep DEF Next

HIDE DEF IInv, TypeOK, LockByPlace, InByPlace, TraceByPlace, PacketByPlace,
         BufferByPlace, SessionOver, core, tracing, links, irqLink, server,
         GoTo, Exit, Listener, Access, GdbHolds, IrqHolds, GdbAt, IrqAt, QuietAt,
         Packet, Handled, Quiet, Result, RESET, IrqByte, Start,
         Nesting, Deepest

\* The invariant holds of every execution.
THEOREM Invariant == Spec => []IInv
  BY InitHolds, StepKeeps, PTL DEF Spec

-----------------------------------------------------------------------------
\* The variables of main, the listeners and the trace keep their types.
THEOREM TypeCorrect == Spec => []TypeOK
  <1>1. IInv => TypeOK
    BY DEF IInv
  <1> QED
    BY Invariant, <1>1, PTL

\* gdb_packet_analysis and irq_listener are never both between the lock and
\* the unlock of shared->lock.
THEOREM Exclusion == Spec => []MutualExclusion
  <1>1. IInv => MutualExclusion
    BY Implied
  <1> QED
    BY Invariant, <1>1, PTL

\* No interleaving leaves a location on the stack of trace.c, or the trace
\* disabled, when the lock is released, and the stack never holds more than
\* the two locations of an access nested in another.
THEOREM Balanced == Spec => []TraceBalanced
  <1>1. IInv => TraceBalanced
    BY Implied
  <1> QED
    BY Invariant, <1>1, PTL

\* The reply of a read handler is the core as it is when it is sent.
THEOREM Current == Spec => []ReplyIsCurrent
  <1>1. IInv => ReplyIsCurrent
    BY Implied
  <1> QED
    BY Invariant, <1>1, PTL

\* cont stops on the breakpoint, whatever irq_listener does meanwhile.
THEOREM StopsThere == Spec => []StopsAtBreakpoint
  <1>1. IInv => StopsAtBreakpoint
    BY Implied
  <1> QED
    BY Invariant, <1>1, PTL

\* main destroys the core once the gdb session is over, not before.
THEOREM FreedLate == Spec => []FreedAfterSession
  <1>1. IInv => FreedAfterSession
    BY Implied
  <1> QED
    BY Invariant, <1>1, PTL

\* While a listener holds the lock, only its own steps touch the core or the
\* trace switch: a RESET and a gdb handler never interleave.
THEOREM Separation == Spec => NoInterference
  <1>1. IInv /\ [Next]_vars =>
          [\A t \in Listener :
             (lock = t /\ at'[t] = at[t]) => UNCHANGED <<core, enabled>>]_vars
    BY StepSeparates
  <1> QED
    BY Invariant, <1>1, PTL DEF Spec, NoInterference
=============================================================================
