------------------------------ MODULE GdbLink ------------------------------
(***************************************************************************)
(* The packet layer between gdb and the simulator: the rules of scanner.l  *)
(* on the tokens that Scanner cuts, the checks, acknowledgements and       *)
(* replies of gdb_protocol.c, and gdb at the other end of a link that may  *)
(* damage the body of packets, add acknowledgements, and a bounded number  *)
(* of times break the framing: add, lose or garble whole tokens.           *)
(*                                                                         *)
(* gdb is not part of the program: it makes one call at a time, sends the  *)
(* packet until it is acknowledged, waits for the reply and acknowledges   *)
(* it. The number of a call is not on the link: it is there for the        *)
(* specification of what the link promises.                                *)
(***************************************************************************)
EXTENDS GdbHandlers

CONSTANTS Sessions,      \* the sequences of calls gdb may make
          Pc,            \* where the program can be after a step
          MaxRun,        \* steps it makes when continued, at most
          ErrorSize,     \* MAX_ERROR_SIZE
          MaxDamage,     \* bodies damaged and acknowledgements added
          MaxNoise       \* tokens added, lost or garbled

Op == UNION {{s[k] : k \in DOMAIN s} : s \in Sessions}

ASSUME LinkAssumption == /\ Sessions \subseteq Seq(Op)
                         /\ Pc \subseteq Word /\ \A pc \in Pc : pc % 4 = 0
                         /\ BigEndian \in BOOLEAN /\ MaxRun \in Nat
                         /\ ErrorSize \in Nat /\ ErrorSize >= 2
                         /\ MaxDamage \in Nat /\ MaxNoise \in Nat

\* A call carries bytes, as many as it says, or words, and names a register that
\* the handlers accept: they assert that its number is below 16.
ASSUME CallAssumption ==
  \A op \in Op : /\ op.addr \in Nat /\ op.size \in Nat
                 /\ op.kind = "X" => op.data \in Seq(Byte) /\ Len(op.data) = op.size
                 /\ op.kind \in {"p", "P"} => op.addr < 16
                 /\ op.kind = "P" => op.data \in Word
                 /\ op.kind = "G" => op.data \in [0 .. 16 -> Word]

VARIABLES
  mem, reg,     \* the memory and the registers
  steps,        \* how often arm_step has run
  target_exception,
  at,           \* the gdb listener: "scan", "handle" a packet, "done"
  cmd,          \* the packet it handles
  len,          \* parser_data.len: the characters of the error
  packet,       \* gdb->packet: the last reply, of length 0 before the first
  served,       \* the number of the last call executed
  toServer, toClient,            \* what is under way
  phase, calls, answer,          \* gdb: where it is, what it has called, and got
  damageLeft, noiseLeft

core == <<mem, reg, steps, target_exception>>
server == <<core, at, cmd, len, packet, served>>
client == <<phase, calls, answer>>
faults == <<damageLeft, noiseLeft>>
vars == <<server, toServer, toClient, client, faults>>

None == <<"none">>
noisy == noiseLeft < MaxNoise
waiting == phase \in {"unacked", "waiting"}

\* gdb reads words in the order of the target's bytes.
Value(bytes) ==
  LET digit(k) == IF BigEndian THEN bytes[5 - k] ELSE bytes[k]
  IN  digit(1) + Base * (digit(2) + Base * (digit(3) + Base * digit(4)))
Bytes(v) ==
  LET digit(k) == (v \div Weight(k)) % Base
  IN  [k \in 1 .. 4 |-> digit(IF BigEndian THEN 4 - k ELSE k - 1)]
Understood(text) ==
  CASE text[1] = "word" -> <<"word", Value(text[2])>>
    [] text[1] = "words" -> <<"words", [n \in DOMAIN text[2] |-> Value(text[2][n])]>>
    [] OTHER -> text

\* What gdb can know of the program: the registers as they are sent, the stop
\* as its reason, the last reply as it understands it.
Remote == INSTANCE RemoteCall WITH
            regs <- [n \in DOMAIN reg |-> Sent(reg, n)],
            stop <- stop_reason(target_exception),
            result <- Understood(packet)

Ack == [type |-> "ack"]
Nak == [type |-> "nak"]
Garbage == [type |-> "noise"]
Reply(text) == [type |-> "reply", good |-> TRUE, text |-> text]

\* gdb escapes the bytes that frame a packet.
Framing == {35, 36, Escape}
Escaped(bytes) ==
  LET text[k \in 0 .. Len(bytes)] ==
        IF k = 0 THEN <<>>
        ELSE text[k - 1] \o (IF bytes[k] \in Framing THEN <<Escape, Twist(bytes[k])>>
                                                     ELSE <<bytes[k]>>)
  IN  text[Len(bytes)]
Content(op) == CASE op.kind = "X" -> Escaped(op.data)
                 [] op.kind = "P" -> Bytes(op.data)
                 [] op.kind = "G" -> [n \in DOMAIN op.data |-> Bytes(op.data[n])]
                 [] OTHER -> <<>>
Request(k, op) == [type |-> "packet", good |-> TRUE, id |-> k, kind |-> op.kind,
                   addr |-> op.addr, size |-> op.size, content |-> Content(op)]

Init == /\ mem = [a \in Position |-> 0]
        /\ reg = ResetRegisters([n \in 0 .. 16 |-> 0])
        /\ steps = 0 /\ target_exception = 0
        /\ at = "scan" /\ cmd = None /\ len = 0 /\ packet = None /\ served = 0
        /\ toServer = <<>> /\ toClient = <<>>
        /\ phase = "idle" /\ calls = <<>> /\ answer = None
        /\ damageLeft = MaxDamage /\ noiseLeft = MaxNoise

-----------------------------------------------------------------------------
(* The gdb listener. Rio_writen writes all it is given, in order. *)

\* handle_error: what the characters of an error make it send.
HandleError == IF len > 0 THEN <<Nak>> ELSE <<>>

\* gdb_transmit_packet writes gdb->len characters: none before the first reply.
TransmitPacket == IF packet = None THEN <<>> ELSE <<Reply(packet)>>

Token(type) == at = "scan" /\ toServer # <<>> /\ Head(toServer).type = type
Take(replies) == toServer' = Tail(toServer) /\ toClient' = toClient \o replies

ScanAck ==
  /\ Token("ack") /\ Take(HandleError)
  /\ len' = 0
  /\ UNCHANGED <<core, at, cmd, packet, served, client, faults>>

\* A mutant of ScanNak: the packet is executed again, not sent again.
ScanNakExecutes ==
  /\ Token("nak") /\ Take(HandleError)
  /\ len' = 0
  /\ at' = IF served = 0 THEN "scan" ELSE "handle"
  /\ UNCHANGED <<core, cmd, packet, served, client, faults>>

\* A mutant of ScanNak: nothing is sent again.
ScanNakSilent ==
  /\ Token("nak") /\ Take(HandleError)
  /\ len' = 0
  /\ UNCHANGED <<core, at, cmd, packet, served, client, faults>>

ScanNak ==
  /\ Token("nak") /\ Take(HandleError \o TransmitPacket)
  /\ len' = 0
  /\ UNCHANGED <<core, at, cmd, packet, served, client, faults>>

\* A mutant of ScanNoise: the error is never full.
ScanNoiseUnbounded ==
  /\ Token("noise") /\ Take(<<>>)
  /\ len' = len + 1
  /\ UNCHANGED <<core, at, cmd, packet, served, client, faults>>

\* add_character_to_error: a full buffer is handled as an error before the
\* character is added.
ScanNoise ==
  /\ Token("noise")
  /\ IF len > ErrorSize - 2 THEN Take(HandleError) /\ len' = 1
                            ELSE Take(<<>>) /\ len' = len + 1
  /\ UNCHANGED <<core, at, cmd, packet, served, client, faults>>

\* A mutant of ScanPacket: the sum is not compared.
ScanPacketUnchecked ==
  /\ Token("packet") /\ Take(HandleError \o <<Ack>>)
  /\ len' = 0
  /\ cmd' = Head(toServer) /\ at' = "handle"
  /\ UNCHANGED <<core, packet, served, client, faults>>

\* gdb_packet_analysis up to the handler.
ScanPacket ==
  /\ Token("packet")
  /\ len' = 0
  /\ IF Head(toServer).good
     THEN /\ Take(HandleError \o <<Ack>>)
          /\ cmd' = Head(toServer) /\ at' = "handle"
     ELSE Take(HandleError \o <<Nak>>) /\ UNCHANGED <<cmd, at>>
  /\ UNCHANGED <<core, packet, served, client, faults>>

\* arm_step, n times: Cpu says what a step does, here its result and the pc.
arm_step(n) == /\ steps' = steps + n
               /\ \E pc \in Pc : reg' = WriteRegister(reg, PC, pc)
               /\ target_exception' \in {0, UNDEFINED_INSTRUCTION, DATA_ABORT}
               /\ UNCHANGED mem

Answer(text) == packet' = text /\ UNCHANGED core
SendStopReason == packet' = <<stop_reason(target_exception')>>

ReadMemory == Answer(<<"bytes", read_memory(mem, cmd.addr, cmd.size)>>)
WriteMemory ==
  LET write == write_memory_binary(mem, cmd.addr, cmd.size, cmd.content)
  IN  /\ mem' = write.mem
      /\ packet' = IF write.ok THEN <<"OK">> ELSE <<"E02">>
      /\ UNCHANGED <<reg, steps, target_exception>>

WriteRegisters(new) == /\ reg' = new /\ packet' = <<"OK">>
                       /\ UNCHANGED <<mem, steps, target_exception>>

\* cont: no step is made when the pc is on a breakpoint already.
cont == /\ (\E n \in 1 .. MaxRun : arm_step(n)) \/ UNCHANGED core
        /\ SendStopReason

\* The handlers by the letter of the packet, and the empty answer to one
\* without a handler. Those of k, q and H are not called here.
handler ==
  \/ cmd.kind = "m" /\ ReadMemory
  \/ cmd.kind = "X" /\ WriteMemory
  \/ cmd.kind = "g" /\ Answer(<<"words", read_general_registers(reg)>>)
  \/ cmd.kind = "p" /\ Answer(<<"word", read_register(reg, cmd.addr)>>)
  \/ cmd.kind = "G" /\ WriteRegisters(write_general_registers(cmd.content))
  \/ cmd.kind = "P" /\ WriteRegisters(write_register(reg, cmd.addr, cmd.content))
  \/ cmd.kind = "s" /\ arm_step(1) /\ SendStopReason
  \/ cmd.kind = "c" /\ cont
  \/ cmd.kind = "?" /\ UNCHANGED core /\ SendStopReason
  \/ cmd.kind = "z" /\ Answer(<<"">>)

\* The handler, and gdb_send_buffer.
Handle ==
  /\ at = "handle" /\ handler
  /\ served' = cmd.id
  /\ toClient' = Append(toClient, Reply(packet'))
  /\ at' = "scan"
  /\ UNCHANGED <<cmd, len, toServer, client, faults>>

\* <<EOF>>: gdb has closed the connection.
ScanEof ==
  /\ at = "scan" /\ toServer = <<>> /\ phase = "closed"
  /\ at' = "done" /\ len' = 0
  /\ toClient' = toClient \o HandleError
  /\ UNCHANGED <<core, cmd, packet, served, toServer, client, faults>>

gdb_scanner == ScanAck \/ ScanNak \/ ScanNoise \/ ScanPacket \/ Handle \/ ScanEof

-----------------------------------------------------------------------------
(* gdb. *)

Send(item) == toServer' = Append(toServer, item)
Arrives(type) == toClient # <<>> /\ Head(toClient).type = type
Drop == toClient' = Tail(toClient)

Call ==
  /\ phase = "idle"
  /\ \E s \in Sessions : /\ Len(calls) < Len(s)
                         /\ calls = SubSeq(s, 1, Len(calls))
                         /\ calls' = SubSeq(s, 1, Len(calls) + 1)
  /\ Send(Request(Len(calls'), calls'[Len(calls')]))
  /\ phase' = "unacked"
  /\ UNCHANGED <<server, toClient, answer, faults>>

Resend == Send(Request(Len(calls), calls[Len(calls)]))

\* Before the acknowledgement a reply is a repeated one: gdb acknowledges it
\* and drops it.
Unacked ==
  /\ phase = "unacked" /\ toClient # <<>> /\ Drop
  /\ \/ Arrives("ack") /\ phase' = "waiting" /\ UNCHANGED toServer
     \/ Arrives("nak") /\ Resend /\ UNCHANGED phase
     \/ Arrives("reply") /\ Send(Ack) /\ UNCHANGED phase
  /\ UNCHANGED <<server, calls, answer, faults>>

Waiting ==
  /\ phase = "waiting" /\ toClient # <<>> /\ Drop
  /\ \/ Head(toClient).type # "reply" /\ UNCHANGED <<toServer, phase, answer>>
     \/ /\ Arrives("reply") /\ Head(toClient).good
        /\ phase' = "idle" /\ answer' = Understood(Head(toClient).text) /\ Send(Ack)
     \/ /\ Arrives("reply") /\ ~Head(toClient).good
        /\ Send(Nak) /\ UNCHANGED <<phase, answer>>
  /\ UNCHANGED <<server, calls, faults>>

\* gdb waits longer than anything takes: nothing is under way any more.
Timeout ==
  /\ toServer = <<>> /\ toClient = <<>> /\ at = "scan"
  /\ \/ phase = "unacked" /\ Resend
     \/ phase = "waiting" /\ Send(Nak)
  /\ UNCHANGED <<server, toClient, client, faults>>

Close ==
  /\ phase = "idle" /\ phase' = "closed"
  /\ UNCHANGED <<server, toServer, toClient, calls, answer, faults>>

gdb == Call \/ Unacked \/ Waiting \/ Timeout \/ Close

-----------------------------------------------------------------------------
(* The link. *)

Without(s, i) == SubSeq(s, 1, i - 1) \o SubSeq(s, i + 1, Len(s))
With(s, i, item) == SubSeq(s, 1, i - 1) \o <<item>> \o SubSeq(s, i, Len(s))

\* Characters of the body become others, with which the sum no longer agrees.
DamageBody ==
  \/ \E i \in DOMAIN toServer :
       /\ toServer[i].type = "packet"
       /\ toServer' = [toServer EXCEPT ![i].good = FALSE, ![i].kind = "z"] /\ UNCHANGED toClient
  \/ \E i \in DOMAIN toClient :
       /\ toClient[i].type = "reply"
       /\ toClient' = [toClient EXCEPT ![i].good = FALSE, ![i].text = <<"">>] /\ UNCHANGED toServer

\* An acknowledgement, or a request to send again, that gdb has not sent.
AddAck == /\ \E i \in 1 .. Len(toServer) + 1, a \in {Ack, Nak} :
               toServer' = With(toServer, i, a)
          /\ UNCHANGED toClient

Damage == /\ damageLeft > 0 /\ damageLeft' = damageLeft - 1
          /\ phase # "closed"
          /\ DamageBody \/ AddAck
          /\ UNCHANGED <<server, client, noiseLeft>>

Noise == /\ noiseLeft > 0 /\ noiseLeft' = noiseLeft - 1
         /\ phase # "closed"
         /\ \/ /\ \E i \in 1 .. Len(toServer) + 1 : toServer' = With(toServer, i, Garbage)
               /\ UNCHANGED toClient
            \/ /\ \E i \in DOMAIN toServer : toServer' = [toServer EXCEPT ![i] = Garbage]
               /\ UNCHANGED toClient
            \/ /\ \E i \in DOMAIN toClient : toClient' = Without(toClient, i)
               /\ UNCHANGED toServer
         /\ UNCHANGED <<server, client, damageLeft>>

Link == Damage \/ Noise

Over == at = "done" /\ UNCHANGED vars

Next == gdb_scanner \/ gdb \/ Link \/ Over

Spec == Init /\ [][Next]_vars

\* The listener runs, and gdb reads, waits and sends again.
FairSpec == Spec /\ WF_vars(gdb_scanner) /\ WF_vars(Unacked \/ Waiting \/ Timeout)

-----------------------------------------------------------------------------
TypeOK ==
  /\ mem \in Contents /\ reg \in RegisterFile /\ steps \in Nat
  /\ at \in {"scan", "handle", "done"}
  /\ len \in 0 .. ErrorSize - 1
  /\ served \in 0 .. Len(calls)
  /\ phase \in {"idle", "unacked", "waiting", "closed"}

\* Damaged bodies and acknowledgements out of place do not show: each call is
\* executed once, in order, and answered with its own result: memory accesses of
\* several bytes as if made at once, registers as they were written, but for the
\* bit 1 of the pc, stops with the reason of the last step. A broken framing can make the listener
\* execute a call again, and gdb take an older reply for its answer: the listener
\* asks for a packet again and executes it too. Calls are executed in order even
\* then.
CallsOnce == Remote!Spec

\* Whatever the link has done, every call returns.
EveryCallReturns == waiting ~> ~waiting

\* gdb has at most one packet to be executed at a time, as long as the framing
\* holds: what is sent again is what has not been executed.
SentAgainUnexecuted ==
  ~noisy => \A i \in DOMAIN toServer :
              toServer[i].type = "packet" => toServer[i].id > served /\ at = "scan"
=============================================================================
