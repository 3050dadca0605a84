# A model of the ARM simulator

`arm_simulator` (src/arm_simulator-1.4) executes ARMv5 instructions under the
control of gdb: gdb connects to a socket, loads a program, sets registers, steps
and continues; another client may connect to a second socket and send
interrupts. This directory holds TLA+ modules that model it, the TLC
configurations that check them and TLAPS proofs about them.

## The system

| Part | State | Operations | Calls |
|---|---|---|---|
| memory.c | the bytes, their number, the endianness | read and write of a byte, a half, a word | - |
| registers.c | 37 words, the mode (always USR) | read and write of a register, of the cpsr | - |
| arm_core.c | a memory, registers, a cycle count | the same accesses, traced; fetch | memory, registers, trace |
| arm_exception.c | - | RESET: cpsr, then pc; nothing for the others | arm_core |
| cond_shift_calculator.c, util.c | - | condition against the flags; shifter | arm_core |
| arm_data_processing.c | - | the sixteen operations | arm_core, the shifter |
| arm_load_store.c | - | single and multiple transfers | arm_core, the shifter |
| arm_branch_other.c | - | B, BL, swi (0x123456 ends the process) | arm_core |
| arm_instruction.c | - | arm_step: fetch, condition, dispatch, exception | all of the above |
| trace.c | the enabled switch, a stack of locations | enable, disable, enter and leave a location | - |
| gdb_protocol.c | the packet buffer, the last exception | one handler per packet, under the lock | arm_core, memory, arm_step, trace |
| scanner.c (generated) | a buffer, its end, an automaton's state, the last match | cut the stream into tokens, refill the buffer, the end of the connection | read, the rules |
| scanner.l | the characters of an error | the rules: packets, acknowledgements, noise | gdb_protocol |
| arm_simulator.c | the lock, the sockets, three threads | main, gdb_listener, irq_listener | gdb_protocol, arm_exception |
| debug.c | a sorted table of file names | insert, binary search | - |
| send_irq.c | - | connect, send a byte, close | the irq socket |

Three threads share the core: `main`, which waits for the gdb thread and frees
the core; the gdb listener, which runs one packet handler at a time with
`shared.lock` held; and the irq listener, which holds the same lock around
`arm_exception`. `trace.c` has global state that both listeners use.

What is hard here, and where the properties are aimed:

- *interleaving*: an interrupt between two accesses of a handler; a handler
  between the two stores of a RESET; a trace switch between a LOCATION and its
  END_LOCATION; `main` freeing the core while irq_listener runs;
- *liveness*: `cont` holds the lock until a breakpoint comes; a scanner that
  waits for a character more than a packet has waits for ever, since gdb sends
  none before its answer;
- *unreliable delivery, retries*: damaged packets, lost replies, requests to send
  again that arrive before there is anything to send;
- *the edge of a buffer*: a token that read returns in pieces, a nul of the stream
  next to the nul that marks the end of the buffer, the end of the connection
  inside a packet;
- *partial failure*: assertions, SIGPIPE after a half close, the exit of an swi,
  a multiple transfer whose assertion fails after its effects;
- *stale and uninitialised values*: the instruction `cont` read in anticipation,
  flags computed from a register already overwritten, values that failed reads
  leave as they were;
- *numeric edges*: carries between bytes in the memory's writes, loops that
  ignore their address, sign and borrow on unsigned words, shifts around 32.

## The modules

| Module | Models |
|---|---|
| `MemoryOps` | the accesses of memory.c, as operators on contents |
| `Memory` | memory.c as a component: any access, any order |
| `Registers` | registers.c and its use by arm_core.c; words of `W` bits |
| `Encoding` | the fields of an instruction, the results of the decoders |
| `CondShift` | cond_shift_calculator.c, asr and ror of util.c |
| `DataProcessing` | arm_data_processing.c |
| `LoadStore` | arm_load_store.c |
| `Branch` | arm_branch_other.c |
| `Cpu` | arm_step, composed of the five modules above |
| `MCCpu` | the instructions, registers and contents TLC enumerates for `Cpu` |
| `Simulator` | the three threads, their lock, the sockets, the trace |
| `TokenStream` | the rules of scanner.l as patterns on a stream: what the scanner promises |
| `Scanner` | yylex as flex generates it: tables, buffer, reads |
| `MCScanner` | the streams TLC enumerates for `Scanner` |
| `RemoteCall` | what a debugger expects behind the link: calls executed once, in order, answered |
| `GdbHandlers` | the data of the handlers of gdb_protocol.c, on the registers of `Registers` |
| `GdbLink` | the rules of scanner.l and gdb_protocol.c's checks and replies; gdb; the link |
| `MCGdbLink` | the sessions TLC enumerates for `GdbLink` |
| `MemoryProofs`, `CpuProofs`, `SimulatorProofs`, `ScannerProofs`, `GdbLinkProofs` | the theorems about the component |
| `MemoryOpsProofs`, `RegistersProofs`, `WordProofs` | lemmas about the operators: the memory's loops; numbers, digits and words; shifts, flags and transfers |

`Memory` has one action per function of memory.h; its state is the contents, the
endianness and the last access with its result. The code's loops are kept as they
are: the half reads ignore the address, the word loops run from the address to
3, and the writes add a byte's place to the value *before* shifting it.

`Cpu` has one action per branch of the dispatch of `arm_execute_instruction`,
and each action is a whole call of `arm_step`: fetch, condition, execution and
exception. An instruction is the record of its fields. Memory words are not
decoded: what the word at an address below 4 decodes to is a constant set of
instructions, and from address 4 on it is the zero word that `memory_read_word`
gives. Undefined values (a local left uninitialised, a register read beyond the
array) are members of `Junk`. What the code does with a register *number* where
it means its value (the shifts by an immediate, the carry of the shifter, the
zero flag) is what the model does.

`Simulator` has one action per access to what the threads share: entering and
leaving each traced access (`Enter`, `Leave`), the two stores of a RESET, the
lock, the handlers between their accesses, the scan of a packet, the two
sockets and their clients, the end of the session and of the process. The core
is abstracted to the pc, the cpsr and whether the breakpoint is at address 0,
the only word that can be one; `arm_step` is a sequence of accesses, of which the last
has had any effect and gives any result, which is what `Cpu` details. Its accesses nest, at most
twice: a write whose operand is a read, as in `arm_write_cpsr(p, arm_read_cpsr(p) | ..)`
(arm_data_processing.c:60-63, arm_load_store.c:367); no operand of a read is an access, and nothing
outside `arm_step` nests (`Nesting`, `Deepest`). Two operands of one write are taken one
after the other. `p` and `P` stand for any register by the
pc. Reads and writes of an n-register handler are one access for r0..r15, whose
order nothing else can observe while the lock is held - which is what
`NoInterference` says.

`Scanner` has one action per turn of a loop of yylex and per branch between its
labels: the match loop (`Match`), the rules (`Rule`), the end of the buffer or a
nul met in a token (`EndOfBuffer`), the automaton run again from the beginning of
the token (`PreviousState`, `PreviousStateEnds`, `NulTransition`), and the three
ways out of yy_get_next_buffer (`FillMore`, `LastMatch`, `EndOfFile`). The tables
are those of scanner.c; a character is its class in yy_ec. Pointers into the
buffer are places in the stream: yy_get_next_buffer moves characters and pointers
together, and yy_c_buf_p and yy_cp are one variable because yylex only goes on
from one after copying it to the other. The hold character that ends yytext
is put back before it is read again and is left out. A read returns any number
of the characters that have not been read, which is what a socket may do.

`TokenStream` is the abstract specification: at each place, a packet if the
pattern of the third rule matches there, a single character otherwise, the end
after the last. `CutsByRules` says that `Scanner` implements it, with
yytext_ptr as the place reached; `EndIsMet`, that the end of every stream is met.

`GdbLink` takes the tokens as `Scanner` cuts them. It has one action per rule
(`ScanAck`, `ScanNak`, `ScanNoise`, `ScanPacket`, `ScanEof`) and one for the handler
with its reply (`Handle`; the lock, and what happens between the accesses of a
handler, are in `Simulator`). gdb and the link are not part of the program: gdb
sends a packet again when it is asked to or when nothing is under way any more;
the link may damage the body of a packet or of a reply, add acknowledgements
(`Damage`), and break the framing: add, garble or lose whole tokens (`Noise`).
Of `arm_step` it keeps the result and the pc: `Cpu` has the rest.

`RemoteCall` is the abstract specification of that link, and `CallsOnce` says that
`GdbLink` implements it. The refinement mapping shows the registers as the
handlers send them, the last exception as the reason of a stop, and the last
reply as gdb understands it. Each call is executed once, in order, and gdb's answer
is that call's result, as long as the framing holds. Once it has been broken (a
variable of the abstract specification says so) calls may be executed again,
and answers may be those of an older call: the listener that meets noise before a
packet asks for the packet again *and* executes it (scanner.l:67-70), which no
sequence number tells apart from a first copy. Two behaviours of the registers
are visible in the abstract specification too, because they are what gdb gets:
the bit 1 of a pc is lost, and a `p` of r10 to r15 answers with r0.

## The runs

| Run | Question | Result |
|---|---|---|
| `memory` | does an access touch only its bytes, are words assembled in order, how far from exact are the bytes written? | holds |
| `memory_address` | is an access of the data at its address (memory.h:34-36)? | violated: only at 0 is a half or a word read and written where it is |
| `memory_read_back` | is a value written the value read (memory.h:34-36)? | violated: 0x00FF is stored as 0x01FF |
| `cpu_alu` | are N, V and the carry of ADDS and SUBS those of the exact result; do the control bits survive every operation, shift and condition? | holds |
| `cpu_transfer` | what may each instruction write, does a store stay in the unit or the words it is for, what do an exception and a failed store leave alone, where do backward branches go, when do the assertions of multiple transfers fail? | holds |
| `cpu_condition` | is an instruction whose condition fails skipped (arm_data_processing.h:44-45)? | violated: it resets the core |
| `simulator` | with every interleaving, are handlers and exceptions atomic, the trace balanced, replies current, the core freed late? | holds |
| `simulator_live` | with fair threads and programs that reach their breakpoint, does every packet end, every interrupt arrive, the process exit? | holds |
| `simulator_irq` | and with a program that never does (arm_simulator.c:118-119)? | violated: the interrupt waits for ever |
| `scanner` | however read returns the stream, are its tokens those of the rules; is there always room; does it wait only when it must? | holds |
| `gdb_link` | over a link that damages packets, is each call executed once and answered with its result, and does every call return even when the framing breaks? | holds |
| `simulator_continue` | does cont wait for the breakpoint (gdb_protocol.c:158-159)? | violated outside the memory, where it tests a word it never read |

**Bounds.** `memory`: five bytes, so that every loop ends inside and an address
lies past each loop's end, in base 4: the smallest in which a place (0..3) is a
byte; all contents are initial states, so that one access from each is every
case, and sequences come for free. `cpu_*`: words of 8 bits made of four
2-bit bytes, a memory of eight bytes (two words: one below and one above
address 4, and addresses past the end by one), values at the signed and unsigned
boundaries, shift amounts 0, 1, W, W+1 and one whose low bits are 1; one
instruction from each register file for the operations, sequences of three for
the transfers. `ByteMod` keeps the shift count narrower than a word, as 256 is to
2^32. `simulator`: two packets of fourteen kinds, two interrupts, one byte in
flight; two packets are the smallest number for which one is handled in the
state another left (the pc moved outside the memory, then a continue).
`scanner`: a buffer of two characters, the smallest in which a token is not full
at once, which grows twice within a packet of five; reads of up to three, more
than the first buffer has room for; all streams of three characters, every class
included, and all of six characters of the four classes packets and buffer ends
are made of: a packet with a body, a packet broken off by another, a nul or the
end of the stream at every place of it. `gdb_link`: two calls are the smallest number for
which an answer can be an older call's and an execution a second one; the
sessions pair a call with one that shows its effect, and every kind of call is
in one; one damage and two breaks of the framing, two being what it takes for a stale reply
to be taken for an answer; an error of at most one character, full at once. Bytes have seven
bits there, the fewest that hold the characters of a frame, so that a word has 28,
within TLC's integers; `MaxRun` bounds the steps of a continue.
`simulator_live` has one interrupt and one value of the cpsr, which no liveness
property looks at. Every bound is a constant of its configuration; the proofs
are for all of them. A run of `Cpu` ends after `MaxSteps` and a process that has
aborted or exited does nothing, hence `CHECK_DEADLOCK FALSE` there; in
`Simulator` the end of the process is an explicit stutter and deadlock is
checked.

**Fairness.** Weak fairness of each thread: the scheduler runs them. Strong fairness of the
last access of `arm_step` (`GdbStep`): the functions it calls loop only over
bits and lists of registers, so that an instruction makes finitely many accesses. The mutex
of a thread that waits is fair only in that weak sense, and the clients may
stop at any time, so no property asks anything of them. `Scanner` asks that yylex
goes on, which includes that a read returns: gdb sends its stream and closes the
connection. `GdbLink` asks that the listener runs (its handlers end, which for
a continue is the assumption of `BreakSpec`), and that gdb reads what
arrives and, when nothing comes any more, sends again; it asks nothing of
the link, whose breaks are only bounded in number. `BreakSpec` adds that a
program executed for ever infinitely often comes to its breakpoint (strong
fairness of the step that does): the code cannot promise it, so it is stated as
an assumption on the program, and `simulator_irq` shows what happens without it.

## What is proved

`MemoryProofs`, for every size, base and set of accesses: `TypeCorrect` (contents
stay bytes), `AccessesFrame` (an access changes only bytes it names, and only
when it succeeds), `Assembles` (a half or a word read at 0 is made of its bytes in their order)
and `Digits` (of a word written at 0, each byte is the digit of the value at its
place or one more, modulo the base, and the lowest is exact). No strengthening is needed: `TypeOK` gives the contents, and
lemmas on the loops the rest: `StoredIsByte` and `WriteBytesKeeps` for the frame,
`ReadsInOrder` for the reads, and `AddedBeforeShift` for the writes: the place, added
before the shift, is below the weight it is divided by and carries one at most.

`SimulatorProofs`, for every set of addresses and status values and every
budget: mutual exclusion, the balance of the trace (with the lock free
the location stack is empty and the trace enabled, and never are there more than two locations), the currency of replies, the
stop of `cont`, the late freeing, and `NoInterference`. None of them is inductive
alone. `IInv` says that the lock is held by the listener whose *place* is in its
critical section (`LockByPlace`), that a listener inside LOCATION is at an access, no deeper than accesses
nest there (`InByPlace`), that the trace is off exactly in the quiet part of a handler
(`TraceByPlace`), which packets come to which place (`PacketByPlace`), what the
buffer holds at each place since it was filled (`BufferByPlace`), and how far the
session is (`SessionOver`). Each action keeps it; the properties follow from it
without any further induction. The assumptions are those on the constants:
`MemoryAssumption`, `AccessAssumption`, `SimulatorAssumption`.

`ScannerProofs`, for every stream, every size of the buffer and of the reads:
`TypeCorrect`, `BufferGrows` (there is room whenever read is called), `WaitsInside`
(read is called only inside a packet or after a nul), and `Implements`, the refinement
of `TokenStream` (`CutsByRules`): initial states map to initial states and every
step to a step or a stutter. The argument: `Reads(s, n)` says which characters the
automaton has read from the beginning of the token when it is in state `s` at
place `n` - the tables, looked up once per state and class, are then a proof that a
transition takes `Reads` to `Reads` (`Transitions`, `Character`); `Begun` says that
the last accepting state is the right one to back up to; the replay after a
refill re-establishes both (`Replayed`). `IInv` puts these together with where the
automaton is, and the rule executed is the one of the state reached. The assumptions
are `SizeAssumption` and `InputsAssumption`.

`CpuProofs`, for every word size from 8 to 32 bits, memory, program, register file
and choice of undefined values: `TypeCorrect` and every property the runs of `Cpu` check.
Registers and bytes stay in range (`TypeCorrect`); the control bits of the cpsr survive
all but a RESET (`ControlBitsUntouched`); each instruction leaves alone the registers it does not
name (`RegistersFramed`); only stores write to the memory, and only inside the unit or the words of the
list they are for, however addresses wrap (`OnlyStoresWrite`, from `StoredTyped` for one unit, and
`ListedWord` for a word of a list: its place is below the number of registers listed); an
exception moves nothing but what it owns, and a store that fails only the pc and the base (`Precise`); a branch with link keeps the address
after it, and a backward one arrives where its offset says (`Branches`); a multiple
transfer fails its assertion exactly by its list (`Assertions`); N, V and the carry
of ADDS, N and V of SUBS, are those of the exact result (`Arithmetic`). `TypeOK` is inductive; the argument goes by what a call can be.
`Steps` says that a step is a fetch that fails, a failed condition, or one of
the calls of the dispatch; `RegistersLeft`, `MemoryLeft` and `ResultLeft` give for each
what it leaves, and the properties are read off them. What they rest on is in
`WordProofs`: the words are closed under every operation, the flags are bits of a
word whose lower part they leave (`FlagsOfSums` for the exact sums), and the loops of
the multiple transfers keep what they were not asked to touch. The logical
operations are defined on the functions of the bits of a word (`WordOf`), not by the
recursive operators of the community module, which the prover does not take. The
powers of two are no axiom of the provers either: `PowerSuccessor` and `PowerSum` follow
from 2^n being the number of subsets of a set of n members.

`GdbLinkProofs`, for all sessions, every memory, every effect of a step, words of any size,
both orders of bytes and any number of faults: `TypeCorrect`, `ExecutedOnce` (what
gdb sends again has not been executed, as long as the framing holds), and `Implements`:
`GdbLink` implements `RemoteCall`, with the refinement mapping that the run checks.
Three invariants carry them.

- `IInv` holds as long as no noise has broken the framing:
  a packet on the link is the call gdb waits for and the only one, sent when no answer to
  it is on its way (`OnePacket`); one acknowledgement or request at most is on
  its way, the first once the listener handles the packet and the second while it has not
  (`OneAnswer`); and how far a call is follows from where gdb and the listener are
  (`Progress`). `Lockstep` is that invariant as a theorem. Without it
  `SentAgainUnexecuted` is not inductive: that a request to send again is
  answered before the execution only depends on everything that is under way.
- `Typed` holds whatever the link does. The packets under way are those of
  calls, in the order of the calls, none older than the last one executed
  (`InOrder`). That is what is left of the promise when the framing breaks.
- `Fresh` holds as long as the framing does: a reply that gdb can take for its answer,
  because it comes after the acknowledgement, is the last one written.

The rest of the refinement is `HandlerEffect`: a handler on the packet of a call
does to the program what `RemoteCall` says of the call. It needs the content of
packets. `BytesArrive` says that the bytes that gdb escapes are those that
`write_memory_binary` stores, at their addresses, up to the end of the memory; `TextRead`, that
a word written as the text of its bytes is the word read, in both orders; `PcSent` and
`ShownWritten`, what the reading of the pc does to its value. The argument about
the two queues is about positions, by lemmas on what reading, writing, inserting and
changing an item does to a sequence of whatever items (`AppendItem` to `ChangedItem`).

*Loops.* The loops over bits, over the bytes of a request and over the registers of a list are
recursive functions on an interval of numbers. The induction theorems of the library take an
operator as a parameter, which the provers cannot instantiate. `RegistersProofs` therefore
states induction for a set of numbers (`LoopInvariant`) and the existence of the function a loop
computes (`LoopExists`), from the well-foundedness of the naturals; each loop is
then a set of places and the step from one to the next.

*Assumptions.* They are those the modules state on their constants, which TLC evaluates on every
run. `MemoryAssumption`: a memory of four bytes at least, bytes of two bits at least.
`RegistersAssumption`: words of 8 to 32 bits, made of four bytes. `CpuAssumption`: what
the fields of an instruction can hold. `AccessAssumption`, `SimulatorAssumption`, `SizeAssumption`,
`InputsAssumption`: the sets that are enumerated and their bounds. `LinkAssumption`: the calls
and budgets, and that a step leaves the pc at a word's address. `CallAssumption`: gdb
sends as many bytes as it says, values that are words, and the numbers of registers that the
handlers accept (they assert that a number is below 16; gdb only asks for the registers it
knows).

Model-checked only: the liveness properties (`GdbAnswers`, `IrqReceived`, `SessionEnds`,
`EndIsMet`, `EveryCallReturns`), for which the prover has neither fairness nor
ENABLED, and the runs that end in a violation, whose result is the behaviour TLC prints.

## Differences from the comments

Found while translating; the modules do what the code does. A run shows those that name one.

- a word that begins above 0 is read and written only up to address 3, and a half is read at 0
  whatever its address and written only up to address 1, so that half and word stores from
  address 2 and 4 on change nothing (memory.c:87, 105, 131, 146): `memory_address`. It follows
  that a program fetches the zero word from address 4 on;
- a forward branch offset is subtracted from the pc, since it is negated before its sign is
  looked at (arm_branch_other.c:81, against the comment at 77);
- HI and LS test C and Z both, and neither (cond_shift_calculator.c:79, 85);
- every subtraction sets the carry (arm_data_processing.c:56 against :380);
- the flags of an operation whose destination is Rn are computed from Rn after the result has
  been written there: a comparison never sets V (arm_data_processing.c:388-392 against :381);
- CMP and CMN write Rn, TST and TEQ write Rd (arm_data_processing.c:388, 74);
- RSB is executed as RSC; SBC and RSC use `~C` or `!C` differently;
- a load of several registers that does not list the pc, or a store that does,
  aborts (arm_load_store.c:361, 371; `AssertionsByList`);
- offsets of single transfers are cut to 8 bits (arm_load_store.c);
- `p` reads its register number in decimal and `P` in hexadecimal
  (gdb_protocol.c:257, 360).

## Not modelled

csapp.c is a textbook's socket wrappers: rio_writen, which writes all it is given,
and the exit of `Read` on an error are all the threads rely on. debug.c is a table
filled from the command line and searched to decide whether to print: diagnostics
that no other part depends on (a 65th name shifts it one place past its end).
What flex generates for uses this program does not make of it (several
buffers, strings, a stack of start states) does not run. The command line, the text of packets
and traces, cycle_count and the names of registers are formatting or start-up; the
length of a reply, which the handlers do not compare with the size of the packet,
is abstracted with its text; the answers of `q` and `H` change no state. The
listener returns early when fdopen fails (scanner.l:86-89), which then ends the
process as the end of a session does: the failure is left out. The banked registers
are out of reach (no instruction changes the mode of registers.c); Examples and
the build files are not the program.

## Hazards that no property catches

PROJECT.json lists each at its line, with the reason. The model has the behaviour,
but nothing says what it should be, or the abstract specification describes it as it is:

- a RESET after the core has been freed (arm_exception.c:36), SIGPIPE after a kill
  (gdb_protocol.c:190) and the assertion on a register's number (gdb_protocol.c:258) end the process;
  `GdbAnswers` and `SessionEnds` count that as an end;
- a load of several registers that goes on after a failed read (arm_load_store.c:347) and the
  shifter's read past the registers (cond_shift_calculator.c:149) give values that the
  instruction may write;
- a packet executed again after noise (scanner.l:45), a `p` that reads its number in decimal
  (gdb_protocol.c:257) and a pc that changes on its way (gdb_protocol.c:221) are in `RemoteCall`;
- flags computed after Rn has been overwritten (arm_data_processing.c:392) and the carry of
  subtractions (arm_data_processing.c:56) are among the differences above;
- the length of a reply (gdb_protocol.c:41) and the table of debug.c (debug.c:41) are
  not modelled.

## Plan

1. *(done)* `MemoryOps`, `Memory`, `MemoryProofs`.
2. *(done)* `Simulator`, its safety and liveness, `SimulatorProofs`.
3. *(done)* `Registers` to `Cpu`.
4. *(done)* `TokenStream`, `Scanner`, `ScannerProofs`.
5. *(done)* `RemoteCall`, `GdbHandlers`, `GdbLink`.
6. *(done)* `GdbLinkProofs`: the two ends in step, the types, the refinement of `RemoteCall`.
7. *(done)* `CpuProofs` and the lemmas on words: every property of `Cpu`.
8. What the lemmas make possible and no run states yet: which carry ADC, SBC and
   RSC take and give, and the order in which a multiple transfer visits its addresses.

Dropped: an `AtomicSimulator` whose handlers and exceptions are single steps. What a
handler answers is fixed by several of its accesses, so that the mapping would need history
variables for every handler; `MutualExclusion` and `NoInterference` say that
nothing comes between those accesses, which is what it would have shown.
