-------------------------------- MODULE Cpu --------------------------------
(***************************************************************************)
(* arm_step: fetch, condition, dispatch on bits 27..25, and the exception  *)
(* raised on a non-zero result. One step of this module is one call.       *)
(***************************************************************************)
EXTENDS DataProcessing, LoadStore, Branch

CONSTANTS Instructions, \* what the memory of the program can decode to
          Registers0,   \* register files gdb may have written before a run
          Contents0,    \* memory contents it may have loaded
          MaxSteps      \* calls of arm_step a run makes

\* A field of five bits is a shift of less than a word of 32.
ASSUME CpuAssumption == /\ Instructions \subseteq Instruction
                        /\ \A i \in Instructions : i.cls \in {0, 1} => ShiftImm(i.lo) < W
                        /\ Registers0 \subseteq RegisterFile
                        /\ Contents0 \subseteq Contents
                        /\ MaxSteps \in Nat

VARIABLES reg,   \* p->reg
          mem,   \* p->mem
          ins,   \* the instruction of the last step
          res,   \* what arm_step returned
          state, \* "running", "exited" (swi 0x123456) or "aborted" (an assertion)
          steps  \* calls made

vars == <<reg, mem, ins, res, state, steps>>

TypeOK == /\ reg \in RegisterFile
          /\ mem \in Contents
          /\ ins \in Instructions \cup {ZeroIns}
          /\ res \in Result
          /\ state \in {"running", "exited", "aborted"}
          /\ steps \in 0 .. MaxSteps

\* arm_create resets the core; gdb then loads a program and sets registers.
Init == /\ reg \in {ResetRegisters(r) : r \in Registers0} \cup Registers0
        /\ mem \in Contents0
        /\ ins = ZeroIns /\ res = 0 /\ state = "running" /\ steps = 0

FetchAddress == Minus(ReadRegister(reg, PC), 4)

\* The registers after arm_fetch, whether it fails or not.
Fetched == WriteRegister(reg, PC, Plus(FetchAddress, 4))

\* What memory_read_word gives decodes to any instruction below address 4,
\* and is the zero word from there on.
Fetchable == IF FetchAddress < 4 THEN Instructions ELSE {ZeroIns}

Running == state = "running" /\ steps < MaxSteps /\ steps' = steps + 1

\* The exception a result names; RESET is the only one that does anything.
Raise(r, result) == /\ res' = result
                    /\ reg' = IF result = RESET THEN ResetRegisters(r) ELSE r

\* A fetch that fails makes arm_execute_instruction return 1.
FetchFails == /\ Running /\ ~InMemory(FetchAddress)
              /\ Raise(Fetched, RESET)
              /\ UNCHANGED <<mem, ins, state>>

Fetch(i) == Running /\ InMemory(FetchAddress) /\ ins' = i

\* So does a condition that does not hold.
ConditionFails(i) == /\ Fetch(i) /\ ~CondVerifier(Fetched, i.cond)
                     /\ Raise(Fetched, RESET)
                     /\ UNCHANGED <<mem, state>>

Execute(i) == Fetch(i) /\ CondVerifier(Fetched, i.cond)

\* The dispatch: bits 24..23, 20, 7 and 4 separate the instructions of class
\* 0, bits 24..20 those of class 1.
Comparison24_23(i) == i.op \div 8 = 2
IsMiscellaneous(i) == /\ i.cls = 0 /\ Comparison24_23(i) /\ SBit(i) = 0
                      /\ ~(Bit7(i.lo) = 1 /\ Bit4(i.lo) = 1)
IsExtraLoadStore(i) == i.cls = 0 /\ Bit7(i.lo) = 1 /\ Bit4(i.lo) = 1
IsDataProcessingShift(i) == i.cls = 0 /\ ~IsMiscellaneous(i) /\ ~IsExtraLoadStore(i)
IsUndefinedImmediate(i) == i.cls = 1 /\ i.op \in {16, 18, 20, 22}
IsLoadStore(i) == i.cls = 2 \/ (i.cls = 3 /\ Bit4(i.lo) = 0) \/ IsExtraLoadStore(i)
IsMedia(i) == i.cls = 3 /\ Bit4(i.lo) = 1

ExecuteDataProcessing(i) ==
  /\ Execute(i)
  /\ \/ IsDataProcessingShift(i) /\ \E r \in DataProcessingShift(Fetched, i) : Raise(r, 0)
     \/ /\ i.cls = 1 /\ ~IsUndefinedImmediate(i)
        /\ Raise(DataProcessingImmediate(Fetched, i), 0)
  /\ UNCHANGED <<mem, state>>

ExecuteUndefined(i) ==
  /\ Execute(i)
  /\ \/ IsMiscellaneous(i)
     \/ IsUndefinedImmediate(i)
     \/ IsMedia(i)
     \/ i.cls = 6
  /\ Raise(Fetched, UNDEFINED_INSTRUCTION)
  /\ UNCHANGED <<mem, state>>

ExecuteLoadStore(i) ==
  /\ Execute(i) /\ IsLoadStore(i)
  /\ \E o \in LoadStoreSingle(Fetched, mem, i) : Raise(o.reg, o.res) /\ mem' = o.mem
  /\ UNCHANGED state

\* A failed assertion aborts the process, whose state is then gone.
ExecuteLoadStoreMultiple(i) ==
  /\ Execute(i) /\ i.cls = 4
  /\ \E o \in LoadStoreMultiple(Fetched, mem, i) :
       /\ Raise(o.reg, o.res) /\ mem' = o.mem
       /\ state' = IF o.failed THEN "aborted" ELSE state

ExecuteBranch(i) == /\ Execute(i) /\ i.cls = 5
                    /\ Raise(ArmBranch(Fetched, i), 0)
                    /\ UNCHANGED <<mem, state>>

ExecuteCoprocessorSwi(i) ==
  /\ Execute(i) /\ i.cls = 7
  /\ IF IsExit(i) THEN /\ state' = "exited" /\ reg' = Fetched /\ UNCHANGED res
                  ELSE Raise(Fetched, CoprocessorOthersSwi(i)) /\ UNCHANGED state
  /\ UNCHANGED mem

Step == \/ FetchFails
        \/ \E i \in Fetchable :
             \/ ConditionFails(i)
             \/ ExecuteDataProcessing(i)
             \/ ExecuteUndefined(i)
             \/ ExecuteLoadStore(i)
             \/ ExecuteLoadStoreMultiple(i)
             \/ ExecuteBranch(i)
             \/ ExecuteCoprocessorSwi(i)

Spec == Init /\ [][Step]_vars

-----------------------------------------------------------------------------
\* What the steps did: the instruction executed, unless the step failed first.
Executed(class) == res' # RESET /\ ins'.cls \in class
IsImmediate(op) == Executed({1}) /\ ~IsUndefinedImmediate(ins') /\ Opcode(ins') = op

\* The mode and mask bits of the cpsr are out of reach of the program: only
\* a RESET changes them, whatever the flags, and the low byte of a register
\* that a shift mistakes for a register number.
ControlBitsKept ==
  [][ControlBits(reg'[CPSR]) # ControlBits(reg[CPSR]) => res' = RESET]_vars

\* A step that raises leaves what it does not own: RESET keeps r0..r14 and the
\* memory, an undefined instruction or an swi moves nothing but the pc, and a
\* store that fails nothing but the pc and the base, written back already.
RaisesArePrecise ==
  [][/\ res' # 0 /\ res' # -1 /\ state' = "running" =>
          mem' = mem /\ \A n \in 0 .. 14 : reg'[n] = reg[n]
     /\ res' = RESET /\ state' = "running" => reg'[PC] = 0 /\ reg'[CPSR] = ResetCpsr
     /\ res' \in {UNDEFINED_INSTRUCTION, SOFTWARE_INTERRUPT} /\ state' = "running" =>
          reg'[CPSR] = reg[CPSR] /\ reg'[PC] = Plus(FetchAddress, 4)
     /\ res' = -1 /\ state' = "running" =>
          /\ mem' = mem /\ reg'[CPSR] = reg[CPSR]
          /\ \A n \in 0 .. 14 \ {ins'.rn} : reg'[n] = reg[n]]_vars

\* The memory changes only by a store, and only inside the block the store is
\* for: whatever the mode, the writeback and the wrapping of the addresses, no
\* loop of a multiple transfer or of a memory access runs out of it.
StoresOnly ==
  [][\A k \in Position : mem'[k] # mem[k] =>
       /\ LBit(ins') = 0 /\ (IsLoadStore(ins') \/ ins'.cls = 4)
       /\ \E b \in Reach(Fetched, ins') : Minus(k, b.from) < b.size]_vars

\* A register other than the pc changes only when the instruction names it as
\* what it writes: Rd, Rn of a comparison or of an indexed access, a member of
\* the list, or the link register of a branch.
Written(i) ==
  CASE i.cls \in {0, 1} /\ ~IsExtraLoadStore(i) -> {Destination(Opcode(i), i.rn, i.rd)}
    [] IsLoadStore(i) -> {i.rn} \cup (IF LBit(i) = 1 THEN {i.rd} ELSE {})
    [] i.cls = 4 -> {n \in 0 .. 15 : LBit(i) = 1 /\ InList(i, n)}
                      \cup (IF WBit(i) = 1 THEN {i.rn} ELSE {})
    [] i.cls = 5 -> {LinkRegister}
    [] OTHER -> {}
RegisterFrame ==
  [][\A n \in 0 .. 14 : reg'[n] # reg[n] => n \in Written(ins')]_vars

\* The value of a word as a signed number.
Signed(v) == IF Bit(v, N) = 1 THEN v - WordMod ELSE v
SignedRange == -(2^N) .. 2^N - 1

\* ADDS and SUBS of an immediate into another register than Rn: the overflow
\* flag is that of the exact signed result, N its sign as a word, and for ADDS
\* the carry that of the exact unsigned one.
OperandA == ReadRegister(Fetched, ins'.rn)
OperandB == RotatedImmediate(reg, ins'.lo).value
ArithmeticFlagsExact ==
  [][(/\ IsImmediate(ADD) \/ IsImmediate(SUB)
      /\ SBit(ins') = 1 /\ ins'.rd # ins'.rn /\ ins'.rd < 12) =>
       LET add == Opcode(ins') = ADD
           exact == IF add THEN Signed(OperandA) + Signed(OperandB)
                           ELSE Signed(OperandA) - Signed(OperandB)
       IN  ins'.rd # ReadRegister(reg', PC) =>
             /\ Flag(reg', V) = 1 <=> exact \notin SignedRange
             /\ Flag(reg', N) = 1 <=> exact % WordMod \notin SignedRange
             /\ add => (Flag(reg', C) = 1 <=> OperandA + OperandB > Ones)]_vars

\* A backward branch goes to its own address plus 8 minus the offset, and the
\* link register holds the address after the branch.
BranchesReturn ==
  [][Executed({5}) =>
       /\ PBit(ins') = 1 => reg'[LinkRegister] = Plus(FetchAddress, 4)
       /\ Backward(ins') => reg'[PC] = Minus(ReadRegister(Fetched, PC),
                                             4 * (2^24 - Offset24(ins')))]_vars

\* The assertions of arm_load_store_multiple hold exactly when a load lists
\* the pc, and when a store does not.
AssertionsByList ==
  [][Executed({4}) =>
       (state' = "aborted" <=> (LBit(ins') = 1 <=> ~InList(ins', PC)))]_vars

-----------------------------------------------------------------------------
(* What a comment of the repository says, which the code does not do.      *)

\* arm_data_processing.h: flags are set so that subsequent instructions can
\* be conditionally executed. One whose condition fails resets the core.
FailedConditionSkips ==
  [][(InMemory(FetchAddress) /\ ~CondVerifier(Fetched, ins'.cond) /\ steps' # steps)
       => reg' = Fetched]_vars

=============================================================================
