------------------------------ MODULE CpuProofs ------------------------------
(***************************************************************************)
(* Every call of arm_step, for every program and every width of a word:    *)
(* what a call does to the registers and the memory is one of seven        *)
(* effects (Steps), from which the type and the action properties follow.  *)
(***************************************************************************)
EXTENDS Cpu, WordProofs

\* What is fetched is an instruction, with a shift below the width of a word.
LEMMA InstructionsTyped ==
  \A i \in Instructions \cup {ZeroIns} :
    /\ i \in Instruction
    /\ i.cls \in {0, 1} => ShiftImm(i.lo) < W
  <1>1. ZeroIns \in Instruction
    BY DEF ZeroIns, Instruction
  <1>2. ShiftImm(ZeroIns.lo) < W
    BY WidthFacts DEF ZeroIns, ShiftImm
  <1> QED BY <1>1, <1>2, CpuAssumption

\* What arm_create and gdb leave before the first step.
LEMMA InitTyped == Init => TypeOK
  <1> SUFFICES ASSUME Init PROVE TypeOK
    OBVIOUS
  <1>1. reg \in RegisterFile
    <2>1. \A r \in Registers0 : r \in RegisterFile
      BY CpuAssumption
    <2>2. \A r \in Registers0 : ResetRegisters(r) \in RegisterFile
      BY <2>1, ResetTyped
    <2> QED BY <2>1, <2>2 DEF Init
  <1>2. mem \in Contents /\ 0 \in 0 .. MaxSteps
    BY CpuAssumption DEF Init
  <1> QED BY <1>1, <1>2 DEF Init, TypeOK, Result

\* The fetch moves the pc only, to 4 after the address fetched.
LEMMA FetchTyped ==
  ASSUME TypeOK
  PROVE  /\ FetchAddress \in Word
         /\ Fetched \in But(reg, {PC}) /\ Fetched \in RegisterFile
         /\ Fetched[PC] = Plus(FetchAddress, 4)
  <1>1. reg \in RegisterFile
    BY DEF TypeOK
  <1>2. PC \in 0 .. 16 /\ 4 \in Int
    BY DEF PC
  <1>3. ReadRegister(reg, PC) \in Word
    BY <1>1, <1>2, ReadsAreWords
  <1>4. ReadRegister(reg, PC) \in Int
    BY <1>3, WordConstants
  <1>5. FetchAddress \in Word
    BY <1>2, <1>4, PlusMinusWords DEF FetchAddress
  <1>6. FetchAddress \in Int
    BY <1>5, WordConstants
  <1>7. Plus(FetchAddress, 4) \in Word
    BY <1>2, <1>6, PlusMinusWords
  <1>8. Fetched \in But(reg, {PC}) /\ Fetched[PC] = Plus(FetchAddress, 4)
    BY <1>1, <1>2, <1>7, WriteTyped DEF Fetched
  <1> QED BY <1>5, <1>8 DEF But

-----------------------------------------------------------------------------
(* The effects of a call. *)

\* RESET: a failed fetch, or a condition that does not hold.
DidReset == /\ reg' = ResetRegisters(Fetched) /\ res' = RESET
            /\ mem' = mem /\ state' = state

\* Data processing.
DidCompute == /\ ins'.cls \in {0, 1} /\ ~IsExtraLoadStore(ins')
              /\ ins'.cls = 1 => reg' = DataProcessingImmediate(Fetched, ins')
              /\ reg' \in Processed(Fetched, Destination(Opcode(ins'), ins'.rn, ins'.rd))
              /\ res' = 0 /\ mem' = mem /\ state' = state

\* An exception that is not implemented.
DidRaise == /\ ins'.cls \notin {4, 5} /\ (ins'.cls = 1 => IsUndefinedImmediate(ins'))
            /\ reg' = Fetched /\ res' \in {UNDEFINED_INSTRUCTION, SOFTWARE_INTERRUPT}
            /\ mem' = mem /\ state' = state

DidTransfer == /\ IsLoadStore(ins') /\ state' = state
               /\ \E o \in Single(Fetched, mem, ins') :
                    reg' = o.reg /\ res' = o.res /\ mem' = o.mem

DidTransferMany == /\ ins'.cls = 4
                   /\ \E o \in Multiple(Fetched, mem, ins') :
                        /\ reg' = o.reg /\ res' = o.res /\ mem' = o.mem
                        /\ state' = IF o.failed THEN "aborted" ELSE state

DidBranch == /\ ins'.cls = 5 /\ reg' = ArmBranch(Fetched, ins')
             /\ res' = 0 /\ mem' = mem /\ state' = state

DidExit == /\ ins'.cls = 7 /\ reg' = Fetched /\ state' = "exited"
           /\ UNCHANGED <<mem, res>>

Effects == \/ DidReset \/ DidCompute \/ DidRaise \/ DidTransfer
           \/ DidTransferMany \/ DidBranch \/ DidExit

\* A call has one of these effects, of an instruction that can be fetched.
LEMMA Steps ==
  ASSUME TypeOK, Step
  PROVE  /\ state = "running" /\ steps' \in 0 .. MaxSteps
         /\ ins' \in Instructions \cup {ZeroIns} /\ ins' \in Instruction
         /\ Effects
  <1>1. mem \in Contents /\ Fetched \in RegisterFile
    BY FetchTyped DEF TypeOK
  <1>2. Running => state = "running" /\ steps' \in 0 .. MaxSteps
    BY CpuAssumption DEF Running, TypeOK
  <1>3. ASSUME NEW r, NEW result, Raise(r, result)
        PROVE  res' = result /\ reg' = IF result = RESET THEN ResetRegisters(r) ELSE r
    BY <1>3 DEF Raise
  <1>4. RESET = 1 /\ UNDEFINED_INSTRUCTION = 2 /\ SOFTWARE_INTERRUPT = 3
    BY DEF RESET, UNDEFINED_INSTRUCTION, SOFTWARE_INTERRUPT
  <1>5. CASE FetchFails
    <2>1. ins' \in Instructions \cup {ZeroIns} /\ Running
      BY <1>5 DEF FetchFails, TypeOK
    <2>2. DidReset
      BY <1>3, <1>5 DEF FetchFails, DidReset
    <2> QED BY <1>2, <2>1, <2>2, InstructionsTyped DEF Effects
  <1>6. ASSUME NEW i \in Fetchable,
               \/ ConditionFails(i) \/ ExecuteDataProcessing(i) \/ ExecuteUndefined(i)
               \/ ExecuteLoadStore(i) \/ ExecuteLoadStoreMultiple(i)
               \/ ExecuteBranch(i) \/ ExecuteCoprocessorSwi(i)
        PROVE  Running /\ ins' = i /\ Effects
    <2>1. i \in Instruction /\ (i.cls \in {0, 1} => ShiftImm(i.lo) < W)
      BY InstructionsTyped DEF Fetchable
    <2>2. Running /\ ins' = i
      BY <1>6 DEF ConditionFails, ExecuteDataProcessing, ExecuteUndefined, ExecuteLoadStore,
                  ExecuteLoadStoreMultiple, ExecuteBranch, ExecuteCoprocessorSwi, Execute, Fetch
    <2>3. CASE ConditionFails(i)
      BY <1>3, <2>2, <2>3 DEF ConditionFails, DidReset, Effects
    <2>4. CASE ExecuteDataProcessing(i)
      <3>1. i.cls \in {0, 1} /\ ~IsExtraLoadStore(i)
        BY <2>4 DEF ExecuteDataProcessing, IsDataProcessingShift, IsExtraLoadStore
      <3>2. /\ DataProcessingShift(Fetched, i)
                 \subseteq Processed(Fetched, Destination(Opcode(i), i.rn, i.rd))
            /\ DataProcessingImmediate(Fetched, i)
                 \in Processed(Fetched, Destination(Opcode(i), i.rn, i.rd))
        BY <1>1, <2>1, <3>1, DataProcessingTyped
      <3>3. mem' = mem /\ state' = state
        BY <2>4 DEF ExecuteDataProcessing
      <3>4. CASE IsDataProcessingShift(i) /\ \E r \in DataProcessingShift(Fetched, i) : Raise(r, 0)
        <4>1. PICK r \in DataProcessingShift(Fetched, i) : Raise(r, 0)
          BY <3>4
        <4>2. reg' = r /\ res' = 0 /\ i.cls = 0
          BY <1>3, <1>4, <3>4, <4>1 DEF IsDataProcessingShift
        <4> QED BY <2>2, <3>1, <3>2, <3>3, <4>2 DEF DidCompute, Effects
      <3>5. CASE i.cls = 1 /\ Raise(DataProcessingImmediate(Fetched, i), 0)
        <4>1. reg' = DataProcessingImmediate(Fetched, i) /\ res' = 0
          BY <1>3, <1>4, <3>5
        <4> QED BY <2>2, <3>1, <3>2, <3>3, <4>1 DEF DidCompute, Effects
      <3> QED BY <2>4, <3>4, <3>5 DEF ExecuteDataProcessing
    <2>5. CASE ExecuteUndefined(i)
      <3>1. reg' = Fetched /\ res' = UNDEFINED_INSTRUCTION /\ mem' = mem /\ state' = state
        BY <1>3, <1>4, <2>5 DEF ExecuteUndefined
      <3>2. i.cls \notin {4, 5} /\ (i.cls = 1 => IsUndefinedImmediate(i))
        BY <2>5 DEF ExecuteUndefined, IsMiscellaneous, IsUndefinedImmediate, IsMedia
      <3> QED BY <2>2, <3>1, <3>2 DEF DidRaise, Effects
    <2>6. CASE ExecuteLoadStore(i)
      <3>1. PICK o \in LoadStoreSingle(Fetched, mem, i) : Raise(o.reg, o.res) /\ mem' = o.mem
        BY <2>6 DEF ExecuteLoadStore
      <3>2. o \in Single(Fetched, mem, i)
        BY <1>1, <2>1, <2>6, SingleTyped DEF ExecuteLoadStore, IsLoadStore, IsExtraLoadStore
      <3>3. o.res # RESET
        BY <1>4, <3>2 DEF Single, Outcomes
      <3>4. reg' = o.reg /\ res' = o.res
        BY <1>3, <3>1, <3>3
      <3> QED BY <2>2, <2>6, <3>1, <3>2, <3>4 DEF ExecuteLoadStore, DidTransfer, Effects
    <2>7. CASE ExecuteLoadStoreMultiple(i)
      <3>1. PICK o \in LoadStoreMultiple(Fetched, mem, i) :
              /\ Raise(o.reg, o.res) /\ mem' = o.mem
              /\ state' = IF o.failed THEN "aborted" ELSE state
        BY <2>7 DEF ExecuteLoadStoreMultiple
      <3>2. o \in Multiple(Fetched, mem, i)
        BY <1>1, <2>1, MultipleTyped
      <3>3. o.res # RESET
        BY <1>4, <3>2 DEF Multiple
      <3>4. reg' = o.reg /\ res' = o.res
        BY <1>3, <3>1, <3>3
      <3> QED BY <2>2, <2>7, <3>1, <3>2, <3>4
              DEF ExecuteLoadStoreMultiple, DidTransferMany, Effects
    <2>8. CASE ExecuteBranch(i)
      <3>1. reg' = ArmBranch(Fetched, i) /\ res' = 0
        BY <1>3, <1>4, <2>8 DEF ExecuteBranch
      <3> QED BY <2>2, <2>8, <3>1 DEF ExecuteBranch, DidBranch, Effects
    <2>9. CASE ExecuteCoprocessorSwi(i)
      <3>1. CASE IsExit(i)
        BY <2>2, <2>9, <3>1 DEF ExecuteCoprocessorSwi, DidExit, Effects
      <3>2. CASE ~IsExit(i)
        <4>1. Raise(Fetched, CoprocessorOthersSwi(i)) /\ mem' = mem /\ state' = state /\ i.cls = 7
          BY <2>9, <3>2 DEF ExecuteCoprocessorSwi
        <4>2. CoprocessorOthersSwi(i) \in {2, 3}
          BY <1>4 DEF CoprocessorOthersSwi
        <4>3. reg' = Fetched /\ res' \in {UNDEFINED_INSTRUCTION, SOFTWARE_INTERRUPT}
          BY <1>3, <1>4, <4>1, <4>2
        <4> QED BY <2>2, <4>1, <4>3 DEF DidRaise, Effects
      <3> QED BY <3>1, <3>2
    <2> QED BY <1>6, <2>2, <2>3, <2>4, <2>5, <2>6, <2>7, <2>8, <2>9
  <1>7. CASE \E i \in Fetchable :
               \/ ConditionFails(i) \/ ExecuteDataProcessing(i) \/ ExecuteUndefined(i)
               \/ ExecuteLoadStore(i) \/ ExecuteLoadStoreMultiple(i)
               \/ ExecuteBranch(i) \/ ExecuteCoprocessorSwi(i)
    <2>1. PICK i \in Fetchable : Running /\ ins' = i /\ Effects
      BY <1>6, <1>7
    <2> QED BY <1>2, <2>1, InstructionsTyped DEF Fetchable
  <1> QED BY <1>5, <1>7 DEF Step

-----------------------------------------------------------------------------
(* What the effects do to the registers. *)

\* The fields of the instruction of a call that did not fail before it.
LEMMA InsFields ==
  ASSUME ins' \in Instruction
  PROVE  /\ ins'.cls \in 0 .. 7 /\ ins'.rn \in 0 .. 15 /\ ins'.rd \in 0 .. 15
         /\ LBit(ins') \in {0, 1}
         /\ Destination(Opcode(ins'), ins'.rn, ins'.rd) \in 0 .. 15
  BY Fields DEF Destination

\* The registers left are a register file; but for RESET the control bits of
\* the cpsr are kept, and r0..r14 but for those the instruction writes.
LEMMA RegistersLeft ==
  ASSUME TypeOK, ins' \in Instruction, Effects
  PROVE  /\ reg' \in RegisterFile
         /\ ControlBits(reg'[CPSR]) = ControlBits(reg[CPSR]) \/ res' = RESET
         /\ \A n \in 0 .. 14 : n \notin Written(ins') => reg'[n] = reg[n]
  <1> DEFINE i == ins'
             Kept == ControlBits(reg'[CPSR]) = ControlBits(reg[CPSR])
             Framed == \A n \in 0 .. 14 : n \notin Written(i) => reg'[n] = reg[n]
  <1>1. /\ i.cls \in 0 .. 7 /\ i.rn \in 0 .. 15 /\ i.rd \in 0 .. 15 /\ LBit(i) \in {0, 1}
        /\ Destination(Opcode(i), i.rn, i.rd) \in 0 .. 15
    BY InsFields
  <1>2. Fetched \in But(reg, {PC}) /\ Fetched \in RegisterFile
    BY FetchTyped
  <1>3. Fetched[CPSR] = reg[CPSR] /\ \A n \in 0 .. 14 : Fetched[n] = reg[n]
    BY <1>2 DEF But, CPSR, PC
  \* An effect that changes the registers of S only.
  <1>4. ASSUME NEW S, reg' \in But(Fetched, S), S \subseteq 0 .. 15,
               \A n \in S : n = PC \/ n \in Written(i)
        PROVE  reg' \in RegisterFile /\ Kept /\ Framed
    <2>1. reg' \in RegisterFile /\ \A k \in 0 .. 16 : k \notin S => reg'[k] = Fetched[k]
      BY <1>4 DEF But
    <2>2. CPSR \in 0 .. 16 /\ CPSR \notin S
      BY <1>4 DEF CPSR
    <2>3. Kept
      BY <1>3, <2>1, <2>2
    <2>4. Framed
      <3> SUFFICES ASSUME NEW n \in 0 .. 14, n \notin Written(i) PROVE reg'[n] = reg[n]
        OBVIOUS
      <3>1. n \notin S /\ n \in 0 .. 16
        BY <1>4 DEF PC
      <3> QED BY <1>3, <2>1, <3>1
    <2> QED BY <2>1, <2>3, <2>4
  <1>5. ASSUME reg' = Fetched PROVE reg' \in RegisterFile /\ Kept /\ Framed
    BY <1>2, <1>3, <1>5
  <1>6. CASE DidReset
    <2>1. /\ ResetRegisters(Fetched) \in RegisterFile
          /\ \A n \in 0 .. 14 : ResetRegisters(Fetched)[n] = Fetched[n]
      BY <1>2, ResetTyped
    <2> QED BY <1>3, <1>6, <2>1 DEF DidReset
  <1>7. CASE DidCompute
    <2> DEFINE d == Destination(Opcode(i), i.rn, i.rd)
    <2>1. Written(i) = {d}
      <3>1. i.cls \in {0, 1} /\ ~IsExtraLoadStore(i)
        BY <1>7 DEF DidCompute
      <3>2. ~IsLoadStore(i) /\ i.cls # 4 /\ i.cls # 5
        BY <3>1 DEF IsLoadStore
      <3> QED BY <3>1, <3>2 DEF Written
    <2>2. reg' \in Processed(Fetched, d)
      BY <1>7 DEF DidCompute
    <2> HIDE DEF d
    <2>3. /\ reg' \in RegisterFile /\ ControlBits(reg'[CPSR]) = ControlBits(Fetched[CPSR])
          /\ \A k \in 0 .. 15 : k # d => reg'[k] = Fetched[k]
      BY <2>2 DEF Processed
    <2> QED BY <1>3, <2>1, <2>3
  <1>8. CASE DidRaise
    BY <1>5, <1>8 DEF DidRaise
  <1>9. CASE DidTransfer
    <2> DEFINE T == IF LBit(i) = 1 THEN {i.rd} ELSE {}
               S == {i.rn} \cup T
    <2>1. IsLoadStore(i)
      BY <1>9 DEF DidTransfer
    <2>2. Written(i) = S
      <3>1. i.cls # 4 /\ i.cls # 5 /\ ~(i.cls \in {0, 1} /\ ~IsExtraLoadStore(i))
        BY <2>1 DEF IsLoadStore, IsExtraLoadStore
      <3> QED BY <2>1, <3>1 DEF Written
    <2>3. S \subseteq 0 .. 15
      BY <1>1
    <2>4. reg' \in But(Fetched, S)
      BY <1>9 DEF DidTransfer, Single
    <2> HIDE DEF S
    <2> QED BY <1>4, <2>2, <2>3, <2>4
  <1>10. CASE DidTransferMany
    <2> DEFINE T == {n \in 0 .. 15 : LBit(i) = 1 /\ InList(i, n)}
               B == IF WBit(i) = 1 THEN {i.rn} ELSE {}
               S == T \cup B
    <2>1. i.cls = 4
      BY <1>10 DEF DidTransferMany
    <2>2. Written(i) = S
      <3>1. i.cls # 5 /\ ~(i.cls \in {0, 1}) /\ ~IsLoadStore(i)
        BY <2>1 DEF IsLoadStore, IsExtraLoadStore
      <3> QED BY <2>1, <3>1 DEF Written
    <2>3. S \subseteq 0 .. 15
      BY <1>1
    <2>4. reg' \in But(Fetched, S)
      BY <1>10 DEF DidTransferMany, Multiple
    <2> HIDE DEF S
    <2> QED BY <1>4, <2>2, <2>3, <2>4
  <1>11. CASE DidBranch
    <2>1. i.cls = 5 /\ reg' = ArmBranch(Fetched, i)
      BY <1>11 DEF DidBranch
    <2>2. Written(i) = {LinkRegister}
      <3>1. i.cls # 4 /\ ~(i.cls \in {0, 1}) /\ ~IsLoadStore(i)
        BY <2>1 DEF IsLoadStore, IsExtraLoadStore
      <3> QED BY <2>1, <3>1 DEF Written
    <2>3. reg' \in But(Fetched, {LinkRegister, PC})
      BY <1>2, <2>1, BranchTyped
    <2>4. {LinkRegister, PC} \subseteq 0 .. 15
      BY DEF LinkRegister, PC
    <2> QED BY <1>4, <2>2, <2>3, <2>4
  <1>12. CASE DidExit
    BY <1>5, <1>12 DEF DidExit
  <1> QED BY <1>6, <1>7, <1>8, <1>9, <1>10, <1>11, <1>12 DEF Effects

\* The memory left is a memory, the one before but for a store, and as it was
\* outside the blocks the transfer is for.
LEMMA MemoryLeft ==
  ASSUME TypeOK, ins' \in Instruction, Effects
  PROVE  /\ mem' \in Contents
         /\ mem' # mem => LBit(ins') = 0 /\ (IsLoadStore(ins') \/ ins'.cls = 4)
         /\ \A k \in Position : mem'[k] # mem[k] =>
              \E b \in Reach(Fetched, ins') : Minus(k, b.from) < b.size
  <1>1. mem \in Contents
    BY DEF TypeOK
  <1>2. LBit(ins') \in {0, 1}
    BY InsFields
  <1>3. CASE mem' = mem
    BY <1>1, <1>3
  <1>4. CASE DidTransfer
    <2>1. PICK o \in Single(Fetched, mem, ins') : mem' = o.mem
      BY <1>4 DEF DidTransfer
    <2>2. /\ o.mem \in Contents
          /\ LBit(ins') = 1 => o.mem = mem
          /\ \E b \in Reach(Fetched, ins') : o.mem \in Within(mem, b.from, b.size)
      BY DEF Single, Outcomes
    <2>3. IsLoadStore(ins')
      BY <1>4 DEF DidTransfer
    <2>4. \A k \in Position : o.mem[k] # mem[k] =>
            \E b \in Reach(Fetched, ins') : Minus(k, b.from) < b.size
      BY <2>2 DEF Within
    <2> QED BY <1>2, <2>1, <2>2, <2>3, <2>4
  <1>5. CASE DidTransferMany
    <2> DEFINE block == [from |-> Bounds(Fetched, ins').start, size |-> Span(ins')]
    <2>1. PICK o \in Multiple(Fetched, mem, ins') : mem' = o.mem
      BY <1>5 DEF DidTransferMany
    <2>2. /\ o.mem \in Contents
          /\ LBit(ins') = 1 => o.mem = mem
          /\ o.mem \in Within(mem, block.from, block.size)
      BY DEF Multiple, Outcomes
    <2>3. ins'.cls = 4
      BY <1>5 DEF DidTransferMany
    <2>4. block \in Reach(Fetched, ins')
      BY <2>3 DEF Reach
    <2> HIDE DEF block
    <2>5. \A k \in Position : o.mem[k] # mem[k] =>
            \E b \in Reach(Fetched, ins') : Minus(k, b.from) < b.size
      BY <2>2, <2>4 DEF Within
    <2> QED BY <1>2, <2>1, <2>2, <2>3, <2>5
  <1>6. Effects => mem' = mem \/ DidTransfer \/ DidTransferMany
    BY DEF Effects, DidReset, DidCompute, DidRaise, DidBranch, DidExit
  <1> QED BY <1>3, <1>4, <1>5, <1>6

\* The result and the state of the process after a call.
LEMMA ResultLeft ==
  ASSUME TypeOK, Effects
  PROVE  /\ res' \in Result
         /\ state' \in {state, "aborted", "exited"}
  <1>1. res \in Result
    BY DEF TypeOK
  <1>2. CASE DidTransfer
    BY <1>2 DEF DidTransfer, Single, Outcomes, Result
  <1>3. CASE DidTransferMany
    BY <1>3 DEF DidTransferMany, Multiple, Result
  <1>4. CASE DidReset \/ DidCompute \/ DidRaise \/ DidBranch \/ DidExit
    BY <1>1, <1>4 DEF DidReset, DidCompute, DidRaise, DidBranch, DidExit, Result
  <1> QED BY <1>2, <1>3, <1>4 DEF Effects

-----------------------------------------------------------------------------
(* The properties. *)

\* Whatever the program, arm_step keeps words in the registers and bytes in
\* the memory, and returns one of its results.
THEOREM TypeCorrect == Spec => []TypeOK
  <1>1. TypeOK /\ Step => TypeOK'
    <2> SUFFICES ASSUME TypeOK, Step PROVE TypeOK'
      OBVIOUS
    <2>1. /\ state = "running" /\ steps' \in 0 .. MaxSteps
          /\ ins' \in Instructions \cup {ZeroIns} /\ ins' \in Instruction /\ Effects
      BY Steps
    <2>2. reg' \in RegisterFile /\ mem' \in Contents
      BY <2>1, RegistersLeft, MemoryLeft
    <2>3. res' \in Result /\ state' \in {"running", "aborted", "exited"}
      BY <2>1, ResultLeft
    <2> QED BY <2>1, <2>2, <2>3 DEF TypeOK
  <1>2. TypeOK /\ [Step]_vars => TypeOK'
    BY <1>1 DEF TypeOK, vars
  <1> QED BY InitTyped, <1>2, PTL DEF Spec

\* No program changes the mode and mask bits of the cpsr: only RESET does.
THEOREM ControlBitsUntouched == Spec => ControlBitsKept
  <1>1. TypeOK /\ [Step]_vars =>
          [ControlBits(reg'[CPSR]) # ControlBits(reg[CPSR]) => res' = RESET]_vars
    BY Steps, RegistersLeft DEF vars
  <1> QED BY TypeCorrect, <1>1, PTL DEF Spec, ControlBitsKept

\* Registers r0..r14 change only when the instruction names them.
THEOREM RegistersFramed == Spec => RegisterFrame
  <1>1. TypeOK /\ [Step]_vars =>
          [\A n \in 0 .. 14 : reg'[n] # reg[n] => n \in Written(ins')]_vars
    BY Steps, RegistersLeft DEF vars
  <1> QED BY TypeCorrect, <1>1, PTL DEF Spec, RegisterFrame

\* The memory changes only by a store, and only inside the unit or the words
\* of the list it is for, whatever the mode, the list and the wrapping of the
\* addresses.
THEOREM OnlyStoresWrite == Spec => StoresOnly
  <1>1. TypeOK /\ [Step]_vars =>
          [\A k \in Position : mem'[k] # mem[k] =>
             /\ LBit(ins') = 0 /\ (IsLoadStore(ins') \/ ins'.cls = 4)
             /\ \E b \in Reach(Fetched, ins') : Minus(k, b.from) < b.size]_vars
    BY Steps, MemoryLeft DEF vars
  <1> QED BY TypeCorrect, <1>1, PTL DEF Spec, StoresOnly

\* RESET keeps r0..r14 and the memory; an undefined instruction and an swi
\* move nothing but the pc, to the next instruction.
THEOREM Precise == Spec => RaisesArePrecise
  <1>1. TypeOK /\ [Step]_vars =>
          [/\ res' # 0 /\ res' # -1 /\ state' = "running" =>
                mem' = mem /\ \A n \in 0 .. 14 : reg'[n] = reg[n]
           /\ res' = RESET /\ state' = "running" => reg'[PC] = 0 /\ reg'[CPSR] = ResetCpsr
           /\ res' \in {UNDEFINED_INSTRUCTION, SOFTWARE_INTERRUPT} /\ state' = "running" =>
                reg'[CPSR] = reg[CPSR] /\ reg'[PC] = Plus(FetchAddress, 4)
           /\ res' = -1 /\ state' = "running" =>
                /\ mem' = mem /\ reg'[CPSR] = reg[CPSR]
                /\ \A n \in 0 .. 14 \ {ins'.rn} : reg'[n] = reg[n]]_vars
    <2> SUFFICES ASSUME TypeOK, Step
                 PROVE  /\ res' # 0 /\ res' # -1 /\ state' = "running" =>
                             mem' = mem /\ \A n \in 0 .. 14 : reg'[n] = reg[n]
                        /\ res' = RESET /\ state' = "running" =>
                             reg'[PC] = 0 /\ reg'[CPSR] = ResetCpsr
                        /\ res' \in {UNDEFINED_INSTRUCTION, SOFTWARE_INTERRUPT}
                              /\ state' = "running" =>
                             reg'[CPSR] = reg[CPSR] /\ reg'[PC] = Plus(FetchAddress, 4)
                        /\ res' = -1 /\ state' = "running" =>
                             /\ mem' = mem /\ reg'[CPSR] = reg[CPSR]
                             /\ \A n \in 0 .. 14 \ {ins'.rn} : reg'[n] = reg[n]
      BY DEF vars
    <2>1. Effects /\ ins' \in Instruction
      BY Steps
    <2>2. RESET = 1 /\ UNDEFINED_INSTRUCTION = 2 /\ SOFTWARE_INTERRUPT = 3
      BY DEF RESET, UNDEFINED_INSTRUCTION, SOFTWARE_INTERRUPT
    <2>3. /\ Fetched \in RegisterFile /\ Fetched[PC] = Plus(FetchAddress, 4)
          /\ Fetched[CPSR] = reg[CPSR] /\ \A n \in 0 .. 14 : Fetched[n] = reg[n]
      BY FetchTyped DEF But, PC, CPSR
    <2>4. CASE DidReset
      <3>1. /\ ResetRegisters(Fetched)[PC] = 0 /\ ResetRegisters(Fetched)[CPSR] = ResetCpsr
            /\ \A n \in 0 .. 14 : ResetRegisters(Fetched)[n] = Fetched[n]
        BY <2>3, ResetTyped
      <3> QED BY <2>2, <2>3, <2>4, <3>1 DEF DidReset
    <2>5. CASE DidRaise
      BY <2>2, <2>3, <2>5 DEF DidRaise
    <2>6. CASE DidExit
      BY <2>6 DEF DidExit
    <2>7. CASE DidCompute \/ DidBranch
      BY <2>2, <2>7 DEF DidCompute, DidBranch
    <2>8. CASE DidTransfer
      <3>1. PICK o \in Single(Fetched, mem, ins') : reg' = o.reg /\ res' = o.res /\ mem' = o.mem
        BY <2>8 DEF DidTransfer
      <3>2. res' \in {-1, 0} /\ (res' = -1 => LBit(ins') # 1 /\ mem' = mem)
        BY <3>1 DEF Single, Outcomes
      <3>3. ASSUME res' = -1, NEW n \in 0 .. 16, n # ins'.rn PROVE reg'[n] = Fetched[n]
        BY <3>1, <3>2, <3>3 DEF Single, But
      <3>4. ins'.rn # CPSR /\ CPSR \in 0 .. 16
        BY <2>1, InsFields DEF CPSR
      <3> QED BY <2>2, <2>3, <3>2, <3>3, <3>4
    <2>9. CASE DidTransferMany
      BY <2>2, <2>9 DEF DidTransferMany, Multiple
    <2> QED BY <2>1, <2>4, <2>5, <2>6, <2>7, <2>8, <2>9 DEF Effects
  <1> QED BY TypeCorrect, <1>1, PTL DEF Spec, RaisesArePrecise

\* A backward branch goes where it should, for any width of a word up to 32,
\* and the link register holds the address after the branch.
THEOREM Branches == Spec => BranchesReturn
  <1>1. TypeOK /\ [Step]_vars =>
          [Executed({5}) =>
             /\ PBit(ins') = 1 => reg'[LinkRegister] = Plus(FetchAddress, 4)
             /\ Backward(ins') => reg'[PC] = Minus(ReadRegister(Fetched, PC),
                                                   4 * (2^24 - Offset24(ins')))]_vars
    <2> SUFFICES ASSUME TypeOK, Step, Executed({5})
                 PROVE  /\ PBit(ins') = 1 => reg'[LinkRegister] = Plus(FetchAddress, 4)
                        /\ Backward(ins') =>
                             reg'[PC] = Minus(ReadRegister(Fetched, PC),
                                              4 * (2^24 - Offset24(ins')))
      BY DEF vars
    <2>1. Effects /\ ins' \in Instruction
      BY Steps
    <2>2. res' # RESET /\ ins'.cls = 5
      BY DEF Executed
    <2>3. reg' = ArmBranch(Fetched, ins')
      BY <2>1, <2>2 DEF Effects, DidReset, DidCompute, DidRaise, DidTransfer, DidTransferMany,
                        DidBranch, DidExit, IsLoadStore, IsExtraLoadStore
    <2>4. /\ Fetched \in RegisterFile /\ reg \in RegisterFile
          /\ Fetched[PC] = Plus(FetchAddress, 4)
      BY FetchTyped DEF TypeOK
    <2>5. /\ PBit(ins') = 1 => reg'[LinkRegister] = Minus(ReadRegister(Fetched, PC), 4)
          /\ reg'[PC] = BranchTarget(ReadRegister(Fetched, PC), ins')
      BY <2>1, <2>3, <2>4, BranchTyped
    <2>6. Minus(ReadRegister(Fetched, PC), 4) = Plus(FetchAddress, 4)
      <3>1. Fetched[PC] = Plus(Minus(ReadRegister(reg, PC), 4), 4)
        BY <2>4 DEF FetchAddress
      <3> QED BY <2>4, <3>1, NextPc
    <2>7. ReadRegister(Fetched, PC) \in Word
      <3>1. PC \in 0 .. 16
        BY DEF PC
      <3> QED BY <2>4, <3>1, ReadsAreWords
    <2>8. Backward(ins') => BranchTarget(ReadRegister(Fetched, PC), ins')
                              = Minus(ReadRegister(Fetched, PC), 4 * (2^24 - Offset24(ins')))
      BY <2>1, <2>7, BackwardTarget
    <2> QED BY <2>5, <2>6, <2>8
  <1> QED BY TypeCorrect, <1>1, PTL DEF Spec, BranchesReturn

\* An assertion of a multiple transfer stops the process exactly when a load
\* does not list the pc, or a store does: for any list, base and mode.
THEOREM Assertions == Spec => AssertionsByList
  <1>1. TypeOK /\ [Step]_vars =>
          [Executed({4}) =>
             (state' = "aborted" <=> (LBit(ins') = 1 <=> ~InList(ins', PC)))]_vars
    <2> SUFFICES ASSUME TypeOK, Step, Executed({4})
                 PROVE  state' = "aborted" <=> (LBit(ins') = 1 <=> ~InList(ins', PC))
      BY DEF vars
    <2>1. Effects /\ ins' \in Instruction /\ state = "running"
      BY Steps
    <2>2. res' # RESET /\ ins'.cls = 4
      BY DEF Executed
    <2>3. DidTransferMany
      BY <2>1, <2>2 DEF Effects, DidReset, DidCompute, DidRaise, DidTransfer, DidBranch,
                        DidExit, IsLoadStore, IsExtraLoadStore
    <2>4. PICK o \in Multiple(Fetched, mem, ins') :
                  state' = IF o.failed THEN "aborted" ELSE state
      BY <2>3 DEF DidTransferMany
    <2>5. o.failed <=> (LBit(ins') = 1 <=> ~InList(ins', PC))
      BY DEF Multiple
    <2> QED BY <2>1, <2>4, <2>5
  <1> QED BY TypeCorrect, <1>1, PTL DEF Spec, AssertionsByList

-----------------------------------------------------------------------------
(* The flags of additions and subtractions of an immediate. *)

\* With S, and a destination d that is neither Rn nor the pc, the flags are
\* those of the exact results; unless d is the value of the pc.
LEMMA FlagsOfSums ==
  ASSUME NEW r \in RegisterFile, NEW op \in {ADD, SUB}, NEW n \in 0 .. 15, NEW d \in 0 .. 11,
         n # d, NEW operand \in Shifts,
         d # ReadRegister(Process(r, op, 1, n, d, operand), PC)
  PROVE  LET q == Process(r, op, 1, n, d, operand)
             a == ReadRegister(r, n)
             b == operand.value
             exact == IF op = ADD THEN Signed(a) + Signed(b) ELSE Signed(a) - Signed(b)
         IN  /\ Flag(q, V) = 1 <=> exact \notin SignedRange
             /\ Flag(q, N) = 1 <=> exact % WordMod \notin SignedRange
             /\ op = ADD => (Flag(q, C) = 1 <=> a + b > Ones)
  <1> DEFINE q == Process(r, op, 1, n, d, operand)
             c == Flag(r, C)
             a == ReadRegister(r, n)
             b == operand.value
             result == Alu(op, a, b, c)
             written == WriteRegister(r, d, result)
             h == 2^N
             fn == Bit(result, N)
             fz == ZeroFlag(op, d, result)
             fc == CarryFlag(op, a, b, c, operand.carry)
             fv == OverflowFlag(op, a, b, c, result, Flag(r, V))
             u == UpdateFlags(written, fn, fz, fc, fv)
             s(x) == IF x >= h THEN x - WordMod ELSE x
             exact == IF op = ADD THEN Signed(a) + Signed(b) ELSE Signed(a) - Signed(b)
  <1>1. op \in Operation /\ op \notin Tests /\ op \notin Comparisons
    BY DEF Operation, AND, MVN, ADD, SUB, Tests, Comparisons, TST, TEQ, CMP, CMN
  <1>2. /\ c \in {0, 1} /\ Flag(r, V) \in {0, 1} /\ a \in Word /\ b \in Word
        /\ operand.carry \in {0, 1}
    <2>1. n \in 0 .. 16
      OBVIOUS
    <2> QED BY <2>1, ReadsAreWords, WidthFacts DEF Shifts
  <1>3. result \in Word /\ result = IF op = ADD THEN Plus(a, b) ELSE Minus(a, b)
    <2> HIDE DEF a, b, c
    <2>1. Alu(op, a, b, c) \in Word
      BY <1>1, <1>2, AluIsWord
    <2>2. Alu(op, a, b, c) = IF op = ADD THEN Plus(a, b) ELSE Minus(a, b)
      BY DEF Alu, AND, EOR, SUB, RSB, ADD, ADC, SBC, RSC, TST, TEQ, CMP, CMN, ORR, MOV, BIC,
             MVN, ReverseSubtracts
    <2> QED BY <2>1, <2>2
  <1> HIDE DEF result
  <1>4. written \in But(r, {d}) /\ written \in RegisterFile
    <2>1. d \in 0 .. 16
      OBVIOUS
    <2> QED BY <1>3, <2>1, WriteTyped DEF But
  <1> HIDE DEF written
  \* Rn is not the destination: read again, it is as it was.
  <1>5. ReadRegister(written, n) = a
    <2>1. PC \in 0 .. 16 /\ PC # d /\ n \in 0 .. 16
      BY DEF PC
    <2>2. written[n] = r[n] /\ written[PC] = r[PC]
      BY <1>4, <2>1 DEF But
    <2> QED BY <2>2 DEF ReadRegister
  <1>6. /\ fn \in {0, 1} /\ fz \in {0, 1} /\ fc \in {0, 1} /\ fv \in {0, 1}
    <2> HIDE DEF a, b, c
    <2>1. fn \in {0, 1}
      BY <1>3, BitIsBit, WordConstants, WidthFacts
    <2>2. d \in 0 .. 15
      OBVIOUS
    <2> QED BY <1>1, <1>2, <1>3, <2>1, <2>2, FlagsAreBits
  <1>7. q = IF d # ReadRegister(written, PC) THEN u ELSE written
    <2>1. Destination(op, n, d) = d
      BY <1>1 DEF Destination
    <2>2. SetsFlags(op, 1, d, written) <=> d # ReadRegister(written, PC)
      BY <1>1 DEF SetsFlags
    <2> QED BY <1>5, <2>1, <2>2 DEF Process, written, result
  <1> HIDE DEF fn, fz, fc, fv
  <1>8. /\ u[PC] = written[PC]
        /\ Flag(u, N) = fn /\ Flag(u, C) = fc /\ Flag(u, V) = fv
    <2>1. PC \in 0 .. 15
      BY DEF PC
    <2> QED BY <1>4, <1>6, <2>1, UpdateFlagsTyped
  <1> HIDE DEF u
  <1>9. q = u
    <2>1. ReadRegister(u, PC) = ReadRegister(written, PC)
      BY <1>8 DEF ReadRegister
    <2>2. d # ReadRegister(q, PC)
      OBVIOUS
    <2> HIDE DEF q
    <2> QED BY <1>7, <2>1, <2>2
  <1> HIDE DEF q, a, b, c
  <1>10. h \in Nat /\ h > 0 /\ WordMod = 2 * h /\ N \in Nat
    <2>1. 2^N = 8 * 2^V /\ WordMod = 16 * 2^V /\ 2^V \in Nat /\ 2^V > 0
      BY FlagWeights
    <2> DEFINE p == 2^V
    <2>2. h = 8 * p /\ WordMod = 16 * p /\ p \in Nat /\ p > 0
      BY <2>1
    <2> HIDE DEF p, h
    <2> QED BY <2>2, WidthFacts
  <1>11. SignedRange = -h .. h - 1
    BY DEF SignedRange
  <1>12. Signed(a) = s(a) /\ Signed(b) = s(b)
    <2>1. /\ Bit(a, N) = IF a >= h THEN 1 ELSE 0
          /\ Bit(b, N) = IF b >= h THEN 1 ELSE 0
      BY <1>2, SignBit
    <2> HIDE DEF h
    <2> QED BY <2>1 DEF Signed
  <1>13. /\ OverflowFrom(a, b, Plus(a, b), TRUE) = 1 <=> s(a) + s(b) \notin -h .. h - 1
         /\ OverflowFrom(a, b, Minus(a, b), FALSE) = 1 <=> s(a) - s(b) \notin -h .. h - 1
    <2>1. h = 2^N
      OBVIOUS
    <2> HIDE DEF h
    <2> QED BY <1>2, <1>10, <2>1, OverflowExact
  <1>14. fv = IF op = ADD THEN OverflowFrom(a, b, Plus(a, b), TRUE)
              ELSE OverflowFrom(a, b, Minus(a, b), FALSE)
    <2> DEFINE added == OverflowFrom(a, b, result, TRUE)
               subtracted == OverflowFrom(a, b, result, FALSE)
    <2>1. fv = IF op = ADD THEN added ELSE subtracted
      <3> HIDE DEF added, subtracted
      <3>1. op = ADD => fv = added
        BY DEF fv, OverflowFlag, added, ADD, CMN, ADC, SUB, CMP, SBC, ReverseSubtracts, RSB, RSC
      <3>2. op = SUB => fv = subtracted
        BY DEF fv, OverflowFlag, subtracted, ADD, CMN, ADC, SUB, CMP, SBC, ReverseSubtracts,
               RSB, RSC
      <3> QED BY <3>1, <3>2 DEF ADD, SUB
    <2> QED BY <1>3, <2>1
  <1>15. fn = IF result >= h THEN 1 ELSE 0
    BY <1>3, SignBit DEF fn
  <1>16. op = ADD => fc = CarryFrom(a + b)
    BY DEF fc, CarryFlag, ADD, CMN, ADC, Subtractions, SUB, SBC, CMP, ReverseSubtracts, RSB, RSC
  <1>17. exact % WordMod = result
    <2> DEFINE x == IF op = ADD THEN a + b ELSE a - b
               ka == IF a >= h THEN -1 ELSE 0
               kb == IF b >= h THEN -1 ELSE 0
               k == IF op = ADD THEN ka + kb ELSE ka - kb
    <2>1. a \in Int /\ b \in Int
      BY <1>2, WordConstants
    <2>2. x \in Int /\ k \in Int /\ exact \in Int /\ exact = x + WordMod * k
      <3>1. s(a) = a + WordMod * ka /\ s(b) = b + WordMod * kb
        BY <1>10, <2>1
      <3>2. ka \in {-1, 0} /\ kb \in {-1, 0}
        OBVIOUS
      <3> HIDE DEF h, ka, kb
      <3>3. exact = IF op = ADD THEN (a + WordMod * ka) + (b + WordMod * kb)
                                ELSE (a + WordMod * ka) - (b + WordMod * kb)
        BY <1>12, <3>1
      <3> HIDE DEF exact
      <3>4. WordMod \in Int
        BY WordFacts
      <3> QED BY <2>1, <3>2, <3>3, <3>4
    <2>3. result = x % WordMod
      BY <1>3 DEF Plus, Minus
    <2> HIDE DEF x, k, exact
    <2> QED BY <2>2, <2>3, WordSame
  <1>18. result \notin -h .. h - 1 <=> result >= h
    <2>1. result \in 0 .. WordMod - 1
      BY <1>3, WordFacts
    <2> HIDE DEF h
    <2> QED BY <1>10, <2>1
  <1>19. CarryFrom(a + b) = 1 <=> a + b > Ones
    <2>1. a + b \in Int /\ WordMod \in Int
      BY <1>2, WordConstants, WordFacts
    <2> QED BY <2>1 DEF CarryFrom, Ones
  <1>20. /\ Flag(q, V) = 1 <=> exact \notin SignedRange
         /\ Flag(q, N) = 1 <=> exact % WordMod \notin SignedRange
         /\ op = ADD => (Flag(q, C) = 1 <=> a + b > Ones)
    <2>1. fv = 1 <=> exact \notin -h .. h - 1
      BY <1>12, <1>13, <1>14
    <2> HIDE DEF exact, h
    <2> QED BY <1>8, <1>9, <1>11, <1>15, <1>16, <1>17, <1>18, <1>19, <2>1
  <1> QED BY <1>20 DEF q, a, b, exact

\* ADDS and SUBS of an immediate set the flags of the exact results, for any
\* width of a word and all operands.
THEOREM Arithmetic == Spec => ArithmeticFlagsExact
  <1>1. TypeOK /\ [Step]_vars =>
          [(/\ IsImmediate(ADD) \/ IsImmediate(SUB)
            /\ SBit(ins') = 1 /\ ins'.rd # ins'.rn /\ ins'.rd < 12) =>
             LET add == Opcode(ins') = ADD
                 exact == IF add THEN Signed(OperandA) + Signed(OperandB)
                                 ELSE Signed(OperandA) - Signed(OperandB)
             IN  ins'.rd # ReadRegister(reg', PC) =>
                   /\ Flag(reg', V) = 1 <=> exact \notin SignedRange
                   /\ Flag(reg', N) = 1 <=> exact % WordMod \notin SignedRange
                   /\ add => (Flag(reg', C) = 1 <=> OperandA + OperandB > Ones)]_vars
    <2> DEFINE i == ins'
               op == Opcode(i)
               n == i.rn
               d == i.rd
               operand == RotatedImmediate(Fetched, i.lo)
               q == Process(Fetched, op, 1, n, d, operand)
               a == ReadRegister(Fetched, n)
               b == operand.value
               exact == IF op = ADD THEN Signed(a) + Signed(b) ELSE Signed(a) - Signed(b)
    <2> SUFFICES ASSUME TypeOK, Step, IsImmediate(ADD) \/ IsImmediate(SUB),
                        SBit(i) = 1, d # n, d < 12, d # ReadRegister(reg', PC)
                 PROVE  /\ OperandA = a /\ OperandB = b
                        /\ Flag(reg', V) = 1 <=> exact \notin SignedRange
                        /\ Flag(reg', N) = 1 <=> exact % WordMod \notin SignedRange
                        /\ op = ADD => (Flag(reg', C) = 1 <=> a + b > Ones)
      BY DEF vars
    <2>1. Effects /\ i \in Instruction /\ i \in Instructions \cup {ZeroIns}
      BY Steps
    <2>2. /\ res' # RESET /\ i.cls = 1 /\ ~IsUndefinedImmediate(i) /\ op \in {ADD, SUB}
      BY DEF IsImmediate, Executed
    <2>3. reg' = DataProcessingImmediate(Fetched, i)
      BY <2>1, <2>2 DEF Effects, DidReset, DidCompute, DidRaise, DidTransfer, DidTransferMany,
                        DidBranch, DidExit, IsLoadStore, IsExtraLoadStore
    <2>4. reg' = q
      BY <2>3 DEF DataProcessingImmediate
    <2>5. Fetched \in RegisterFile
      BY FetchTyped
    <2>6. n \in 0 .. 15 /\ d \in 0 .. 11
      <3>1. n \in 0 .. 15 /\ d \in 0 .. 15
        BY <2>1, Fields
      <3> HIDE DEF n, d
      <3> QED BY <3>1
    <2>7. operand \in Shifts
      <3>1. i.lo \in Nat /\ ShiftImm(i.lo) < W
        BY <2>1, <2>2, Fields, InstructionsTyped
      <3> QED BY <2>5, <3>1, RotatedTyped
    <2>8. OperandA = a /\ OperandB = b
      BY DEF OperandA, OperandB, RotatedImmediate, Shifted
    <2>9. d # ReadRegister(q, PC)
      BY <2>4
    <2> HIDE DEF op, n, d, operand
    <2>10. /\ Flag(q, V) = 1 <=> exact \notin SignedRange
           /\ Flag(q, N) = 1 <=> exact % WordMod \notin SignedRange
           /\ op = ADD => (Flag(q, C) = 1 <=> a + b > Ones)
      BY <2>2, <2>5, <2>6, <2>7, <2>9, FlagsOfSums
    <2> QED BY <2>4, <2>8, <2>10
  <1> QED BY TypeCorrect, <1>1, PTL DEF Spec, ArithmeticFlagsExact
=============================================================================
