---------------------------- MODULE MemoryProofs ----------------------------
(***************************************************************************)
(* For every size, base and set of accesses: the contents stay bytes, and  *)
(* an access changes only the bytes it names.                              *)
(***************************************************************************)
EXTENDS Memory, MemoryOpsProofs, TLAPS

\* A step that writes n bytes at a with WriteBytes, or one byte, is typed and
\* changes no other byte.
LEMMA WriteStep ==
  ASSUME TypeOK, NEW a \in Nat, NEW v \in Int, NEW op \in Writes,
         NEW written \in Contents, Write(op, a, v, written),
         InMemory(a) => \A i \in Position :
           written[i] # data[i] => a <= i /\ i < a + Width[op]
  PROVE  /\ TypeOK'
         /\ \A i \in Position : data'[i] # data[i] =>
              /\ last'.op \in Writes /\ last'.ret = Success
              /\ last'.addr <= i /\ i < last'.addr + Width[last'.op]
  BY DEF TypeOK, Write, Access, Writes, Width, Success, Failure

\* A read leaves the memory as it is, and records what it returned.
LEMMA ReadStep ==
  ASSUME TypeOK, NEW a \in Nat, NEW v \in Int, NEW op \in DOMAIN Width \ Writes,
         Read(op, a, v)
  PROVE  TypeOK' /\ data' = data
  BY DEF TypeOK, Read, Access, Writes, Width, Success, Failure

\* Every access keeps the types and changes only the bytes it names.
LEMMA NextStep ==
  ASSUME TypeOK, Next
  PROVE  /\ TypeOK'
         /\ \A i \in Position : data'[i] # data[i] =>
              /\ last'.op \in Writes /\ last'.ret = Success
              /\ last'.addr <= i /\ i < last'.addr + Width[last'.op]
  <1>1. PICK a \in Address :
          \/ MemReadByte(a) \/ MemReadHalf(a) \/ MemReadWord(a)
          \/ \E v \in Byte : MemWriteByte(a, v)
          \/ \E v \in StoredHalf : MemWriteHalf(a, v)
          \/ \E v \in StoredWord : MemWriteWord(a, v)
    BY DEF Next
  <1>2. a \in Nat /\ StoredHalf \subseteq Int /\ StoredWord \subseteq Int
    BY AccessAssumption, ValuesAreIntegers
  <1>3. data \in Contents /\ be \in BOOLEAN
    BY DEF TypeOK
  <1>4. CASE MemReadByte(a)
    <2>1. (IF InMemory(a) THEN data[a] ELSE 0) \in Int
      <3>1. InMemory(a) => a \in Position
        BY <1>2, MemoryAssumption DEF InMemory, Position
      <3>2. a \in Position => data[a] \in Byte
        BY <1>3 DEF Contents
      <3> QED
        BY <3>1, <3>2, MemoryAssumption DEF Byte
    <2> QED
      BY <1>2, <1>4, <2>1, ReadStep DEF MemReadByte, Width, Writes
  <1>5. CASE MemReadHalf(a)
    BY <1>2, <1>3, <1>5, ReadStep, ReadsAreIntegers DEF MemReadHalf, Width, Writes
  <1>6. CASE MemReadWord(a)
    BY <1>2, <1>3, <1>6, ReadStep, ReadsAreIntegers DEF MemReadWord, Width, Writes
  <1>7. ASSUME NEW v \in Byte, MemWriteByte(a, v)
        PROVE  /\ TypeOK'
               /\ \A i \in Position : data'[i] # data[i] =>
                    /\ last'.op \in Writes /\ last'.ret = Success
                    /\ last'.addr <= i /\ i < last'.addr + Width[last'.op]
    <2>1. WriteByte(data, a, v) \in Contents
      BY <1>3, <1>7 DEF WriteByte, Contents
    <2>2. \A i \in Position : WriteByte(data, a, v)[i] # data[i] => a <= i /\ i < a + 1
      BY <1>2, <1>3 DEF WriteByte, Contents, Position
    <2> QED
      BY <1>2, <1>7, <2>1, <2>2, WriteStep, ValuesAreIntegers DEF MemWriteByte, Width, Writes
  <1>8. ASSUME NEW v \in StoredHalf, MemWriteHalf(a, v)
        PROVE  /\ TypeOK'
               /\ \A i \in Position : data'[i] # data[i] =>
                    /\ last'.op \in Writes /\ last'.ret = Success
                    /\ last'.addr <= i /\ i < last'.addr + Width[last'.op]
    <2>1. /\ WriteHalf(data, be, a, v) \in Contents
          /\ \A i \in Position : WriteHalf(data, be, a, v)[i] # data[i] => a <= i /\ i < 2
      BY <1>2, <1>3, WriteBytesKeeps DEF WriteHalf
    <2>2. \A i \in Position : i < 2 => i < a + 2
      BY <1>2 DEF Position
    <2> QED
      BY <1>2, <1>8, <2>1, <2>2, WriteStep DEF MemWriteHalf, Width, Writes
  <1>9. ASSUME NEW v \in StoredWord, MemWriteWord(a, v)
        PROVE  /\ TypeOK'
               /\ \A i \in Position : data'[i] # data[i] =>
                    /\ last'.op \in Writes /\ last'.ret = Success
                    /\ last'.addr <= i /\ i < last'.addr + Width[last'.op]
    <2>1. /\ WriteWord(data, be, a, v) \in Contents
          /\ \A i \in Position : WriteWord(data, be, a, v)[i] # data[i] => a <= i /\ i < 4
      BY <1>2, <1>3, WriteBytesKeeps DEF WriteWord
    <2>2. \A i \in Position : i < 4 => i < a + 4
      BY <1>2 DEF Position
    <2> QED
      BY <1>2, <1>9, <2>1, <2>2, WriteStep DEF MemWriteWord, Width, Writes
  <1> QED
    BY <1>1, <1>4, <1>5, <1>6, <1>7, <1>8, <1>9

\* A memory as memory_create leaves it is typed.
LEMMA InitTyped == Init => TypeOK
  <1> SUFFICES ASSUME Init PROVE TypeOK
    OBVIOUS
  <1>1. data \in Contents /\ be \in BOOLEAN /\ last = Access("read_byte", 0, data[0], Success)
    BY DEF Init
  <1>2. data[0] \in Byte
    BY <1>1, MemoryAssumption DEF Contents, Position
  <1>3. data[0] \in Int
    BY <1>2, MemoryAssumption DEF Byte
  <1> QED
    BY <1>1, <1>3 DEF TypeOK, Access, Width, Success, Failure

\* memory.c keeps bytes in its memory and a result of 0 or -1, whatever the
\* accesses made to it.
THEOREM TypeCorrect == Spec => []TypeOK
  <1>1. TypeOK /\ [Next]_vars => TypeOK'
    BY NextStep DEF TypeOK, vars
  <1> QED
    BY InitTyped, <1>1, PTL DEF Spec

\* An access changes only bytes it was asked to write: a read, or a call that
\* returns -1, none.
THEOREM AccessesFrame == Spec => AccessFrame
  <1>1. TypeOK /\ [Next]_vars =>
          [\A i \in Position : data'[i] # data[i] =>
             /\ last'.op \in Writes /\ last'.ret = Success
             /\ last'.addr <= i /\ i < last'.addr + Width[last'.op]]_vars
    BY NextStep DEF vars
  <1> QED
    BY TypeCorrect, <1>1, PTL DEF Spec, AccessFrame

-----------------------------------------------------------------------------
(* The values read and written. *)

\* A word or a half read at 0 is the number its bytes are the digits of.
THEOREM Assembles == Spec => []AssemblesInOrder
  <1>1. Init => AssemblesInOrder
    BY DEF Init, AssemblesInOrder, Assembled, Access
  <1>2. ASSUME TypeOK, Next PROVE AssemblesInOrder'
    <2>1. PICK a \in Address :
            \/ MemReadByte(a) \/ MemReadHalf(a) \/ MemReadWord(a)
            \/ \E v \in Byte : MemWriteByte(a, v)
            \/ \E v \in StoredHalf : MemWriteHalf(a, v)
            \/ \E v \in StoredWord : MemWriteWord(a, v)
      BY <1>2 DEF Next
    <2>2. data \in Contents /\ be \in BOOLEAN /\ InMemory(0)
      BY <1>2, MemoryAssumption DEF TypeOK, InMemory
    <2>3. CASE MemReadHalf(a)
      BY <2>2, <2>3, ReadsInOrder DEF MemReadHalf, Read, Access, AssemblesInOrder, Assembled
    <2>4. CASE MemReadWord(a)
      BY <2>2, <2>4, ReadsInOrder DEF MemReadWord, Read, Access, AssemblesInOrder, Assembled
    <2>5. last'.op \notin {"read_half", "read_word"} => AssemblesInOrder'
      BY DEF AssemblesInOrder, Assembled
    <2>6. CASE MemReadByte(a)
      BY <2>5, <2>6 DEF MemReadByte, Read, Access
    <2>7. ASSUME NEW v, MemWriteByte(a, v) \/ MemWriteHalf(a, v) \/ MemWriteWord(a, v)
          PROVE  AssemblesInOrder'
      BY <2>5, <2>7 DEF MemWriteByte, MemWriteHalf, MemWriteWord, Write, Access
    <2> QED
      BY <2>1, <2>3, <2>4, <2>6, <2>7
  <1>3. TypeOK /\ AssemblesInOrder /\ [Next]_vars => AssemblesInOrder'
    BY <1>2 DEF AssemblesInOrder, Assembled, vars
  <1> QED
    BY <1>1, <1>3, TypeCorrect, PTL DEF Spec

\* A word written at 0 is stored as its digits, some of them plus one, the least
\* significant never.
THEOREM Digits == Spec => []WrittenDigits
  <1>1. Init => WrittenDigits
    BY DEF Init, WrittenDigits, Access
  <1>2. ASSUME TypeOK, Next PROVE WrittenDigits'
    <2>1. PICK a \in Address :
            \/ MemReadByte(a) \/ MemReadHalf(a) \/ MemReadWord(a)
            \/ \E v \in Byte : MemWriteByte(a, v)
            \/ \E v \in StoredHalf : MemWriteHalf(a, v)
            \/ \E v \in StoredWord : MemWriteWord(a, v)
      BY <1>2 DEF Next
    <2>2. data \in Contents /\ be \in BOOLEAN /\ InMemory(0) /\ 0 .. 3 \subseteq Position
      BY <1>2, MemoryAssumption DEF TypeOK, InMemory, Position
    <2>3. ASSUME NEW v \in StoredWord, MemWriteWord(a, v) PROVE WrittenDigits'
      <3>1. v \in Nat
        BY AccessAssumption DEF Word
      <3>2. CASE a = 0
        <4>1. last' = Access("write_word", 0, v, Success) /\ be' = be
              /\ data' = WriteWord(data, be, 0, v)
          BY <2>2, <2>3, <3>2 DEF MemWriteWord, Write
        <4>2. \A i \in 0 .. 3 : data'[i] = StoredByte(be, 4, v, i)
          BY <2>2, <4>1 DEF WriteWord, WriteBytes
        <4>3. last'.value = v
          BY <4>1 DEF Access
        <4> QED
          BY <2>2, <3>1, <4>1, <4>2, <4>3, StoredIsDigitOrNext DEF WrittenDigits
      <3>3. CASE a # 0
        BY <2>3, <3>3 DEF MemWriteWord, Write, Access, WrittenDigits
      <3> QED
        BY <3>2, <3>3
    <2>4. last'.op # "write_word" => WrittenDigits'
      BY DEF WrittenDigits
    <2>5. CASE MemReadByte(a) \/ MemReadHalf(a) \/ MemReadWord(a)
      BY <2>4, <2>5 DEF MemReadByte, MemReadHalf, MemReadWord, Read, Access
    <2>6. ASSUME NEW v, MemWriteByte(a, v) \/ MemWriteHalf(a, v) PROVE WrittenDigits'
      BY <2>4, <2>6 DEF MemWriteByte, MemWriteHalf, Write, Access
    <2> QED
      BY <2>1, <2>3, <2>5, <2>6
  <1>3. TypeOK /\ WrittenDigits /\ [Next]_vars => WrittenDigits'
    BY <1>2 DEF WrittenDigits, vars
  <1> QED
    BY <1>1, <1>3, TypeCorrect, PTL DEF Spec
=============================================================================
