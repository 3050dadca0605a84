----------------------------- MODULE LoadStore -----------------------------
(***************************************************************************)
(* arm_load_store.c: the address calculators, the single and the multiple  *)
(* transfers, as functions of the register file and the memory.            *)
(***************************************************************************)
EXTENDS CondShift, Encoding, FiniteSets

\* memory_create(0x20000, 1): the simulator's memory is big endian.
BigEndian == TRUE

AddOrSub(ins, a, b) == IF UBit(ins) = 1 THEN Plus(a, b) ELSE Minus(a, b)
Computed(address, r) == [addr |-> address, reg |-> r]

\* offset_12 is a uint8_t: the four high bits of the offset are lost.
Offset12(ins) == ins.lo % 256

\* The offset register, shifted when bits 11..4 of the offset are not 0.
OffsetValues(r, offset) ==
  IF offset \div 16 = 0
  THEN {ReadRegister(r, Rm(offset))}
  ELSE {o.value : o \in ShifterValues(r, Bit4(offset), ShiftOp(offset), Rs(offset),
                                      Rm(offset), ShiftImm(offset))}

\* cond_verifier(p, cond) == 1, which an unconditional cond of 15 is not.
VerifiesToOne(ins) == ins.cond # 15

\* address_calculator: the address and the register file it leaves. The
\* condition holds: arm_execute_instruction has verified it.
Address(r, ins) ==
  LET offset == Offset12(ins)
      register == ins.cls % 2 = 1
      scaled == register /\ offset \div 16 # 0
      base == ReadRegister(r, ins.rn)
      pre == PBit(ins) = 1
      wb == WBit(ins) = 1
  IN  {LET moved == AddOrSub(ins, base, d)
           based == WriteRegister(r, ins.rn, moved)
       IN  CASE ~pre /\ wb -> Computed(0, r)
             [] ~pre /\ ~wb /\ ~scaled -> Computed(base, based)
             [] ~pre /\ ~wb /\ scaled -> Computed(moved, r)
             [] pre /\ ~wb -> Computed(moved, r)
             [] pre /\ wb -> Computed(moved, IF register /\ ~VerifiesToOne(ins)
                                             THEN r ELSE based)
         : d \in IF register THEN OffsetValues(r, offset) ELSE {offset}}

\* misc_address_calculator. immedH is lost with the high bits of the offset.
\* Where it takes the address from a call of arm_write_register the address
\* is 0, and the pre-indexed register form then clears Rn.
MiscAddress(r, ins) ==
  LET immedL == ins.lo % 16
      base == ReadRegister(r, ins.rn)
      up == UBit(ins) = 1
      byImmediate == AddOrSub(ins, base, immedL)
      byRegister == AddOrSub(ins, base, ReadRegister(r, immedL))
      only_up == IF up THEN byImmediate ELSE base
      Based(v) == WriteRegister(r, ins.rn, v)
      post == PBit(ins) = 0
      wb == WBit(ins) = 1
  IN  CASE BBit(ins) = 1 /\ ~wb /\ post -> Computed(base, Based(byImmediate))
        [] BBit(ins) = 1 /\ ~wb /\ ~post -> Computed(only_up, r)
        [] BBit(ins) = 1 /\ wb -> Computed(only_up, IF VerifiesToOne(ins)
                                                    THEN Based(only_up) ELSE r)
        [] BBit(ins) = 0 /\ wb -> Computed(0, Based(IF VerifiesToOne(ins) THEN 0
                                                                        ELSE byRegister))
        [] BBit(ins) = 0 /\ ~wb /\ post -> Computed(base, Based(byRegister))
        [] BBit(ins) = 0 /\ ~wb /\ ~post -> Computed(0, Based(byRegister))

-----------------------------------------------------------------------------
(* The transfers. An outcome is the register file and the memory left, the *)
(* result returned, and whether an assertion stopped the process.          *)

Outcome(r, m, res) == [reg |-> r, mem |-> m, res |-> res, failed |-> FALSE]

\* A read that fails leaves the variable it was to fill uninitialised.
Loaded(a, v, modulus) == IF InMemory(a) THEN {v} ELSE {j % modulus : j \in Junk}

ByteValue(m, a) == IF InMemory(a) THEN m[a] ELSE 0

Units == {"byte", "half", "word"}
UnitMod(unit) == CASE unit = "byte" -> Base
                   [] unit = "half" -> Base * Base
                   [] unit = "word" -> WordMod

ValuesAt(m, unit, a) ==
  CASE unit = "byte" -> Loaded(a, ByteValue(m, a), Base)
    [] unit = "half" -> Loaded(a, ReadHalf(m, BigEndian), Base * Base)
    [] unit = "word" -> Loaded(a, ReadWord(m, BigEndian, a), WordMod)

Stored(m, unit, a, v) ==
  IF ~InMemory(a) THEN m
  ELSE CASE unit = "byte" -> WriteByte(m, a, v)
         [] unit = "half" -> WriteHalf(m, BigEndian, a, v)
         [] unit = "word" -> WriteWord(m, BigEndian, a, v)

\* A load returns 0 even when the read failed: its result is overwritten by
\* that of the write of Rd. A store returns that of the access.
Transfer(r, m, ins, unit, a) ==
  IF LBit(ins) = 1
  THEN {Outcome(WriteRegister(r, ins.rd, v), m, 0) : v \in ValuesAt(m, unit, a)}
  ELSE LET v == ReadRegister(r, ins.rd) % UnitMod(unit)
       IN  {Outcome(r, Stored(m, unit, a, v), IF InMemory(a) THEN 0 ELSE -1)}

\* arm_load_store: word and unsigned byte, or the half of the misc addresses
\* (signed bytes, doubles, multiplies and swaps are executed as halves too).
LoadStoreSingle(r, m, ins) ==
  IF ins.cls = 0
  THEN LET at == MiscAddress(r, ins) IN Transfer(at.reg, m, ins, "half", at.addr)
  ELSE UNION {Transfer(at.reg, m, ins, IF BBit(ins) = 1 THEN "byte" ELSE "word",
                       at.addr) : at \in Address(r, ins)}

-----------------------------------------------------------------------------
\* A mutant of ListSize: the pc is not counted.
ListSizeBelowPc(ins) == Cardinality({i \in 0 .. 14 : InList(ins, i)})

\* number_of_set_bits_in counts the whole list, the pc included.
ListSize(ins) == Cardinality({i \in 0 .. 15 : InList(ins, i)})

\* mult_address_calculator: bits 23 and 22 select the mode.
TypeModes(ins) == 2 * UBit(ins) + BBit(ins)
Span(ins) == 4 * ListSize(ins)
Bounds(r, ins) ==
  LET base == ReadRegister(r, ins.rn)
  IN  CASE TypeModes(ins) = 1 -> [start |-> base, end |-> Plus(base, Span(ins) - 4)]
        [] TypeModes(ins) = 3 -> [start |-> Plus(base, 4), end |-> Plus(base, Span(ins))]
        [] TypeModes(ins) = 0 -> [start |-> Minus(base, Span(ins) - 4), end |-> base]
        [] TypeModes(ins) = 2 -> [start |-> Minus(base, Span(ins)), end |-> Minus(base, 4)]

\* A mutant of Based: the base written back into Rd.
BasedOnRd(r, ins) ==
  IF WBit(ins) = 0 THEN r
  ELSE WriteRegister(r, ins.rd, Plus(ReadRegister(r, ins.rn), Span(ins)))

Based(r, ins) ==
  IF WBit(ins) = 0 THEN r
  ELSE LET base == ReadRegister(r, ins.rn)
       IN  WriteRegister(r, ins.rn, IF TypeModes(ins) \in {1, 3} THEN Plus(base, Span(ins))
                                                              ELSE Minus(base, Span(ins)))

\* The address at the turn of register i in the loops, which take the
\* registers of the list in order.
AddressOf(ins, start, i) ==
  Plus(start, 4 * Cardinality({j \in 0 .. i - 1 : InList(ins, j)}))

\* The variable value of the loop of LDM, after its first i turns: a failed
\* read leaves it as the one before had it.
LoadedValues(m, ins, start, junk) ==
  LET value[i \in 0 .. 15] ==
        IF i = 0 THEN junk
        ELSE IF InList(ins, i - 1) /\ InMemory(AddressOf(ins, start, i - 1))
             THEN ReadWord(m, BigEndian, AddressOf(ins, start, i - 1))
             ELSE value[i - 1]
  IN  value

\* LDM: each register of the list gets value, and the pc the result of its
\* read, 0 or -1, with bit 0 cleared.
LoadEach(r, m, ins, start, junk) ==
  LET value == LoadedValues(m, ins, start, junk)
      loaded == [n \in 0 .. 16 |->
                   IF n < PC /\ InList(ins, n) THEN value[n + 1] ELSE r[n]]
  IN  IF BBit(ins) = 0 /\ InList(ins, PC)
      THEN WriteRegister(loaded, PC, IF InMemory(AddressOf(ins, start, PC))
                                     THEN 0 ELSE Ones - 1)
      ELSE loaded

\* The memory after the first i turns of the loop of STM.
StoredMemories(r, m, ins, start) ==
  LET stored[i \in 0 .. 15] ==
        IF i = 0 THEN m
        ELSE IF InList(ins, i - 1)
             THEN Stored(stored[i - 1], "word", AddressOf(ins, start, i - 1),
                         ReadRegister(r, i - 1))
             ELSE stored[i - 1]
  IN  stored

\* arm_load_store_multiple, with its assertions on the last address. Failed
\* accesses are not reported: it always returns 0.
LoadStoreMultiple(r, m, ins) ==
  LET bounds == Bounds(r, ins)
      b == Based(r, ins)
      last == AddressOf(ins, bounds.start, PC)
  IN  IF LBit(ins) = 1
      THEN {[reg |-> LoadEach(b, m, ins, bounds.start, junk), mem |-> m, res |-> 0,
             failed |-> bounds.end # last] : junk \in Junk}
      ELSE {[reg |-> b, mem |-> StoredMemories(b, m, ins, bounds.start)[PC], res |-> 0,
             failed |-> bounds.end # Minus(last, 4)]}

\* For the properties: the blocks of memory a transfer is for, one unit at its
\* address, or a word for each register of the list, from the lowest address up.
Reach(r, i) ==
  CASE i.cls = 4 -> {[from |-> Bounds(r, i).start, size |-> Span(i)]}
    [] i.cls = 0 -> {[from |-> MiscAddress(r, i).addr, size |-> 2]}
    [] OTHER -> {[from |-> at.addr, size |-> IF BBit(i) = 1 THEN 1 ELSE 4]
                   : at \in Address(r, i)}
=============================================================================
