-------------------------- MODULE M6809CoreProofs --------------------------
(***************************************************************************)
(* Every label of the core preserves the types of the core's state, the    *)
(* discipline of the state stack and the latching of the operand.          *)
(*                                                                         *)
(* None of the three is inductive alone: what an instruction reads through *)
(* the latches is typed because the latches were set for it, and they are  *)
(* still set when it returns from the stack because nothing runs between   *)
(* its dispatch and its start but the one addressing label above it.       *)
(* CoreInv says so of the frame on the stack, with Waiting.                *)
(***************************************************************************)
EXTENDS M6809Instructions, M6809AluProofs, SequenceTheorems

\* The registers that the instruction at l reads and writes through regop.
RegisterLatched(l) ==
  /\ l \in Alu8Ops \cup {"ST8"} => regop \in {"a", "b"}
  /\ l \in Alu16Ops \cup {"ST16", "LEA_xy", "LEA_us"} => regop \in Names16

Waiting ==
  \A l \in Labels : stack = <<l>> =>
    /\ RegisterLatched(l)
    /\ at = "idle" /\ l \in WithOperand => mode = "ea"

RegOK(r) == r \in [Registers -> Word] /\ \A n \in Reg8 : r[n] \in Byte
MemOK(m) == DOMAIN m \subseteq Word /\ \A a \in DOMAIN m : m[a] \in Byte

DataOK ==
  /\ RegOK(reg) /\ cc \in SUBSET Flags /\ lds \in BOOLEAN /\ line \in SUBSET Lines
  /\ MemOK(mem) /\ bus \in Seq(AccessType) /\ icount \in Int
  /\ ea \in Word /\ temp \in Byte /\ cond \in BOOLEAN /\ freeRun \in BOOLEAN

ControlOK ==
  /\ at \in Labels \cup {"idle"} /\ stack \in Seq(Labels)
  /\ mode \in {"imm", "ea", "a", "b"} /\ regop \in {"none", "a", "b"} \cup Names16
  /\ StackDiscipline /\ OperandsLatched /\ Waiting

CoreInv == DataOK /\ ControlOK

LEMMA CoreInvImplies ==
  CoreInv => CoreTypeOK /\ StackDiscipline /\ OperandsLatched
  BY DEF CoreInv, DataOK, ControlOK, CoreTypeOK, RegOK, MemOK

-----------------------------------------------------------------------------
(***************************************************************************)
(* Registers and memory.                                                   *)
(***************************************************************************)
LEMMA SetReg16 ==
  \A r : RegOK(r) => \A n \in Reg16 : \A v \in Word : RegOK([r EXCEPT ![n] = v])
  BY DEF RegOK, Registers, Reg16, Reg8

LEMMA SetReg8 ==
  \A r : RegOK(r) => \A n \in Reg8 : \A v \in Byte : RegOK([r EXCEPT ![n] = v])
  BY ByteIs, WordIs DEF RegOK, Registers, Reg16, Reg8

LEMMA RegTyped ==
  \A r : RegOK(r) =>
    /\ r["pc"] \in Word /\ r["s"] \in Word /\ r["u"] \in Word
    /\ r["x"] \in Word /\ r["y"] \in Word
    /\ r["a"] \in Byte /\ r["b"] \in Byte /\ r["dp"] \in Byte
  BY DEF RegOK, Registers, Reg16, Reg8

LEMMA PeekTyped == MemOK(mem) => \A a \in Word : Peek(a) \in Byte
  BY BackgroundAssumption DEF MemOK, Peek

LEMMA PCTyped == RegOK(reg) => \A i \in Int : PC(i) \in Word
  BY RegTyped, ToWordTyped, WordIs DEF PC

LEMMA StoredTyped ==
  ASSUME MemOK(mem), NEW first \in Word, NEW bytes \in Seq(Byte), Len(bytes) <= 65536
  PROVE  MemOK(Stored(first, bytes))
<1> DEFINE span == {ToWord(first + k - 1) : k \in 1..Len(bytes)}
<1>1. span \subseteq Word
  BY ToWordTyped, WordIs
<1>2. ASSUME NEW a \in span PROVE bytes[1 + ToWord(a - first)] \in Byte
  <2>1. PICK k \in 1..Len(bytes) : a = ToWord(first + k - 1)
    BY <1>2
  <2>2. k \in Int /\ 0 <= k - 1 /\ k - 1 <= 65535 /\ first \in Int
    BY <2>1, WordIs
  <2>3. ToWord(a - first) = k - 1
    BY <2>1, <2>2 DEF ToWord
  <2> QED BY <2>1, <2>3
<1>3. DOMAIN Stored(first, bytes) = DOMAIN mem \cup span
  BY DEF Stored
<1>4. \A a \in DOMAIN Stored(first, bytes) :
        Stored(first, bytes)[a] = IF a \in span THEN bytes[1 + ToWord(a - first)] ELSE mem[a]
  BY DEF Stored
<1> HIDE DEF span
<1> QED BY <1>1, <1>2, <1>3, <1>4 DEF MemOK

LEMMA StoredOneTyped ==
  ASSUME MemOK(mem), NEW first \in Word, NEW v \in Byte
  PROVE  MemOK(Stored(first, <<v>>))
<1> DEFINE bytes == <<v>>
<1>1. bytes \in Seq(Byte) /\ Len(bytes) <= 65536
  OBVIOUS
<1> HIDE DEF bytes
<1>2. MemOK(Stored(first, bytes))
  BY <1>1, StoredTyped
<1> QED BY <1>2 DEF bytes

LEMMA StoredTwoTyped ==
  ASSUME MemOK(mem), NEW first \in Word, NEW v \in Byte, NEW w \in Byte
  PROVE  MemOK(Stored(first, <<v, w>>))
<1> DEFINE bytes == <<v, w>>
<1>1. bytes \in Seq(Byte) /\ Len(bytes) <= 65536
  OBVIOUS
<1> HIDE DEF bytes
<1>2. MemOK(Stored(first, bytes))
  BY <1>1, StoredTyped
<1> QED BY <1>2 DEF bytes

-----------------------------------------------------------------------------
(***************************************************************************)
(* The bus.                                                                *)
(***************************************************************************)
Access == [write : BOOLEAN, address : Word, data : Byte, role : Roles]

LEMMA RdTyped ==
  MemOK(mem) => \A a \in Word : \A role \in Roles : Rd(a, role) \in Access
  BY PeekTyped DEF Rd, Access

LEMMA WrTyped == \A a \in Word : \A d \in Byte : Wr(a, d) \in Access
  BY DEF Wr, Access, Roles

LEMMA ArgTyped ==
  RegOK(reg) /\ MemOK(mem) => \A i \in Int : Arg(i) \in Access /\ Dead(i) \in Access
  BY RdTyped, PCTyped DEF Arg, Dead, Roles

LEMMA VmaTyped == MemOK(mem) => \A n \in Nat : Vma(n) \in Seq(Access)
<1> SUFFICES ASSUME MemOK(mem), NEW n \in Nat PROVE Vma(n) \in Seq(Access)
  OBVIOUS
<1>1. Rd(\hFFFF, "dead") \in Access
  BY RdTyped, WordIs DEF Roles
<1> QED BY <1>1 DEF Vma

LEMMA BusTyped ==
  ASSUME bus \in Seq(AccessType), icount \in Int,
         NEW accesses \in Seq(Access), Bus(accesses)
  PROVE  bus' \in Seq(AccessType) /\ icount' \in Int
<1> DEFINE new == [k \in DOMAIN accesses |->
                     [write   |-> accesses[k].write,
                      address |-> accesses[k].address,
                      data    |-> accesses[k].data,
                      role    |-> accesses[k].role,
                      icount  |-> icount - k]]
<1>1. ASSUME NEW k \in DOMAIN accesses PROVE new[k] \in AccessType
  <2>1. accesses[k] \in Access /\ k \in Int
    BY <1>1
  <2> QED BY <2>1 DEF Access, AccessType
<1>2. new \in Seq(AccessType)
  BY <1>1
<1>3. bus' = bus \o new
  BY DEF Bus
<1> HIDE DEF new
<1>4. bus \o new \in Seq(AccessType)
  BY <1>2
<1>5. icount' \in Int
  BY DEF Bus
<1> QED BY <1>3, <1>4, <1>5

LEMMA Accesses ==
  /\ \A x \in Access : <<x>> \in Seq(Access)
  /\ \A x, y \in Access : <<x, y>> \in Seq(Access)
  /\ <<>> \in Seq(Access)
  /\ \A p, q \in Seq(Access) : p \o q \in Seq(Access)
<1>1. \A x \in Access : <<x>> \in Seq(Access)
  OBVIOUS
<1>2. \A x, y \in Access : <<x, y>> \in Seq(Access)
  OBVIOUS
<1>3. <<>> \in Seq(Access)
  OBVIOUS
<1>4. \A p, q \in Seq(Access) : p \o q \in Seq(Access)
  OBVIOUS
<1> QED BY <1>1, <1>2, <1>3, <1>4

-----------------------------------------------------------------------------
(***************************************************************************)
(* Operands.                                                               *)
(***************************************************************************)
LEMMA PeeksTyped ==
  RegOK(reg) /\ MemOK(mem) =>
    /\ \A i \in Int : Peek(PC(i)) \in Byte
    /\ \A a \in Word : Peek(ToWord(a + 1)) \in Byte
    /\ \A i, j \in Int : Pair(Peek(PC(i)), Peek(PC(j))) \in Word
    /\ \A a \in Word : Pair(Peek(a), Peek(ToWord(a + 1))) \in Word
<1> SUFFICES ASSUME RegOK(reg), MemOK(mem)
             PROVE  /\ \A i \in Int : Peek(PC(i)) \in Byte
                    /\ \A a \in Word : Peek(ToWord(a + 1)) \in Byte
                    /\ \A i, j \in Int : Pair(Peek(PC(i)), Peek(PC(j))) \in Word
                    /\ \A a \in Word : Pair(Peek(a), Peek(ToWord(a + 1))) \in Word
  OBVIOUS
<1>1. \A i \in Int : Peek(PC(i)) \in Byte
  BY PCTyped, PeekTyped
<1>2. \A a \in Word : ToWord(a + 1) \in Word
  BY ToWordTyped, WordIs
<1>3. \A a \in Word : Peek(ToWord(a + 1)) \in Byte
  BY <1>2, PeekTyped
<1> QED BY <1>1, <1>3, PeekTyped, HalvesTyped

LEMMA OperandTyped ==
  ASSUME DataOK, mode \in {"imm", "ea", "a", "b"}
  PROVE  /\ OperandReads \in Seq(Access)
         /\ Operand \in Byte
         /\ OperandPC \in Word
         /\ \A v \in Byte : OperandWrites(v) \in Seq(Access)
         /\ \A v \in Byte : RegOK(OperandReg(v))
         /\ \A v \in Byte : MemOK(OperandMem(v))
<1> USE DEF DataOK
<1>1. OperandReads \in Seq(Access)
  <2>1. CASE mode = "ea"
    BY <2>1, RdTyped, Accesses DEF OperandReads, Roles
  <2>2. CASE mode = "imm"
    BY <2>2, ArgTyped, Accesses DEF OperandReads
  <2>3. CASE mode \in {"a", "b"}
    BY <2>3, Accesses DEF OperandReads
  <2> QED BY <2>1, <2>2, <2>3
<1>2. Operand \in Byte
  BY PeekTyped, PeeksTyped, RegTyped DEF Operand
<1>3. OperandPC \in Word
  BY PCTyped DEF OperandPC
<1>4. ASSUME NEW v \in Byte PROVE OperandWrites(v) \in Seq(Access)
  BY <1>4, WrTyped, Accesses DEF OperandWrites
<1>5. ASSUME NEW v \in Byte PROVE RegOK(OperandReg(v))
  <2>1. CASE mode \in {"a", "b"}
    BY <1>5, <2>1, SetReg8 DEF OperandReg, Reg8
  <2>2. CASE mode \notin {"a", "b"}
    BY <1>3, <2>2, SetReg16 DEF OperandReg, At, Reg16
  <2> QED BY <2>1, <2>2
<1>6. ASSUME NEW v \in Byte PROVE MemOK(OperandMem(v))
  BY <1>6, StoredOneTyped DEF OperandMem
<1> QED BY <1>1, <1>2, <1>3, <1>4, <1>5, <1>6

LEMMA Operand16Typed ==
  ASSUME DataOK
  PROVE  /\ OperandReads16 \in Seq(Access)
         /\ Operand16 \in Word
         /\ OperandPC16 \in Word
<1> USE DEF DataOK
<1>1. OperandReads16 \in Seq(Access)
  <2>1. CASE mode = "imm"
    BY <2>1, ArgTyped, Accesses DEF OperandReads16
  <2>2. CASE mode # "imm"
    <3>1. ToWord(ea + 1) \in Word
      BY ToWordTyped, WordIs
    <3>2. Rd(ea, "data") \in Access /\ Rd(ToWord(ea + 1), "data") \in Access
      BY <3>1, RdTyped DEF Roles
    <3> QED BY <2>2, <3>2, Accesses DEF OperandReads16
  <2> QED BY <2>1, <2>2
<1>2. Operand16 \in Word
  BY PeeksTyped DEF Operand16
<1>3. OperandPC16 \in Word
  BY PCTyped DEF OperandPC16
<1> QED BY <1>1, <1>2, <1>3

\* regop8() and regop16(), and an assignment through them.
LEMMA RegOpTyped ==
  ASSUME DataOK
  PROVE  /\ regop \in {"a", "b"} => RegOp \in Byte
         /\ regop \in Names16 => RegOp \in Word
         /\ D \in Word
<1>1. D \in Word
  BY RegTyped, HalvesTyped DEF D, DataOK
<1> QED BY <1>1, RegTyped DEF RegOp, DataOK, Names16

LEMMA AssignTyped ==
  ASSUME DataOK, NEW pc \in Word
  PROVE  /\ RegOK(At(pc))
         /\ regop \in {"a", "b"} => \A v \in Byte : RegOK(Assign(pc, v))
         /\ regop \in Names16 => \A v \in Word : RegOK(Assign(pc, v))
<1> DEFINE r == [reg EXCEPT !["pc"] = pc]
<1>1. RegOK(r)
  BY SetReg16 DEF DataOK, Reg16
<1>2. ASSUME regop \in {"a", "b"}, NEW v \in Byte PROVE RegOK(Assign(pc, v))
  <2>1. Assign(pc, v) = [r EXCEPT ![regop] = v]
    BY <1>2 DEF Assign
  <2>2. regop \in Reg8
    BY <1>2 DEF Reg8
  <2> HIDE DEF r
  <2>3. RegOK([r EXCEPT ![regop] = v])
    BY <1>1, <1>2, <2>2, SetReg8
  <2> QED BY <2>1, <2>3
<1>3. ASSUME regop \in Names16, NEW v \in Word PROVE RegOK(Assign(pc, v))
  <2>1. CASE regop = "d"
    <3>1. Assign(pc, v) = [[r EXCEPT !["a"] = Hi(v)] EXCEPT !["b"] = Lo(v)]
      BY <2>1 DEF Assign
    <3>2. RegOK([r EXCEPT !["a"] = Hi(v)])
      BY <1>1, HalvesTyped, SetReg8 DEF Reg8
    <3> QED BY <3>1, <3>2, HalvesTyped, SetReg8, ZenonT(40) DEF Reg8
  <2>2. CASE regop # "d"
    <3>1. Assign(pc, v) = [r EXCEPT ![regop] = v]
      BY <2>2 DEF Assign
    <3>2. regop \in Reg16
      BY <1>3, <2>2 DEF Reg16, Names16
    <3> HIDE DEF r
    <3>3. RegOK([r EXCEPT ![regop] = v])
      BY <1>1, <1>3, <3>2, SetReg16
    <3> QED BY <3>1, <3>3
  <2> QED BY <2>1, <2>2
<1> QED BY <1>1, <1>2, <1>3 DEF At

-----------------------------------------------------------------------------
(***************************************************************************)
(* Control.                                                                *)
(***************************************************************************)
\* A label that ends in "return;".
LEMMA ReturnOK ==
  ASSUME ControlOK, Return, at # "idle", regop' = regop,
         \/ at \in Calls /\ mode' = "ea"
         \/ at \notin Calls /\ mode' = mode
  PROVE  ControlOK'
<1>1. at' = "idle" /\ stack' = stack
  BY DEF Return, Goto
<1>2. mode' \in {"imm", "ea", "a", "b"} /\ regop' = regop
  BY DEF ControlOK
<1>3. StackDiscipline'
  BY <1>1 DEF ControlOK, StackDiscipline, Calls
<1>4. OperandsLatched'
  BY <1>1 DEF OperandsLatched, Alu8Ops, Alu16Ops, RmwOps
<1>5. Waiting'
  <2> SUFFICES ASSUME NEW l \in Labels, stack = <<l>>
               PROVE  RegisterLatched(l)' /\ (l \in WithOperand => mode' = "ea")
    BY <1>1 DEF Waiting
  <2>1. RegisterLatched(l)'
    BY <1>2 DEF ControlOK, Waiting, RegisterLatched
  <2>2. ASSUME l \in WithOperand PROVE at \in Calls
    <3>1. \A k : stack = <<k>> => k = l
      OBVIOUS
    <3>2. l \notin AfterPush /\ l # "SYNC_WAIT"
      BY <2>2 DEF WithOperand, AfterPush, RmwOps, Alu8Ops, Alu16Ops
    <3> QED BY <3>1, <3>2 DEF ControlOK, StackDiscipline
  <2> QED BY <2>1, <2>2
<1> QED BY <1>1, <1>2, <1>3, <1>4, <1>5 DEF ControlOK

\* A label that is left by a "goto".
LEMMA GotoOK ==
  ASSUME ControlOK, NEW l \in Labels \ Calls, Goto(l),
         at \notin Calls \cup {"PUSH_REGISTERS", "idle"},
         mode' \in {"imm", "ea", "a", "b"}, regop' \in {"none", "a", "b"} \cup Names16,
         OperandsLatched'
  PROVE  ControlOK'
<1>1. stack = <<>> /\ stack' = stack /\ at' = l
  BY DEF ControlOK, StackDiscipline, Goto
<1>2. StackDiscipline'
  BY <1>1 DEF StackDiscipline
<1>3. Waiting'
  BY <1>1 DEF Waiting
<1> QED BY <1>1, <1>2, <1>3 DEF ControlOK

\* A label that is left by "%".
LEMMA CallOK ==
  ASSUME ControlOK, NEW l, NEW k \in Labels, Call(l, k),
         at \notin Calls \cup {"PUSH_REGISTERS", "idle"},
         \/ l \in Calls /\ k \in WithOperand /\ RegisterLatched(k)'
         \/ l = "PUSH_REGISTERS" /\ k \in AfterPush /\ regop' = "s",
         mode' \in {"imm", "ea", "a", "b"}, regop' \in {"none", "a", "b"} \cup Names16
  PROVE  ControlOK'
<1>1. stack = <<>> /\ at' = l
  BY DEF ControlOK, StackDiscipline, Call
<1>2. stack' = <<k>>
  BY <1>1 DEF Call
<1>3. l \in Labels /\ l # "idle"
  BY DEF Labels, Calls
<1>4. StackDiscipline'
  BY <1>1, <1>2 DEF StackDiscipline
<1>5. OperandsLatched'
  BY <1>1 DEF OperandsLatched, Calls, Alu8Ops, Alu16Ops, RmwOps
<1>6. Waiting'
  <2> SUFFICES ASSUME NEW j \in Labels, stack' = <<j>> PROVE RegisterLatched(j)'
    BY <1>1, <1>3 DEF Waiting
  <2>1. j = k
    BY <1>2
  <2>2. k \in AfterPush => RegisterLatched(k)'
    BY DEF RegisterLatched, AfterPush, Alu8Ops, Alu16Ops
  <2> QED BY <2>1, <2>2
<1> QED BY <1>1, <1>2, <1>3, <1>4, <1>5, <1>6 DEF ControlOK

-----------------------------------------------------------------------------
(***************************************************************************)
(* The dispatch tables: an entry sets the latches that its label reads.    *)
(***************************************************************************)
Immediate == Alu8Ops \cup Alu16Ops \cup {"ORCC", "ANDCC", "XANDCC", "XST8", "XST16"}
Inherent  == {"DISPATCH01", "DISPATCH10", "DISPATCH11", "NOP", "SYNC", "FREERUN",
              "BRANCH", "LBRANCH", "BSR", "LBSR", "X18", "DAA", "SEX", "EXG", "TFR",
              "PSHS", "PULS", "PSHU", "PULU", "RTS", "ABX", "RTI", "CWAI", "MUL",
              "XRES", "SWI", "SWI2", "SWI3", "XSWI2", "XFIRQ"}

EntryOK(e) ==
  /\ e.regop \in {"-", "a", "b"} \cup Names16
  /\ e.body \in Alu8Ops \cup {"ST8", "XST8"} => e.regop \in {"a", "b"}
  /\ e.body \in Alu16Ops \cup {"ST16", "XST16", "LEA_xy", "LEA_us"} => e.regop \in Names16
  /\ \/ e.addr \in Calls /\ e.body \in WithOperand
     \/ e.addr = "imm" /\ e.body \in Immediate
     \/ e.addr \in {"a", "b"} /\ e.body \in RmwOps \cup {"XNC8", "TST8"}
     \/ e.addr = "-" /\ e.body \in Inherent

LEMMA DigitsTyped == \A v \in Byte : Row(v) \in 0..15 /\ Col(v) \in 0..15
<1> SUFFICES ASSUME NEW v \in Byte PROVE Row(v) \in 0..15 /\ Col(v) \in 0..15
  OBVIOUS
<1>1. v \in Int /\ 0 <= v /\ v <= 255
  BY ByteIs
<1>2. v \div 16 \in Int /\ 0 <= v \div 16 /\ v \div 16 <= 15
  BY <1>1
<1>3. v % 16 \in Int /\ 0 <= v % 16 /\ v % 16 <= 15
  BY <1>1
<1> QED BY <1>2, <1>3 DEF Row, Col

LEMMA RmwEntryOK ==
  ASSUME NEW opcode \in Byte, Row(opcode) \in {0, 4, 5, 6, 7}
  PROVE  EntryOK(RmwEntry(opcode))
<1> DEFINE r == Row(opcode)  c == Col(opcode)
<1>1. c \in 0..15
  BY DigitsTyped
<1>2. RmwEntry(opcode).regop = "-"
  BY DEF RmwEntry, Entry
<1>3. /\ r = 4 => RmwEntry(opcode).addr = "a"
      /\ r = 5 => RmwEntry(opcode).addr = "b"
      /\ r \in {0, 6, 7} => RmwEntry(opcode).addr \in Calls
  BY DEF RmwEntry, Entry, Calls
<1>4. /\ RmwEntry(opcode).body \in RmwOps \cup {"XNC8", "TST8", "JMP"}
      /\ r \in {4, 5} => RmwEntry(opcode).body # "JMP"
  BY <1>1 DEF RmwEntry, Entry, RmwOps
<1> QED BY <1>2, <1>3, <1>4 DEF EntryOK, WithOperand, Alu8Ops, Alu16Ops, RmwOps

LEMMA Row1EntryOK ==
  ASSUME NEW opcode \in Byte, Row(opcode) = 1
  PROVE  EntryOK(Row1Entry(opcode))
<1> DEFINE c == Col(opcode)
<1>1. c \in 0..15 /\ opcode = 16 + c
  BY DigitsTyped, ByteIs DEF Row, Col
<1>2. Row1Entry(opcode).regop = "-"
  BY DEF Row1Entry, Entry
<1>3. Row1Entry(opcode).addr = IF c \in {10, 12} THEN "imm" ELSE "-"
  BY <1>1 DEF Row1Entry, Entry
<1>4. Row1Entry(opcode).body \in IF c \in {10, 12} THEN {"ORCC", "ANDCC"} ELSE Inherent
  BY <1>1 DEF Row1Entry, Entry, Inherent
<1> QED BY <1>2, <1>3, <1>4 DEF EntryOK, Immediate, Inherent, Alu8Ops, Alu16Ops

LEMMA Row3EntryOK ==
  ASSUME NEW opcode \in Byte, Row(opcode) = 3
  PROVE  EntryOK(Row3Entry(opcode))
<1> DEFINE c == Col(opcode)  e == Row3Entry(opcode)
<1>1. c \in 0..15 /\ opcode = 48 + c
  BY DigitsTyped, ByteIs DEF Row, Col
<1>2. CASE c \in {0, 1, 2, 3}
  <2>1. e.regop \in {"x", "y", "s", "u"}
    BY <1>2 DEF Row3Entry, Entry
  <2>2. e.addr = "INDEXED"
    BY <1>2 DEF Row3Entry, Entry
  <2>3. e.body \in {"LEA_xy", "LEA_us"}
    BY <1>2 DEF Row3Entry, Entry
  <2> QED BY <2>1, <2>2, <2>3 DEF EntryOK, Names16, Calls, WithOperand, Alu8Ops
<1>3. CASE c \notin {0, 1, 2, 3}
  <2>1. e.regop = "-"
    BY <1>1, <1>3 DEF Row3Entry, Entry
  <2>2. e.addr = IF c = 8 THEN "imm" ELSE "-"
    BY <1>1, <1>3 DEF Row3Entry, Entry
  <2>3. e.body \in IF c = 8 THEN {"XANDCC"} ELSE Inherent
    BY <1>1, <1>3 DEF Row3Entry, Entry, Inherent
  <2> QED BY <2>1, <2>2, <2>3 DEF EntryOK, Immediate, Inherent, Alu8Ops, Alu16Ops
<1> QED BY <1>2, <1>3

LEMMA QuadAddrTyped ==
  \A opcode \in Byte :
    QuadAddr(opcode) = IF Row(opcode) % 4 = 0 THEN "imm"
                       ELSE IF Row(opcode) % 4 = 1 THEN "DIRECT"
                       ELSE IF Row(opcode) % 4 = 2 THEN "INDEXED" ELSE "EXTENDED"
<1> SUFFICES ASSUME NEW opcode \in Byte, NEW q, q = Row(opcode) % 4
             PROVE  <<"imm", "DIRECT", "INDEXED", "EXTENDED">>[1 + q]
                      = IF q = 0 THEN "imm" ELSE IF q = 1 THEN "DIRECT"
                        ELSE IF q = 2 THEN "INDEXED" ELSE "EXTENDED"
  BY DEF QuadAddr
<1>1. q \in {0, 1, 2, 3}
  BY DigitsTyped
<1> QED BY <1>1

\* Instructions of rows 8 to F on one accumulator, by their column.
LEMMA Column8OK ==
  ASSUME NEW opcode \in Byte, Row(opcode) >= 8, Col(opcode) \notin {3, 12, 13, 14, 15}
  PROVE  EntryOK(AccumulatorEntry(opcode))
<1> DEFINE c == Col(opcode)  e == AccumulatorEntry(opcode)
<1>1. c \in {0, 1, 2, 4, 5, 6, 7, 8, 9, 10, 11}
  BY DigitsTyped
<1>2. e.regop \in {"a", "b"}
  BY <1>1 DEF AccumulatorEntry, Entry
<1>3. e.addr = QuadAddr(opcode)
  BY <1>1 DEF AccumulatorEntry, Entry
<1>4. e.body \in IF Row(opcode) % 4 = 0 THEN Alu8Ops \cup {"XST8"} ELSE Alu8Ops \cup {"ST8"}
  BY <1>1 DEF AccumulatorEntry, Entry, Alu8Ops
<1>5. CASE Row(opcode) % 4 = 0
  <2>1. e.addr = "imm" /\ e.body \in Alu8Ops \cup {"XST8"}
    BY <1>3, <1>4, <1>5, QuadAddrTyped
  <2> QED BY <1>2, <2>1 DEF EntryOK, Immediate, Alu8Ops, Alu16Ops
<1>6. CASE Row(opcode) % 4 # 0
  <2>1. e.addr \in Calls /\ e.body \in Alu8Ops \cup {"ST8"}
    BY <1>3, <1>4, <1>6, QuadAddrTyped DEF Calls
  <2> QED BY <1>2, <2>1 DEF EntryOK, WithOperand, Alu8Ops, Alu16Ops
<1> QED BY <1>5, <1>6

LEMMA Column16OK ==
  ASSUME NEW opcode \in Byte, Row(opcode) >= 8, Col(opcode) \in {3, 12, 13, 14, 15}
  PROVE  EntryOK(AccumulatorEntry(opcode))
<1> DEFINE c == Col(opcode)  e == AccumulatorEntry(opcode)
<1>1. CASE Row(opcode) % 4 = 0
  <2>1. QuadAddr(opcode) = "imm"
    BY <1>1, QuadAddrTyped
  <2>2. CASE c = 13
    <3>1. e.regop = "-" /\ e.addr = "-" /\ e.body \in {"BSR", "FREERUN"}
      BY <1>1, <2>2 DEF AccumulatorEntry, Entry
    <3> QED BY <3>1 DEF EntryOK, Inherent, Alu8Ops, Alu16Ops
  <2>3. CASE c # 13
    <3>1. e.regop \in Names16
      BY <2>3 DEF AccumulatorEntry, Entry, Names16
    <3>2. e.addr = "imm"
      BY <2>1, <2>3 DEF AccumulatorEntry, Entry
    <3>3. e.body \in {"SUB16", "ADD16", "CMP16", "LD16", "XST16"}
      BY <1>1, <2>3 DEF AccumulatorEntry, Entry, Store16
    <3> QED BY <3>1, <3>2, <3>3 DEF EntryOK, Immediate, Alu8Ops, Alu16Ops
  <2> QED BY <2>2, <2>3
<1>2. CASE Row(opcode) % 4 # 0
  <2>1. QuadAddr(opcode) \in Calls
    BY <1>2, QuadAddrTyped DEF Calls
  <2>2. e.addr \in Calls
    BY <1>2, <2>1 DEF AccumulatorEntry, Entry
  <2>3. e.body \in {"SUB16", "ADD16", "CMP16", "LD16", "ST16", "JSR"}
    BY <1>2 DEF AccumulatorEntry, Entry, Store16
  <2>4. e.regop \in {"-"} \cup Names16 /\ (e.body # "JSR" => e.regop \in Names16)
    BY <1>2 DEF AccumulatorEntry, Entry, Names16, Store16
  <2> QED BY <2>2, <2>3, <2>4 DEF EntryOK, WithOperand, Alu8Ops, Alu16Ops
<1> QED BY <1>1, <1>2

LEMMA Page1OK == \A opcode \in Byte : EntryOK(Page1(opcode))
<1> SUFFICES ASSUME NEW opcode \in Byte PROVE EntryOK(Page1(opcode))
  OBVIOUS
<1>1. Row(opcode) \in 0..15
  BY DigitsTyped
<1>2. CASE Row(opcode) \in {0, 4, 5, 6, 7}
  BY <1>2, RmwEntryOK DEF Page1
<1>3. CASE Row(opcode) = 1
  BY <1>3, Row1EntryOK DEF Page1
<1>4. CASE Row(opcode) = 2
  <2>1. Page1(opcode) = Entry("-", "-", "BRANCH")
    BY <1>4 DEF Page1
  <2> QED BY <2>1 DEF EntryOK, Entry, Inherent, Alu8Ops, Alu16Ops
<1>5. CASE Row(opcode) = 3
  BY <1>5, Row3EntryOK DEF Page1
<1>6. CASE Row(opcode) >= 8
  BY <1>6, Column8OK, Column16OK DEF Page1
<1> QED BY <1>1, <1>2, <1>3, <1>4, <1>5, <1>6

\* The entries of the prefixed pages, by the kind of their label.
LEMMA InherentEntryOK ==
  \A body \in Inherent : EntryOK(Entry("-", "-", body))
  BY DEF EntryOK, Entry, Inherent, Alu8Ops, Alu16Ops

LEMMA QuadEntryOK ==
  ASSUME NEW opcode \in Byte, NEW r \in Names16,
         NEW body \in Alu16Ops \cup {Store16(opcode)}
  PROVE  EntryOK(Entry(r, QuadAddr(opcode), body))
<1>1. CASE Row(opcode) % 4 = 0
  <2>1. QuadAddr(opcode) = "imm" /\ body \in Alu16Ops \cup {"XST16"}
    BY <1>1, QuadAddrTyped DEF Store16
  <2> QED BY <2>1 DEF EntryOK, Entry, Immediate, Alu8Ops, Alu16Ops
<1>2. CASE Row(opcode) % 4 # 0
  <2>1. QuadAddr(opcode) \in Calls /\ body \in Alu16Ops \cup {"ST16"}
    BY <1>2, QuadAddrTyped DEF Store16, Calls
  <2> QED BY <2>1 DEF EntryOK, Entry, WithOperand, Alu8Ops, Alu16Ops
<1> QED BY <1>1, <1>2

LEMMA StoreImmediateOK ==
  /\ \A r \in {"a", "b"} : EntryOK(Entry(r, "imm", "XST8"))
  /\ \A r \in Names16 : EntryOK(Entry(r, "imm", "XST16"))
  BY DEF EntryOK, Entry, Immediate, Alu8Ops, Alu16Ops

LEMMA Page10OK == \A opcode \in Byte : EntryOK(Page10(opcode))
<1> SUFFICES ASSUME NEW opcode \in Byte PROVE EntryOK(Page10(opcode))
  OBVIOUS
<1>1. Page10(opcode) \in
        {Entry("-", "-", "DISPATCH10"), Entry("-", "-", "LBRANCH"),
         Entry("-", "-", "XSWI2"), Entry("-", "-", "SWI2"),
         Entry("-", "-", "DISPATCH01"), Entry("a", "imm", "XST8"),
         Entry("b", "imm", "XST8"), Entry("d", QuadAddr(opcode), "CMP16"),
         Entry("y", QuadAddr(opcode), "CMP16"), Entry("y", QuadAddr(opcode), "LD16"),
         Entry("y", QuadAddr(opcode), Store16(opcode)),
         Entry("d", QuadAddr(opcode), "XADD16"), Entry("s", QuadAddr(opcode), "LD16"),
         Entry("s", QuadAddr(opcode), Store16(opcode))}
  BY DEF Page10
<1>2. \A body \in {"DISPATCH10", "LBRANCH", "XSWI2", "SWI2", "DISPATCH01"} :
        EntryOK(Entry("-", "-", body))
  BY InherentEntryOK DEF Inherent
<1>3. \A r \in {"d", "y", "s"} :
        \A body \in {"CMP16", "LD16", "XADD16", Store16(opcode)} :
          EntryOK(Entry(r, QuadAddr(opcode), body))
  BY QuadEntryOK DEF Names16, Alu16Ops
<1> QED BY <1>1, <1>2, <1>3, StoreImmediateOK

LEMMA Page11OK == \A opcode \in Byte : EntryOK(Page11(opcode))
<1> SUFFICES ASSUME NEW opcode \in Byte PROVE EntryOK(Page11(opcode))
  OBVIOUS
<1>1. Page11(opcode) \in
        {Entry("-", "-", "DISPATCH11"), Entry("-", "-", "XFIRQ"),
         Entry("-", "-", "SWI3"), Entry("-", "-", "DISPATCH01"),
         Entry("a", "imm", "XST8"), Entry("b", "imm", "XST8"),
         Entry("x", "imm", "XST16"), Entry("u", "imm", "XST16"),
         Entry("u", QuadAddr(opcode), "CMP16"), Entry("s", QuadAddr(opcode), "CMP16"),
         Entry("u", QuadAddr(opcode), "XADD16")}
  BY DEF Page11
<1>2. \A body \in {"DISPATCH11", "XFIRQ", "SWI3", "DISPATCH01"} :
        EntryOK(Entry("-", "-", body))
  BY InherentEntryOK DEF Inherent
<1>3. \A r \in {"u", "s"} :
        \A body \in {"CMP16", "XADD16"} : EntryOK(Entry(r, QuadAddr(opcode), body))
  BY QuadEntryOK DEF Names16, Alu16Ops
<1>4. EntryOK(Entry("x", "imm", "XST16")) /\ EntryOK(Entry("u", "imm", "XST16"))
  BY StoreImmediateOK DEF Names16
<1> QED BY <1>1, <1>2, <1>3, <1>4, StoreImmediateOK

-----------------------------------------------------------------------------
(***************************************************************************)
(* The opcode fetch.                                                       *)
(***************************************************************************)
LEMMA NewCondTyped ==
  ASSUME cond \in BOOLEAN, NEW label, NEW opcode
  PROVE  NewCond(label, opcode) \in BOOLEAN
  BY DEF NewCond, BranchCond

LEMMA FetchControl ==
  ASSUME CoreInv, NEW e, EntryOK(e),
         at \in {"DISPATCH01", "DISPATCH10", "DISPATCH11"},
         IF e.addr \in Calls THEN Call(e.addr, e.body) ELSE Goto(e.body),
         regop' = IF e.regop = "-" THEN regop ELSE e.regop,
         mode' = IF e.addr \in Calls \cup {"-"} THEN mode ELSE e.addr
  PROVE  ControlOK'
<1>1. ControlOK /\ at \notin Calls \cup {"PUSH_REGISTERS", "idle"}
  BY DEF CoreInv, Calls
<1>2. regop' \in {"none", "a", "b"} \cup Names16
  BY DEF ControlOK, CoreInv, EntryOK
<1>3. mode' \in {"imm", "ea", "a", "b"}
  BY DEF ControlOK, CoreInv, EntryOK
<1>4. /\ e.body \in Alu8Ops \cup {"ST8", "XST8"} => regop' \in {"a", "b"}
      /\ e.body \in Alu16Ops \cup {"ST16", "XST16", "LEA_xy", "LEA_us"} => regop' \in Names16
  BY DEF EntryOK, Names16
<1>5. CASE e.addr \in Calls
  <2>1. e.body \in WithOperand /\ e.body \in Labels
    BY <1>5 DEF EntryOK, Calls, Labels
  <2>2. Call(e.addr, e.body)
    BY <1>5
  <2>3. RegisterLatched(e.body)'
    BY <1>4 DEF RegisterLatched
  <2> QED BY <1>1, <1>2, <1>3, <1>5, <2>1, <2>2, <2>3, CallOK
<1>6. CASE e.addr \notin Calls
  <2>1. Goto(e.body) /\ at' = e.body
    BY <1>6 DEF Goto
  <2>2. \/ mode' = "imm" /\ e.body \in Immediate
        \/ mode' \in {"a", "b"} /\ e.body \in RmwOps \cup {"XNC8", "TST8"}
        \/ e.body \in Inherent
    BY <1>6 DEF EntryOK, Calls
  <2>3. e.body \in Labels \ Calls
    BY <2>2 DEF Immediate, Inherent, Labels, WithOperand, Calls, RmwOps, Alu8Ops, Alu16Ops
  <2>4. OperandsLatched'
    BY <1>4, <2>1, <2>2
       DEF OperandsLatched, Immediate, Inherent, RmwOps, Alu8Ops, Alu16Ops
  <2> QED BY <1>1, <1>2, <1>3, <2>1, <2>3, <2>4, GotoOK
<1> QED BY <1>5, <1>6

LEMMA FetchOK ==
  ASSUME CoreInv, NEW label \in {"DISPATCH01", "DISPATCH10", "DISPATCH11"},
         at \in {"DISPATCH01", "DISPATCH10", "DISPATCH11"},
         FetchAndDispatch(label)
  PROVE  CoreInv'
<1> DEFINE opcode == Peek(PC(0))
           e == CASE label = "DISPATCH01" -> Page1(opcode)
                  [] label = "DISPATCH10" -> Page10(opcode)
                  [] label = "DISPATCH11" -> Page11(opcode)
<1>1. DataOK /\ ControlOK
  BY DEF CoreInv
<1>2. opcode \in Byte /\ PC(1) \in Word /\ PC(0) \in Word
  BY <1>1, PeeksTyped, PCTyped DEF DataOK
<1>3. EntryOK(e)
  BY <1>2, Page1OK, Page10OK, Page11OK
<1>4. /\ Bus(<<Rd(PC(0), "opcode")>>)
      /\ reg' = At(PC(1))
      /\ UNCHANGED <<cc, lds, line, mem, ea, temp, freeRun>>
      /\ \/ Goto("FREERUN") /\ UNCHANGED <<regop, mode, cond>>
         \/ /\ IF e.addr \in Calls THEN Call(e.addr, e.body) ELSE Goto(e.body)
            /\ regop' = IF e.regop = "-" THEN regop ELSE e.regop
            /\ mode' = IF e.addr \in Calls \cup {"-"} THEN mode ELSE e.addr
            /\ cond' = NewCond(label, opcode)
  BY DEF FetchAndDispatch
<1> HIDE DEF e, opcode
<1>5. DataOK'
  <2>1. <<Rd(PC(0), "opcode")>> \in Seq(Access)
    BY <1>1, <1>2, RdTyped, Accesses DEF DataOK, Roles
  <2>2. bus' \in Seq(AccessType) /\ icount' \in Int
    BY <1>1, <1>4, <2>1, BusTyped DEF DataOK
  <2>3. RegOK(reg')
    BY <1>1, <1>2, <1>4, AssignTyped
  <2>4. cond' \in BOOLEAN
    BY <1>1, <1>4, NewCondTyped DEF DataOK
  <2> QED BY <1>1, <1>4, <2>2, <2>3, <2>4 DEF DataOK, MemOK
<1>6. ControlOK'
  <2>1. CASE Goto("FREERUN") /\ UNCHANGED <<regop, mode, cond>>
    <3>1. "FREERUN" \in Labels \ Calls /\ at \notin Calls \cup {"PUSH_REGISTERS", "idle"}
      BY DEF Labels, Calls
    <3>2. OperandsLatched'
      BY <2>1 DEF Goto, OperandsLatched, RmwOps, Alu8Ops, Alu16Ops
    <3>3. mode' \in {"imm", "ea", "a", "b"} /\ regop' \in {"none", "a", "b"} \cup Names16
      BY <1>1, <2>1 DEF ControlOK
    <3> QED BY <1>1, <2>1, <3>1, <3>2, <3>3, GotoOK
  <2>2. CASE /\ IF e.addr \in Calls THEN Call(e.addr, e.body) ELSE Goto(e.body)
             /\ regop' = IF e.regop = "-" THEN regop ELSE e.regop
             /\ mode' = IF e.addr \in Calls \cup {"-"} THEN mode ELSE e.addr
    BY <1>3, <2>2, FetchControl
  <2> QED BY <1>4, <2>1, <2>2
<1> QED BY <1>5, <1>6 DEF CoreInv

-----------------------------------------------------------------------------
(***************************************************************************)
(* Entering a label.                                                       *)
(***************************************************************************)
LEMMA MainOK == CoreInv /\ MAIN => CoreInv'
<1> SUFFICES ASSUME CoreInv, MAIN PROVE CoreInv'
  OBVIOUS
<1> DEFINE l == IF PendingInterrupt = "none" THEN "DISPATCH01" ELSE PendingInterrupt
<1>1. /\ at = "MAIN" /\ Goto(l)
      /\ UNCHANGED <<reg, cc, lds, line, mem, bus, icount, latches, freeRun>>
  BY DEF MAIN
<1>2. l \in {"DISPATCH01", "NMI", "FIRQ", "IRQ"}
  BY DEF PendingInterrupt
<1> HIDE DEF l
<1>3. DataOK'
  BY <1>1 DEF CoreInv, DataOK, MemOK, RegOK, latches
<1>4. OperandsLatched'
  BY <1>1, <1>2 DEF Goto, OperandsLatched, RmwOps, Alu8Ops, Alu16Ops
<1>5. /\ l \in Labels \ Calls
      /\ at \notin Calls \cup {"PUSH_REGISTERS", "idle"}
  BY <1>1, <1>2 DEF Labels, Calls
<1>6. /\ ControlOK /\ mode' \in {"imm", "ea", "a", "b"}
      /\ regop' \in {"none", "a", "b"} \cup Names16
  BY <1>1 DEF CoreInv, ControlOK, latches
<1>7. ControlOK'
  BY <1>1, <1>4, <1>5, <1>6, GotoOK
<1> QED BY <1>3, <1>7 DEF CoreInv

\* pop_state(): the label on top of the stack was latched for.
LEMMA Pops ==
  ASSUME ControlOK, at = "idle",
         at' = IF stack = <<>> THEN "MAIN" ELSE Head(stack),
         stack' = IF stack = <<>> THEN stack ELSE Tail(stack),
         mode' = mode, regop' = regop
  PROVE  ControlOK'
<1>1. CASE stack = <<>>
  <2>1. at' = "MAIN" /\ stack' = <<>>
    BY <1>1
  <2>2. OperandsLatched'
    BY <2>1 DEF OperandsLatched, RmwOps, Alu8Ops, Alu16Ops
  <2>3. StackDiscipline' /\ Waiting' /\ at' \in Labels
    BY <2>1 DEF StackDiscipline, Waiting, Calls, Labels
  <2> QED BY <2>1, <2>2, <2>3 DEF ControlOK
<1>2. CASE stack # <<>>
  <2>1. PICK l : stack = <<l>> /\ l \in WithOperand \cup AfterPush \cup {"SYNC_WAIT"}
    BY <1>2 DEF ControlOK, StackDiscipline
  <2>2. at' = l /\ stack' = <<>>
    BY <1>2, <2>1
  <2>3. l \in Labels \ Calls
    BY <2>1 DEF Labels, Calls, WithOperand, AfterPush, RmwOps, Alu8Ops, Alu16Ops
  <2>4. RegisterLatched(l) /\ (l \in WithOperand => mode = "ea")
    BY <2>1, <2>3 DEF ControlOK, Waiting
  <2>5. OperandsLatched'
    <3>1. l \notin {"XST8", "XST16", "PUSH_REGISTERS", "PULL_REGISTERS", "ORCC", "ANDCC",
                    "XANDCC"}
      BY <2>1 DEF WithOperand, AfterPush, RmwOps, Alu8Ops, Alu16Ops
    <3>2. l \notin WithOperand =>
            l \notin Alu8Ops \cup Alu16Ops \cup RmwOps
                      \cup {"XNC8", "TST8", "ST8", "ST16", "JMP", "JSR", "LEA_xy", "LEA_us"}
      BY DEF WithOperand
    <3> QED BY <2>2, <2>4, <3>1, <3>2 DEF OperandsLatched, RegisterLatched
  <2>6. StackDiscipline' /\ Waiting'
    BY <2>2, <2>3 DEF StackDiscipline, Waiting
  <2> QED BY <2>2, <2>3, <2>5, <2>6 DEF ControlOK
<1> QED BY <1>1, <1>2

LEMMA ExecuteOneOK == CoreInv /\ ExecuteOne => CoreInv'
<1> SUFFICES ASSUME CoreInv, ExecuteOne PROVE CoreInv'
  OBVIOUS
<1>1. DataOK'
  BY DEF ExecuteOne, CoreInv, DataOK, MemOK, RegOK, latches
<1>2. ControlOK'
  BY Pops DEF ExecuteOne, CoreInv, latches
<1> QED BY <1>1, <1>2 DEF CoreInv

-----------------------------------------------------------------------------
(***************************************************************************)
(* Leaving a label: what the control part of an action has to say.         *)
(***************************************************************************)
LEMMA Returns ==
  ASSUME CoreInv, at \notin Calls \cup {"idle"}, Return, regop' = regop, mode' = mode
  PROVE  ControlOK'
  BY ReturnOK DEF CoreInv

\* A jump to a label that reads nothing through the latches.
Unlatched == {"GOTO_SUBROUTINE", "INTERRUPT_VECTOR", "SOFTWARE_INTERRUPT"}

LEMMA Jumps ==
  ASSUME CoreInv, NEW l \in Unlatched, Goto(l),
         at \notin Calls \cup {"PUSH_REGISTERS", "idle"},
         regop' = regop, mode' = mode
  PROVE  ControlOK'
<1>1. OperandsLatched'
  BY DEF Goto, Unlatched, OperandsLatched, RmwOps, Alu8Ops, Alu16Ops
<1>2. l \in Labels \ Calls
  BY DEF Unlatched, Labels, Calls
<1>3. /\ ControlOK /\ mode' \in {"imm", "ea", "a", "b"}
      /\ regop' \in {"none", "a", "b"} \cup Names16
  BY DEF CoreInv, ControlOK
<1> QED BY <1>1, <1>2, <1>3, GotoOK

\* A jump to the push or the pull of the registers.
LEMMA JumpsToStack ==
  ASSUME CoreInv, NEW l \in {"PUSH_REGISTERS", "PULL_REGISTERS"}, Goto(l),
         at \notin Calls \cup {"PUSH_REGISTERS", "idle"},
         regop' \in {"s", "u"}, mode' = mode
  PROVE  ControlOK'
<1>1. OperandsLatched'
  BY DEF Goto, OperandsLatched, RmwOps, Alu8Ops, Alu16Ops
<1>2. l \in Labels \ Calls
  BY DEF Labels, Calls
<1>3. /\ ControlOK /\ mode' \in {"imm", "ea", "a", "b"}
      /\ regop' \in {"none", "a", "b"} \cup Names16
  BY DEF CoreInv, ControlOK, Names16
<1> QED BY <1>1, <1>2, <1>3, GotoOK

-----------------------------------------------------------------------------
(***************************************************************************)
(* Addressing.                                                             *)
(***************************************************************************)
LEMMA DirectOK == CoreInv /\ DIRECT => CoreInv'
<1> SUFFICES ASSUME CoreInv, DIRECT PROVE CoreInv'
  OBVIOUS
<1>1. DataOK /\ ControlOK
  BY DEF CoreInv
<1>2. ControlOK'
  BY <1>1, ReturnOK DEF DIRECT, Calls
<1>3. <<Arg(0)>> \o Vma(1) \in Seq(Access)
  BY <1>1, ArgTyped, VmaTyped, Accesses DEF DataOK
<1>4. bus' \in Seq(AccessType) /\ icount' \in Int
  BY <1>1, <1>3, BusTyped DEF DataOK, DIRECT
<1>5. ea' \in Word
  <2>1. reg["dp"] \in Byte /\ Peek(PC(0)) \in Byte
    BY <1>1, RegTyped, PeeksTyped DEF DataOK
  <2> QED BY <2>1, HalvesTyped DEF DIRECT
<1>6. RegOK(reg')
  BY <1>1, PCTyped, AssignTyped DEF DataOK, DIRECT
<1>7. DataOK'
  BY <1>1, <1>4, <1>5, <1>6 DEF DataOK, DIRECT, MemOK
<1> QED BY <1>2, <1>7 DEF CoreInv

LEMMA ExtendedOK == CoreInv /\ EXTENDED => CoreInv'
<1> SUFFICES ASSUME CoreInv, EXTENDED PROVE CoreInv'
  OBVIOUS
<1>1. DataOK /\ ControlOK
  BY DEF CoreInv
<1>2. ControlOK'
  BY <1>1, ReturnOK DEF EXTENDED, Calls
<1>3. <<Arg(0), Arg(1)>> \o Vma(1) \in Seq(Access)
  BY <1>1, ArgTyped, VmaTyped, Accesses DEF DataOK
<1>4. bus' \in Seq(AccessType) /\ icount' \in Int
  BY <1>1, <1>3, BusTyped DEF DataOK, EXTENDED
<1>5. ea' \in Word
  BY <1>1, PeeksTyped DEF DataOK, EXTENDED
<1>6. RegOK(reg')
  BY <1>1, PCTyped, AssignTyped DEF DataOK, EXTENDED
<1>7. DataOK'
  BY <1>1, <1>4, <1>5, <1>6 DEF DataOK, EXTENDED, MemOK
<1> QED BY <1>2, <1>7 DEF CoreInv

LEMMA IndexRegTyped == \A p \in Byte : IndexReg(p) \in {"x", "y", "u", "s"}
<1> SUFFICES ASSUME NEW q \in {0, 1, 2, 3}
             PROVE  <<"x", "y", "u", "s">>[1 + q] \in {"x", "y", "u", "s"}
  <2>1. \A p \in Byte : (p \div \h20) % 4 \in {0, 1, 2, 3}
    BY ByteIs
  <2> QED BY <2>1 DEF IndexReg
<1> QED OBVIOUS

LEMMA IndexedCountsTyped ==
  ASSUME NEW d \in 0..15
  PROVE  /\ IndexedArgs(d) \in Nat /\ IndexedDeads(d) \in Nat /\ IndexedVmas(d) \in Nat
         /\ IndexedStep(d) \in Int
<1>1. IndexedArgs(d) \in Nat
  BY DEF IndexedArgs
<1>2. IndexedDeads(d) \in Nat
  BY DEF IndexedDeads
<1>3. IndexedVmas(d) \in Nat
  BY DEF IndexedVmas
<1>4. IndexedStep(d) \in Int
  BY DEF IndexedStep
<1> QED BY <1>1, <1>2, <1>3, <1>4

LEMMA IndexedBaseTyped ==
  ASSUME DataOK, NEW p \in Byte
  PROVE  IndexedBase(p) \in Word
<1> DEFINE r == reg[IndexReg(p)]
           digit == Col(p)
           byte == Signed8(Peek(PC(1)))
           word == Pair(Peek(PC(1)), Peek(PC(2)))
<1>1. r \in Int
  BY IndexRegTyped, RegTyped, WordIs DEF DataOK
<1>2. digit \in 0..15 /\ IndexedStep(digit) \in Int
  BY DigitsTyped, IndexedCountsTyped
<1>3. byte \in Int /\ word \in Int
  BY PeeksTyped, SignedTyped, WordIs DEF DataOK
<1>4. Signed8(reg["a"]) \in Int /\ Signed8(reg["b"]) \in Int /\ D \in Int
  BY RegTyped, RegOpTyped, SignedTyped, WordIs DEF DataOK
<1>5. PC(2) \in Int /\ PC(3) \in Int
  BY PCTyped, WordIs DEF DataOK
<1> DEFINE v == CASE digit \in {0, 1, 4} -> r
                  [] digit \in {2, 3} -> r + IndexedStep(digit)
                  [] digit = 5  -> r + Signed8(reg["b"])
                  [] digit = 6  -> r + Signed8(reg["a"])
                  [] digit = 8  -> r + byte
                  [] digit = 9  -> r + word
                  [] digit = 11 -> r + D
                  [] digit = 12 -> PC(2) + byte
                  [] digit = 13 -> PC(3) + word
                  [] digit = 15 -> word
                  [] digit \in {7, 10, 14} -> 0
<1>6. IndexedBase(p) = ToWord(v)
  BY DEF IndexedBase
<1> HIDE DEF r, digit, byte, word
<1>7. v \in Int
  BY <1>1, <1>2, <1>3, <1>4, <1>5
<1> HIDE DEF v
<1> QED BY <1>6, <1>7, ToWordTyped

LEMMA IndexedShortOK ==
  ASSUME DataOK, NEW p \in Byte, IndexedShort(p)
  PROVE  bus' \in Seq(AccessType) /\ icount' \in Int /\ ea' \in Word /\ RegOK(reg')
<1>1. <<Arg(0), Dead(1)>> \o Vma(1) \in Seq(Access)
  BY ArgTyped, VmaTyped, Accesses DEF DataOK
<1>2. bus' \in Seq(AccessType) /\ icount' \in Int
  BY <1>1, BusTyped DEF DataOK, IndexedShort
<1>3. ShortOffset(p) \in Int
  BY DigitsTyped DEF ShortOffset
<1>4. reg[IndexReg(p)] \in Int
  BY IndexRegTyped, RegTyped, WordIs DEF DataOK
<1>5. ea' \in Word
  BY <1>3, <1>4, ToWordTyped DEF IndexedShort
<1>6. RegOK(reg')
  BY PCTyped, AssignTyped DEF DataOK, IndexedShort
<1> QED BY <1>2, <1>5, <1>6

LEMMA IndexedLongOK ==
  ASSUME DataOK, NEW p \in Byte, IndexedLong(p)
  PROVE  bus' \in Seq(AccessType) /\ icount' \in Int /\ ea' \in Word /\ RegOK(reg')
<1> DEFINE x == IndexReg(p)
           digit == Col(p)
           n == IndexedArgs(digit)
           base == IndexedBase(p)
           next == ToWord(base + 1)
           args == [k \in 1..(1 + n) |-> Arg(k - 1)]
           deads == [k \in 1..IndexedDeads(digit) |-> Dead(n + k)]
           vmas == Vma(IndexedVmas(digit))
           indirect == IF Has(p, \h10)
                       THEN <<Rd(base, "data"), Rd(next, "data")>> \o Vma(1) ELSE <<>>
           r == [reg EXCEPT !["pc"] = PC(1 + n)]
<1>1. Bus(args \o deads \o vmas \o indirect)
  BY DEF IndexedLong
<1>2. ea' = IF Has(p, \h10) THEN Pair(Peek(base), Peek(next)) ELSE base
  BY DEF IndexedLong
<1>3. reg' = [r EXCEPT ![x] = ToWord(reg[x] + IndexedStep(digit))]
  BY DEF IndexedLong
<1>4. /\ n \in Nat /\ IndexedDeads(digit) \in Nat /\ IndexedVmas(digit) \in Nat
      /\ IndexedStep(digit) \in Int
  BY DigitsTyped, IndexedCountsTyped
<1>5. base \in Word /\ next \in Word
  BY IndexedBaseTyped, ToWordTyped, WordIs
<1>6. args \in Seq(Access) /\ deads \in Seq(Access)
  <2>1. \A k \in 1..(1 + n) : Arg(k - 1) \in Access
    BY <1>4, ArgTyped DEF DataOK
  <2>2. \A k \in 1..IndexedDeads(digit) : Dead(n + k) \in Access
    BY <1>4, ArgTyped DEF DataOK
  <2> HIDE DEF n, digit
  <2> QED BY <1>4, <2>1, <2>2
<1>7. vmas \in Seq(Access)
  BY <1>4, VmaTyped DEF DataOK
<1>8. indirect \in Seq(Access)
  <2>1. Rd(base, "data") \in Access /\ Rd(next, "data") \in Access
    BY <1>5, RdTyped DEF DataOK, Roles
  <2>2. <<Rd(base, "data"), Rd(next, "data")>> \o Vma(1) \in Seq(Access)
    BY <2>1, VmaTyped, Accesses DEF DataOK
  <2> QED BY <2>2, Accesses
<1>9. RegOK(reg')
  <2>1. RegOK(r)
    BY <1>4, PCTyped, SetReg16 DEF DataOK, Reg16
  <2>2. x \in Reg16 /\ reg[x] \in Int
    BY IndexRegTyped, RegTyped, WordIs DEF DataOK, Reg16
  <2>3. ToWord(reg[x] + IndexedStep(digit)) \in Word
    BY <1>4, <2>2, ToWordTyped
  <2> HIDE DEF r, x, digit
  <2>4. RegOK([r EXCEPT ![x] = ToWord(reg[x] + IndexedStep(digit))])
    BY <2>1, <2>2, <2>3, SetReg16
  <2> QED BY <1>3, <2>4
<1>10. Peek(base) \in Byte /\ Peek(next) \in Byte
  BY <1>5, PeekTyped DEF DataOK
<1> HIDE DEF args, deads, vmas, indirect, base, next
<1>11. args \o deads \o vmas \o indirect \in Seq(Access)
  BY <1>6, <1>7, <1>8, Accesses
<1>12. bus' \in Seq(AccessType) /\ icount' \in Int
  BY <1>1, <1>11, BusTyped DEF DataOK
<1>13. ea' \in Word
  BY <1>2, <1>5, <1>10, HalvesTyped
<1> QED BY <1>9, <1>12, <1>13

LEMMA IndexedOK == CoreInv /\ INDEXED => CoreInv'
<1> SUFFICES ASSUME CoreInv, INDEXED PROVE CoreInv'
  OBVIOUS
<1>1. DataOK /\ ControlOK
  BY DEF CoreInv
<1>2. ControlOK'
  BY <1>1, ReturnOK DEF INDEXED, Calls
<1>3. Peek(PC(0)) \in Byte
  BY <1>1, PeeksTyped DEF DataOK
<1>4. bus' \in Seq(AccessType) /\ icount' \in Int /\ ea' \in Word /\ RegOK(reg')
  BY <1>1, <1>3, IndexedShortOK, IndexedLongOK DEF INDEXED
<1>5. DataOK'
  BY <1>1, <1>4 DEF DataOK, INDEXED, MemOK
<1> QED BY <1>2, <1>5 DEF CoreInv

-----------------------------------------------------------------------------
(***************************************************************************)
(* Instructions on one operand.                                            *)
(***************************************************************************)
LEMMA TestTyped ==
  ASSUME NEW f \in SUBSET Flags, NEW mask \in SUBSET Flags
  PROVE  /\ \A v \in Byte : Test8(f, mask, v).cc \in SUBSET Flags
         /\ \A v \in Word : Test16(f, mask, v).cc \in SUBSET Flags
<1>1. ASSUME NEW v \in Byte PROVE Test8(f, mask, v).cc \in SUBSET Flags
  <2>1. v \in Int
    BY ByteIs
  <2>2. Test8(f, mask, v) \in Result8
    BY <2>1, Test8Typed
  <2> QED BY <2>2 DEF Result8
<1>2. ASSUME NEW v \in Word PROVE Test16(f, mask, v).cc \in SUBSET Flags
  <2>1. v \in Int
    BY WordIs
  <2>2. Test16(f, mask, v) \in Result16
    BY <2>1, Test16Typed
  <2> QED BY <2>2 DEF Result16
<1> QED BY <1>1, <1>2

LEMMA ReadModifyWriteOK == CoreInv /\ ReadModifyWrite => CoreInv'
<1> SUFFICES ASSUME CoreInv, ReadModifyWrite PROVE CoreInv'
  OBVIOUS
<1> DEFINE r == Rmw(at, Operand, cc)
<1>1. /\ at \in RmwOps
      /\ Bus(OperandReads \o <<Rd(OperandPC, "dead")>> \o OperandWrites(r.value))
      /\ cc' = r.cc /\ reg' = OperandReg(r.value) /\ mem' = OperandMem(r.value)
      /\ Return /\ UNCHANGED <<lds, line, latches, freeRun>>
  BY DEF ReadModifyWrite
<1>2. DataOK /\ ControlOK /\ mode \in {"imm", "ea", "a", "b"}
  BY DEF CoreInv, ControlOK
<1>3. at \notin Calls \cup {"idle"}
  BY <1>1 DEF RmwOps, Calls
<1>4. ControlOK'
  BY <1>1, <1>3, Returns DEF latches
<1>5. r.value \in Byte /\ r.cc \in SUBSET Flags
  BY <1>1, <1>2, OperandTyped, RmwTyped DEF DataOK, Result8
<1> HIDE DEF r
<1>6. OperandReads \o <<Rd(OperandPC, "dead")>> \o OperandWrites(r.value) \in Seq(Access)
  <2>1. Rd(OperandPC, "dead") \in Access
    BY <1>2, OperandTyped, RdTyped DEF DataOK, Roles
  <2> QED BY <1>2, <1>5, <2>1, OperandTyped, Accesses
<1>7. bus' \in Seq(AccessType) /\ icount' \in Int
  BY <1>1, <1>2, <1>6, BusTyped DEF DataOK
<1>8. RegOK(reg') /\ MemOK(mem')
  BY <1>1, <1>2, <1>5, OperandTyped
<1>9. DataOK'
  BY <1>1, <1>2, <1>5, <1>7, <1>8 DEF DataOK, latches
<1> QED BY <1>4, <1>9 DEF CoreInv

LEMMA Xnc8OK == CoreInv /\ XNC8 => CoreInv'
<1> SUFFICES ASSUME CoreInv, XNC8 PROVE CoreInv'
  OBVIOUS
<1>1. PICK l \in {"COM8", "NEG8"} : Goto(l)
  BY DEF XNC8
<1>2. at = "XNC8" /\ UNCHANGED <<reg, cc, lds, line, mem, bus, icount, latches, freeRun>>
  BY DEF XNC8
<1>3. DataOK'
  BY <1>2 DEF CoreInv, DataOK, MemOK, RegOK, latches
<1>4. mode \in {"ea", "a", "b"}
  BY <1>2 DEF CoreInv, ControlOK, OperandsLatched
<1>5. OperandsLatched'
  BY <1>1, <1>2, <1>4 DEF Goto, OperandsLatched, latches, Alu8Ops, Alu16Ops
<1>6. /\ l \in Labels \ Calls /\ at \notin Calls \cup {"PUSH_REGISTERS", "idle"}
      /\ ControlOK
      /\ mode' \in {"imm", "ea", "a", "b"} /\ regop' \in {"none", "a", "b"} \cup Names16
  BY <1>1, <1>2 DEF Labels, WithOperand, RmwOps, Calls, CoreInv, ControlOK, latches
<1>7. ControlOK'
  BY <1>1, <1>5, <1>6, GotoOK
<1> QED BY <1>3, <1>7 DEF CoreInv

LEMMA Tst8OK == CoreInv /\ TST8 => CoreInv'
<1> SUFFICES ASSUME CoreInv, TST8 PROVE CoreInv'
  OBVIOUS
<1> DEFINE n == IF mode \in {"a", "b"} THEN 1 ELSE 2
<1>1. /\ at = "TST8"
      /\ Bus(OperandReads \o Vma(n))
      /\ cc' = Test8(cc, NZV, Operand).cc /\ reg' = At(OperandPC)
      /\ Return /\ UNCHANGED <<lds, line, mem, latches, freeRun>>
  BY DEF TST8
<1>2. DataOK /\ ControlOK /\ mode \in {"imm", "ea", "a", "b"} /\ n \in Nat
  BY DEF CoreInv, ControlOK
<1>3. ControlOK'
  BY <1>1, Returns DEF latches, Calls
<1> HIDE DEF n
<1>4. OperandReads \o Vma(n) \in Seq(Access)
  BY <1>2, OperandTyped, VmaTyped, Accesses DEF DataOK
<1>5. bus' \in Seq(AccessType) /\ icount' \in Int
  BY <1>1, <1>2, <1>4, BusTyped DEF DataOK
<1>6. cc' \in SUBSET Flags
  BY <1>1, <1>2, OperandTyped, TestTyped, MasksTyped DEF DataOK
<1>7. RegOK(reg')
  BY <1>1, <1>2, OperandTyped, AssignTyped
<1>8. DataOK'
  BY <1>1, <1>2, <1>5, <1>6, <1>7 DEF DataOK, MemOK, latches
<1> QED BY <1>3, <1>8 DEF CoreInv

LEMMA JmpOK == CoreInv /\ JMP => CoreInv'
<1> SUFFICES ASSUME CoreInv, JMP PROVE CoreInv'
  OBVIOUS
<1>1. ControlOK'
  BY Returns DEF JMP, latches, Calls
<1>2. RegOK(reg')
  BY AssignTyped DEF JMP, CoreInv, DataOK
<1>3. DataOK'
  BY <1>2 DEF JMP, CoreInv, DataOK, MemOK, latches
<1> QED BY <1>1, <1>3 DEF CoreInv

-----------------------------------------------------------------------------
(***************************************************************************)
(* Instructions on a register and an operand.                              *)
(***************************************************************************)
LEMMA Accumulate8OK == CoreInv /\ Accumulate8 => CoreInv'
<1> SUFFICES ASSUME CoreInv, Accumulate8 PROVE CoreInv'
  OBVIOUS
<1> DEFINE r == Alu8(at, RegOp, Operand, cc)
<1>1. /\ at \in Alu8Ops /\ Bus(OperandReads) /\ cc' = r.cc
      /\ reg' = IF at \in Compares8 THEN At(OperandPC) ELSE Assign(OperandPC, r.value)
      /\ Return /\ UNCHANGED <<lds, line, mem, latches, freeRun>>
  BY DEF Accumulate8
<1>2. DataOK /\ ControlOK /\ mode \in {"imm", "ea", "a", "b"} /\ regop \in {"a", "b"}
  BY <1>1 DEF CoreInv, ControlOK, OperandsLatched
<1>3. at \notin Calls \cup {"idle"}
  BY <1>1 DEF Alu8Ops, Calls
<1>4. ControlOK'
  BY <1>1, <1>3, Returns DEF latches
<1>5. r.value \in Byte /\ r.cc \in SUBSET Flags
  BY <1>1, <1>2, OperandTyped, RegOpTyped, Alu8Typed DEF DataOK, Result8
<1> HIDE DEF r
<1>6. bus' \in Seq(AccessType) /\ icount' \in Int
  BY <1>1, <1>2, OperandTyped, BusTyped DEF DataOK
<1>7. RegOK(reg')
  BY <1>1, <1>2, <1>5, OperandTyped, AssignTyped
<1>8. DataOK'
  BY <1>1, <1>2, <1>5, <1>6, <1>7 DEF DataOK, MemOK, latches
<1> QED BY <1>4, <1>8 DEF CoreInv

LEMMA Accumulate16OK == CoreInv /\ Accumulate16 => CoreInv'
<1> SUFFICES ASSUME CoreInv, Accumulate16 PROVE CoreInv'
  OBVIOUS
<1> DEFINE r == Alu16(at, RegOp, Operand16, cc)
           dead == IF at = "LD16" THEN <<>> ELSE <<Rd(OperandPC16, "dead")>>
<1>1. /\ at \in Alu16Ops /\ Bus(OperandReads16 \o dead) /\ cc' = r.cc
      /\ reg' = IF at \in Compares16 THEN At(OperandPC16) ELSE Assign(OperandPC16, r.value)
      /\ Return /\ UNCHANGED <<line, mem, latches, freeRun>> /\ lds' \in BOOLEAN
  BY DEF Accumulate16, CoreInv, DataOK
<1>2. DataOK /\ ControlOK /\ regop \in Names16
  BY <1>1 DEF CoreInv, ControlOK, OperandsLatched
<1>3. at \notin Calls \cup {"idle"}
  BY <1>1 DEF Alu16Ops, Calls
<1>4. ControlOK'
  BY <1>1, <1>3, Returns DEF latches
<1>5. r.value \in Word /\ r.cc \in SUBSET Flags
  BY <1>1, <1>2, Operand16Typed, RegOpTyped, Alu16Typed DEF DataOK, Result16
<1>6. dead \in Seq(Access)
  BY <1>2, Operand16Typed, RdTyped, Accesses DEF DataOK, Roles
<1> HIDE DEF r, dead
<1>7. OperandReads16 \o dead \in Seq(Access)
  BY <1>2, <1>6, Operand16Typed, Accesses
<1>8. bus' \in Seq(AccessType) /\ icount' \in Int
  BY <1>1, <1>2, <1>7, BusTyped DEF DataOK
<1>9. RegOK(reg')
  BY <1>1, <1>2, <1>5, Operand16Typed, AssignTyped
<1>10. DataOK'
  BY <1>1, <1>2, <1>5, <1>8, <1>9 DEF DataOK, MemOK, latches
<1> QED BY <1>4, <1>10 DEF CoreInv

LEMMA Store8OK == CoreInv /\ ST8 => CoreInv'
<1> SUFFICES ASSUME CoreInv, ST8 PROVE CoreInv'
  OBVIOUS
<1>1. DataOK /\ regop \in {"a", "b"}
  BY DEF CoreInv, ControlOK, OperandsLatched, ST8
<1>2. RegOp \in Byte /\ ea \in Word
  BY <1>1, RegOpTyped DEF DataOK
<1>3. ControlOK'
  BY Returns DEF ST8, latches, Calls
<1>4. <<Wr(ea, RegOp)>> \in Seq(Access)
  BY <1>2, WrTyped, Accesses
<1>5. bus' \in Seq(AccessType) /\ icount' \in Int
  BY <1>1, <1>4, BusTyped DEF DataOK, ST8
<1>6. MemOK(mem')
  BY <1>1, <1>2, StoredOneTyped DEF DataOK, ST8
<1>7. cc' \in SUBSET Flags
  BY <1>1, <1>2, TestTyped, MasksTyped DEF DataOK, ST8
<1>8. DataOK'
  BY <1>1, <1>5, <1>6, <1>7 DEF DataOK, ST8, RegOK, latches
<1> QED BY <1>3, <1>8 DEF CoreInv

LEMMA Store16OK == CoreInv /\ ST16 => CoreInv'
<1> SUFFICES ASSUME CoreInv, ST16 PROVE CoreInv'
  OBVIOUS
<1>1. DataOK /\ regop \in Names16
  BY DEF CoreInv, ControlOK, OperandsLatched, ST16
<1>2. RegOp \in Word /\ ea \in Word
  BY <1>1, RegOpTyped DEF DataOK
<1>3. ControlOK'
  BY Returns DEF ST16, latches, Calls
<1>4. Hi(RegOp) \in Byte /\ Lo(RegOp) \in Byte /\ ToWord(ea + 1) \in Word
  BY <1>2, HalvesTyped, ToWordTyped, WordIs
<1>5. <<Wr(ea, Hi(RegOp)), Wr(ToWord(ea + 1), Lo(RegOp))>> \in Seq(Access)
  BY <1>2, <1>4, WrTyped, Accesses
<1>6. bus' \in Seq(AccessType) /\ icount' \in Int
  BY <1>1, <1>5, BusTyped DEF DataOK, ST16
<1>7. MemOK(mem')
  BY <1>1, <1>2, <1>4, StoredTwoTyped DEF DataOK, ST16
<1>8. cc' \in SUBSET Flags
  BY <1>1, <1>2, TestTyped, MasksTyped DEF DataOK, ST16
<1>9. DataOK'
  BY <1>1, <1>6, <1>7, <1>8 DEF DataOK, ST16, RegOK, latches
<1> QED BY <1>3, <1>9 DEF CoreInv

LEMMA Xst8OK == CoreInv /\ XST8 => CoreInv'
<1> SUFFICES ASSUME CoreInv, XST8 PROVE CoreInv'
  OBVIOUS
<1>1. DataOK /\ regop \in {"a", "b"} /\ mode \in {"imm", "ea", "a", "b"}
  BY DEF CoreInv, ControlOK, OperandsLatched, XST8
<1>2. RegOp \in Byte
  BY <1>1, RegOpTyped
<1>3. ControlOK'
  BY Returns DEF XST8, latches, Calls
<1>4. bus' \in Seq(AccessType) /\ icount' \in Int
  BY <1>1, OperandTyped, BusTyped DEF DataOK, XST8
<1>5. cc' \in SUBSET Flags
  BY <1>1, <1>2, TestTyped, MasksTyped DEF DataOK, XST8
<1>6. RegOK(reg')
  BY <1>1, OperandTyped, AssignTyped DEF XST8
<1>7. DataOK'
  BY <1>1, <1>4, <1>5, <1>6 DEF DataOK, XST8, MemOK, latches
<1> QED BY <1>3, <1>7 DEF CoreInv

LEMMA Xst16OK == CoreInv /\ XST16 => CoreInv'
<1> SUFFICES ASSUME CoreInv, XST16 PROVE CoreInv'
  OBVIOUS
<1>1. DataOK /\ regop \in Names16 /\ mode \in {"imm", "ea", "a", "b"}
  BY DEF CoreInv, ControlOK, OperandsLatched, XST16
<1>2. RegOp \in Word /\ OperandPC \in Word
  BY <1>1, RegOpTyped, OperandTyped
<1>3. Lo(RegOp) \in Byte /\ ToWord(OperandPC + 1) \in Word
  BY <1>2, HalvesTyped, ToWordTyped, WordIs
<1>4. ControlOK'
  BY Returns DEF XST16, latches, Calls
<1>5. OperandReads \o <<Wr(OperandPC, Lo(RegOp))>> \in Seq(Access)
  BY <1>1, <1>2, <1>3, OperandTyped, WrTyped, Accesses
<1>6. bus' \in Seq(AccessType) /\ icount' \in Int
  BY <1>1, <1>5, BusTyped DEF DataOK, XST16
<1>7. MemOK(mem')
  BY <1>1, <1>2, <1>3, StoredOneTyped DEF DataOK, XST16
<1>8. cc' \in SUBSET Flags
  BY <1>1, <1>2, TestTyped, MasksTyped DEF DataOK, XST16
<1>9. RegOK(reg')
  BY <1>1, <1>3, AssignTyped DEF XST16
<1>10. DataOK'
  BY <1>1, <1>6, <1>7, <1>8, <1>9 DEF DataOK, XST16, latches
<1> QED BY <1>4, <1>10 DEF CoreInv

LEMMA LeaOK == CoreInv /\ (LEA_xy \/ LEA_us) => CoreInv'
<1> SUFFICES ASSUME CoreInv, LEA_xy \/ LEA_us PROVE CoreInv'
  OBVIOUS
<1>1. DataOK /\ regop \in Names16 /\ ea \in Word
  BY DEF CoreInv, DataOK, ControlOK, OperandsLatched, LEA_xy, LEA_us
<1>2. /\ at \in {"LEA_xy", "LEA_us"} /\ Bus(Vma(1)) /\ reg' = Assign(PC(0), ea)
      /\ Return /\ UNCHANGED <<line, mem, latches, freeRun>>
  BY DEF LEA_xy, LEA_us
<1>3. ControlOK'
  BY <1>2, Returns DEF latches, Calls
<1>4. bus' \in Seq(AccessType) /\ icount' \in Int
  BY <1>1, <1>2, VmaTyped, BusTyped DEF DataOK
<1>5. RegOK(reg')
  BY <1>1, <1>2, PCTyped, AssignTyped DEF DataOK
<1>6. cc' \in SUBSET Flags
  <2>1. CASE LEA_xy
    <3>1. cc' = Test16(cc, {"Z"}, ea).cc
      BY <2>1 DEF LEA_xy
    <3> QED BY <1>1, <3>1, TestTyped, MasksTyped DEF DataOK
  <2>2. CASE LEA_us
    BY <1>1, <2>2 DEF DataOK, LEA_us
  <2> QED BY <2>1, <2>2
<1>7. lds' \in BOOLEAN
  BY <1>1 DEF DataOK, LEA_xy, LEA_us
<1>8. DataOK'
  BY <1>1, <1>2, <1>4, <1>5, <1>6, <1>7 DEF DataOK, MemOK, latches
<1> QED BY <1>3, <1>8 DEF CoreInv

-----------------------------------------------------------------------------
(***************************************************************************)
(* Inherent instructions and the condition codes.                          *)
(***************************************************************************)
LEMMA DeadTyped ==
  ASSUME DataOK
  PROVE  /\ <<Dead(0)>> \in Seq(Access)
         /\ \A n \in Nat : <<Dead(0)>> \o Vma(n) \in Seq(Access)
<1>1. <<Dead(0)>> \in Seq(Access)
  BY ArgTyped, Accesses DEF DataOK
<1> QED BY <1>1, VmaTyped, Accesses DEF DataOK

LEMMA NopOK == CoreInv /\ NOP => CoreInv'
<1> SUFFICES ASSUME CoreInv, NOP PROVE CoreInv'
  OBVIOUS
<1>1. ControlOK'
  BY Returns DEF NOP, latches, Calls
<1>2. bus' \in Seq(AccessType) /\ icount' \in Int
  BY DeadTyped, BusTyped DEF CoreInv, DataOK, NOP
<1>3. DataOK'
  BY <1>2 DEF CoreInv, DataOK, NOP, MemOK, RegOK, latches
<1> QED BY <1>1, <1>3 DEF CoreInv

LEMMA DaaOK == CoreInv /\ DAA => CoreInv'
<1> SUFFICES ASSUME CoreInv, DAA PROVE CoreInv'
  OBVIOUS
<1>1. ControlOK'
  BY Returns DEF DAA, latches, Calls
<1>2. bus' \in Seq(AccessType) /\ icount' \in Int
  BY DeadTyped, BusTyped DEF CoreInv, DataOK, DAA
<1>3. Daa(reg["a"], cc) \in Result8
  BY RegTyped, DaaTyped DEF CoreInv, DataOK
<1>4. Daa(reg["a"], cc).value \in Byte /\ cc' \in SUBSET Flags
  BY <1>3 DEF DAA, Result8
<1>5. RegOK(reg')
  BY <1>4, SetReg8 DEF CoreInv, DataOK, DAA, Reg8
<1>6. DataOK'
  BY <1>2, <1>4, <1>5 DEF CoreInv, DataOK, DAA, MemOK, latches
<1> QED BY <1>1, <1>6 DEF CoreInv

LEMMA SexOK == CoreInv /\ SEX => CoreInv'
<1> SUFFICES ASSUME CoreInv, SEX PROVE CoreInv'
  OBVIOUS
<1>1. ControlOK'
  BY Returns DEF SEX, latches, Calls
<1>2. bus' \in Seq(AccessType) /\ icount' \in Int
  BY DeadTyped, BusTyped DEF CoreInv, DataOK, SEX
<1>3. Sex(reg["b"], cc) \in Result16
  BY RegTyped, SexTyped DEF CoreInv, DataOK
<1>4. Sex(reg["b"], cc).value \in Word /\ cc' \in SUBSET Flags
  BY <1>3 DEF SEX, Result16
<1>5. Hi(Sex(reg["b"], cc).value) \in Byte
  BY <1>4, HalvesTyped
<1>6. RegOK(reg')
  BY <1>5, SetReg8 DEF CoreInv, DataOK, SEX, Reg8
<1>7. DataOK'
  BY <1>2, <1>4, <1>6 DEF CoreInv, DataOK, SEX, MemOK, latches
<1> QED BY <1>1, <1>7 DEF CoreInv

LEMMA AbxOK == CoreInv /\ ABX => CoreInv'
<1> SUFFICES ASSUME CoreInv, ABX PROVE CoreInv'
  OBVIOUS
<1>1. ControlOK'
  BY Returns DEF ABX, latches, Calls
<1>2. bus' \in Seq(AccessType) /\ icount' \in Int
  BY DeadTyped, BusTyped DEF CoreInv, DataOK, ABX
<1>3. ToWord(reg["x"] + reg["b"]) \in Word
  <2>1. reg["x"] \in Word /\ reg["b"] \in Byte
    BY RegTyped DEF CoreInv, DataOK
  <2>2. reg["x"] + reg["b"] \in Int
    BY <2>1, ByteIs, WordIs
  <2> QED BY <2>2, ToWordTyped
<1>4. RegOK(reg')
  BY <1>3, SetReg16 DEF CoreInv, DataOK, ABX, Reg16
<1>5. DataOK'
  BY <1>2, <1>4 DEF CoreInv, DataOK, ABX, MemOK, latches
<1> QED BY <1>1, <1>5 DEF CoreInv

LEMMA MulOK == CoreInv /\ MUL => CoreInv'
<1> SUFFICES ASSUME CoreInv, MUL PROVE CoreInv'
  OBVIOUS
<1> DEFINE r == Mul(reg["a"], reg["b"], cc)
           q == [reg EXCEPT !["a"] = Hi(r.value)]
<1>1. ControlOK'
  BY Returns DEF MUL, latches, Calls
<1>2. bus' \in Seq(AccessType) /\ icount' \in Int
  BY DeadTyped, BusTyped DEF CoreInv, DataOK, MUL
<1>3. reg' = [q EXCEPT !["b"] = Lo(r.value)] /\ cc' = r.cc
  BY DEF MUL
<1>4. r \in Result16
  BY RegTyped, MulTyped DEF CoreInv, DataOK
<1> HIDE DEF r
<1>5. r.value \in Word /\ r.cc \in SUBSET Flags
  BY <1>4 DEF Result16
<1>6. Hi(r.value) \in Byte /\ Lo(r.value) \in Byte
  BY <1>5, HalvesTyped
<1>7. RegOK(q)
  BY <1>6, SetReg8 DEF CoreInv, DataOK, Reg8
<1> HIDE DEF q
<1>8. RegOK(reg')
  BY <1>3, <1>6, <1>7, SetReg8 DEF Reg8
<1>9. DataOK'
  BY <1>2, <1>3, <1>5, <1>8 DEF CoreInv, DataOK, MUL, MemOK, latches
<1> QED BY <1>1, <1>9 DEF CoreInv

LEMMA FlagMasksOK == CoreInv /\ (ORCC \/ ANDCC) => CoreInv'
<1> SUFFICES ASSUME CoreInv, ORCC \/ ANDCC PROVE CoreInv'
  OBVIOUS
<1>1. /\ at \in {"ORCC", "ANDCC"} /\ Bus(OperandReads \o <<Rd(OperandPC, "dead")>>)
      /\ reg' = At(OperandPC)
      /\ Return /\ UNCHANGED <<lds, line, mem, latches, freeRun>>
  BY DEF ORCC, ANDCC
<1>2. DataOK /\ mode \in {"imm", "ea", "a", "b"}
  BY DEF CoreInv, ControlOK
<1>3. ControlOK'
  BY <1>1, Returns DEF latches, Calls
<1>4. Rd(OperandPC, "dead") \in Access
  BY <1>2, OperandTyped, RdTyped DEF DataOK, Roles
<1>5. OperandReads \o <<Rd(OperandPC, "dead")>> \in Seq(Access)
  BY <1>2, <1>4, OperandTyped, Accesses
<1>6. bus' \in Seq(AccessType) /\ icount' \in Int
  BY <1>1, <1>2, <1>5, BusTyped DEF DataOK
<1>7. cc' \in SUBSET Flags
  BY <1>2, CCSetTyped DEF DataOK, ORCC, ANDCC
<1>8. RegOK(reg')
  BY <1>1, <1>2, OperandTyped, AssignTyped
<1>9. DataOK'
  BY <1>1, <1>2, <1>6, <1>7, <1>8 DEF DataOK, MemOK, latches
<1> QED BY <1>3, <1>9 DEF CoreInv

LEMMA XandccOK == CoreInv /\ XANDCC => CoreInv'
<1> SUFFICES ASSUME CoreInv, XANDCC PROVE CoreInv'
  OBVIOUS
<1>1. mode = "imm"
  BY DEF CoreInv, ControlOK, OperandsLatched, XANDCC
<1>2. OperandsLatched'
  BY <1>1 DEF XANDCC, Goto, OperandsLatched, latches, RmwOps, Alu8Ops, Alu16Ops
<1>3. /\ "ANDCC" \in Labels \ Calls /\ at \notin Calls \cup {"PUSH_REGISTERS", "idle"}
      /\ ControlOK /\ Goto("ANDCC")
      /\ mode' \in {"imm", "ea", "a", "b"} /\ regop' \in {"none", "a", "b"} \cup Names16
  BY DEF XANDCC, Labels, Calls, CoreInv, ControlOK, latches
<1>4. ControlOK'
  BY <1>2, <1>3, GotoOK
<1>5. DataOK'
  BY DEF XANDCC, CoreInv, DataOK, MemOK, RegOK, latches
<1> QED BY <1>4, <1>5 DEF CoreInv

LEMMA X18OK == CoreInv /\ X18 => CoreInv'
<1> SUFFICES ASSUME CoreInv, X18 PROVE CoreInv'
  OBVIOUS
<1>1. ControlOK'
  BY Returns DEF X18, latches, Calls
<1>2. <<Rd(PC(0), "data")>> \in Seq(Access)
  BY PCTyped, RdTyped, Accesses DEF CoreInv, DataOK, Roles
<1>3. bus' \in Seq(AccessType) /\ icount' \in Int
  BY <1>2, BusTyped DEF CoreInv, DataOK, X18
<1>4. cc' \in SUBSET Flags
  BY CCSetTyped DEF X18, When, Flags
<1>5. DataOK'
  BY <1>3, <1>4 DEF CoreInv, DataOK, X18, MemOK, RegOK, latches
<1> QED BY <1>1, <1>5 DEF CoreInv

LEMMA FreeRunOK == CoreInv /\ FREERUN => CoreInv'
<1> SUFFICES ASSUME CoreInv, FREERUN PROVE CoreInv'
  OBVIOUS
<1>1. ControlOK'
  BY Returns DEF FREERUN, latches, Calls
<1>2. DataOK'
  BY DEF CoreInv, DataOK, FREERUN, MemOK, RegOK, latches
<1> QED BY <1>1, <1>2 DEF CoreInv

-----------------------------------------------------------------------------
(***************************************************************************)
(* EXG and TFR.                                                            *)
(***************************************************************************)
LEMMA ExgTfrReadTyped ==
  ASSUME DataOK, NEW code \in 0..15
  PROVE  ExgTfrRead(code) \in Word
<1>1. CASE code = 0
  BY <1>1, RegOpTyped DEF ExgTfrRead
<1>2. CASE code \in {1, 2, 3, 4}
  <2> DEFINE n == <<"x", "y", "u", "s">>[code]
  <2>1. n \in {"x", "y", "u", "s"}
    BY <1>2
  <2>2. ExgTfrRead(code) = reg[n]
    BY <1>2 DEF ExgTfrRead
  <2> HIDE DEF n
  <2> QED BY <2>1, <2>2, RegTyped DEF DataOK
<1>3. CASE code = 5
  BY <1>3, PCTyped DEF ExgTfrRead, DataOK
<1>4. CASE code \in {8, 9, 11}
  <2>1. PICK v \in Byte : ExgTfrRead(code) = Pair(\hFF, v)
    BY <1>4, RegTyped DEF ExgTfrRead, DataOK
  <2>2. \hFF \in Byte
    BY ByteIs
  <2> QED BY <2>1, <2>2, HalvesTyped
<1>5. CASE code = 10
  <2>1. ExgTfrRead(code) = Pair(\hFF, CCByte(cc))
    BY <1>5 DEF ExgTfrRead
  <2>2. \hFF \in Byte /\ CCByte(cc) \in Byte
    BY ByteIs, CCByteTyped
  <2> QED BY <2>1, <2>2, HalvesTyped
<1>6. CASE code \in {6, 7, 12, 13, 14, 15}
  <2>1. ExgTfrRead(code) = \hFFFF
    BY <1>6 DEF ExgTfrRead
  <2> QED BY <2>1, WordIs
<1> QED BY <1>1, <1>2, <1>3, <1>4, <1>5, <1>6

LEMMA ExgTfrRegTyped ==
  ASSUME NEW r, RegOK(r), NEW code \in 0..15, NEW v \in Word
  PROVE  RegOK(ExgTfrReg(r, code, v))
<1>1. Hi(v) \in Byte /\ Lo(v) \in Byte
  BY HalvesTyped
<1>2. CASE code = 0
  <2> DEFINE q == [r EXCEPT !["a"] = Hi(v)]
  <2>1. RegOK(q)
    BY <1>1, SetReg8 DEF Reg8
  <2>2. ExgTfrReg(r, code, v) = [q EXCEPT !["b"] = Lo(v)]
    BY <1>2 DEF ExgTfrReg
  <2> HIDE DEF q
  <2> QED BY <1>1, <2>1, <2>2, SetReg8, ZenonT(40) DEF Reg8
<1>3. CASE code \in {1, 2, 3, 4, 5}
  <2> DEFINE n == <<"x", "y", "u", "s", "pc">>[code]
  <2>1. n \in Reg16
    BY <1>3 DEF Reg16
  <2>2. ExgTfrReg(r, code, v) = [r EXCEPT ![n] = v]
    BY <1>3 DEF ExgTfrReg
  <2> HIDE DEF n
  <2>3. RegOK([r EXCEPT ![n] = v])
    BY <2>1, SetReg16
  <2> QED BY <2>2, <2>3
<1>4. CASE code \in {8, 9, 11}
  <2>1. PICK n \in Reg8 : ExgTfrReg(r, code, v) = [r EXCEPT ![n] = Lo(v)]
    BY <1>4 DEF ExgTfrReg, Reg8
  <2>2. RegOK([r EXCEPT ![n] = Lo(v)])
    BY <1>1, SetReg8
  <2> QED BY <2>1, <2>2
<1>5. CASE code \in {6, 7, 10, 12, 13, 14, 15}
  BY <1>5 DEF ExgTfrReg
<1> QED BY <1>2, <1>3, <1>4, <1>5

LEMMA ExgTfrCCTyped ==
  ASSUME NEW f \in SUBSET Flags, NEW code, NEW v
  PROVE  ExgTfrCC(f, code, v) \in SUBSET Flags
  BY CCSetTyped DEF ExgTfrCC

\* What EXG and TFR read: the digits of the postbyte and their registers.
LEMMA ExgTfrOperands ==
  ASSUME DataOK
  PROVE  /\ Row(Peek(PC(0))) \in 0..15 /\ Col(Peek(PC(0))) \in 0..15
         /\ ExgTfrRead(Row(Peek(PC(0)))) \in Word
         /\ ExgTfrRead(Col(Peek(PC(0)))) \in Word
         /\ RegOK(At(PC(1)))
         /\ \A n \in Nat : <<Arg(0)>> \o Vma(n) \in Seq(Access)
<1>1. Peek(PC(0)) \in Byte /\ PC(1) \in Word
  BY PeeksTyped, PCTyped DEF DataOK
<1>2. Row(Peek(PC(0))) \in 0..15 /\ Col(Peek(PC(0))) \in 0..15
  BY <1>1, DigitsTyped
<1>3. <<Arg(0)>> \in Seq(Access)
  BY ArgTyped, Accesses DEF DataOK
<1>4. \A n \in Nat : <<Arg(0)>> \o Vma(n) \in Seq(Access)
  BY <1>3, VmaTyped, Accesses DEF DataOK
<1>5. ExgTfrRead(Row(Peek(PC(0)))) \in Word /\ ExgTfrRead(Col(Peek(PC(0)))) \in Word
  BY <1>2, ExgTfrReadTyped
<1>6. RegOK(At(PC(1)))
  BY <1>1, AssignTyped
<1> QED BY <1>2, <1>4, <1>5, <1>6

LEMMA ExgOK == CoreInv /\ EXG => CoreInv'
<1> SUFFICES ASSUME CoreInv, EXG PROVE CoreInv'
  OBVIOUS
<1> DEFINE high == Row(Peek(PC(0)))  low == Col(Peek(PC(0)))
           v1 == ExgTfrRead(high)    v2 == ExgTfrRead(low)
           r == ExgTfrReg(At(PC(1)), low, v1)
           f == ExgTfrCC(cc, low, v1)
<1>1. ControlOK'
  BY Returns DEF EXG, latches, Calls
<1>2. /\ reg' = ExgTfrReg(r, high, v2) /\ cc' = ExgTfrCC(f, high, v2)
      /\ Bus(<<Arg(0)>> \o Vma(6)) /\ UNCHANGED <<lds, line, mem, latches, freeRun>>
  BY DEF EXG
<1>3. DataOK
  BY DEF CoreInv
<1>4. /\ high \in 0..15 /\ low \in 0..15 /\ v1 \in Word /\ v2 \in Word
      /\ RegOK(At(PC(1))) /\ <<Arg(0)>> \o Vma(6) \in Seq(Access)
  BY <1>3, ExgTfrOperands
<1> HIDE DEF high, low, v1, v2
<1>5. bus' \in Seq(AccessType) /\ icount' \in Int
  BY <1>2, <1>3, <1>4, BusTyped DEF DataOK
<1>6. RegOK(r)
  BY <1>4, ExgTfrRegTyped
<1>7. f \in SUBSET Flags
  BY <1>3, ExgTfrCCTyped DEF DataOK
<1> HIDE DEF r, f
<1>8. RegOK(reg') /\ cc' \in SUBSET Flags
  BY <1>2, <1>4, <1>6, <1>7, ExgTfrRegTyped, ExgTfrCCTyped
<1>9. DataOK'
  BY <1>2, <1>3, <1>5, <1>8 DEF DataOK, MemOK, latches
<1> QED BY <1>1, <1>9 DEF CoreInv

LEMMA TfrOK == CoreInv /\ TFR => CoreInv'
<1> SUFFICES ASSUME CoreInv, TFR PROVE CoreInv'
  OBVIOUS
<1> DEFINE high == Row(Peek(PC(0)))  low == Col(Peek(PC(0)))
           v == ExgTfrRead(high)
<1>1. ControlOK'
  BY Returns DEF TFR, latches, Calls
<1>2. /\ reg' = ExgTfrReg(At(PC(1)), low, v) /\ cc' = ExgTfrCC(cc, low, v)
      /\ Bus(<<Arg(0)>> \o Vma(4)) /\ UNCHANGED <<line, mem, latches, freeRun>>
      /\ lds' \in BOOLEAN
  BY DEF TFR, CoreInv, DataOK
<1>3. DataOK
  BY DEF CoreInv
<1>4. /\ high \in 0..15 /\ low \in 0..15 /\ v \in Word
      /\ RegOK(At(PC(1))) /\ <<Arg(0)>> \o Vma(4) \in Seq(Access)
  BY <1>3, ExgTfrOperands
<1> HIDE DEF high, low, v
<1>5. bus' \in Seq(AccessType) /\ icount' \in Int
  BY <1>2, <1>3, <1>4, BusTyped DEF DataOK
<1>6. RegOK(reg') /\ cc' \in SUBSET Flags
  BY <1>2, <1>3, <1>4, ExgTfrRegTyped, ExgTfrCCTyped DEF DataOK
<1>7. DataOK'
  BY <1>2, <1>3, <1>5, <1>6 DEF DataOK, MemOK, latches
<1> QED BY <1>1, <1>7 DEF CoreInv

-----------------------------------------------------------------------------
(***************************************************************************)
(* Branches and subroutines.                                               *)
(***************************************************************************)
LEMMA OffsetTyped ==
  ASSUME DataOK
  PROVE  /\ ToWord(PC(1) + Signed8(Peek(PC(0)))) \in Word
         /\ ToWord(PC(2) + Pair(Peek(PC(0)), Peek(PC(1)))) \in Word
         /\ ToWord(PC(2) + Signed16(Pair(Peek(PC(0)), Peek(PC(1))))) \in Word
<1>1. PC(1) \in Int /\ PC(2) \in Int
  BY PCTyped, WordIs DEF DataOK
<1>2. Peek(PC(0)) \in Byte /\ Pair(Peek(PC(0)), Peek(PC(1))) \in Word
  BY PeeksTyped DEF DataOK
<1>3. /\ Signed8(Peek(PC(0))) \in Int
      /\ Pair(Peek(PC(0)), Peek(PC(1))) \in Int
      /\ Signed16(Pair(Peek(PC(0)), Peek(PC(1)))) \in Int
  BY <1>2, SignedTyped, WordIs
<1> QED BY <1>1, <1>3, ToWordTyped

LEMMA ArgsTyped ==
  ASSUME DataOK
  PROVE  \A n \in Nat : /\ <<Arg(0)>> \o Vma(n) \in Seq(Access)
                       /\ <<Arg(0), Arg(1)>> \o Vma(n) \in Seq(Access)
<1>1. <<Arg(0)>> \in Seq(Access) /\ <<Arg(0), Arg(1)>> \in Seq(Access)
  BY ArgTyped, Accesses DEF DataOK
<1> QED BY <1>1, VmaTyped, Accesses DEF DataOK

LEMMA BranchOK == CoreInv /\ BRANCH => CoreInv'
<1> SUFFICES ASSUME CoreInv, BRANCH PROVE CoreInv'
  OBVIOUS
<1>1. ControlOK'
  BY Returns DEF BRANCH, latches, Calls
<1>2. bus' \in Seq(AccessType) /\ icount' \in Int
  BY ArgsTyped, BusTyped DEF CoreInv, DataOK, BRANCH
<1>3. PC(1) \in Word /\ ToWord(PC(1) + Signed8(Peek(PC(0)))) \in Word
  BY PCTyped, OffsetTyped DEF CoreInv, DataOK
<1>4. RegOK(reg')
  BY <1>3, AssignTyped DEF CoreInv, BRANCH
<1>5. DataOK'
  BY <1>2, <1>4 DEF CoreInv, DataOK, BRANCH, MemOK, latches
<1> QED BY <1>1, <1>5 DEF CoreInv

LEMMA LbranchOK == CoreInv /\ LBRANCH => CoreInv'
<1> SUFFICES ASSUME CoreInv, LBRANCH PROVE CoreInv'
  OBVIOUS
<1> DEFINE n == IF cond THEN 2 ELSE 1
           t == ToWord(PC(2) + Pair(Peek(PC(0)), Peek(PC(1))))
<1>1. ControlOK'
  BY Returns DEF LBRANCH, latches, Calls
<1>2. /\ Bus(<<Arg(0), Arg(1)>> \o Vma(n)) /\ reg' = At(IF cond THEN t ELSE PC(2))
      /\ UNCHANGED <<cc, lds, line, mem, latches, freeRun>>
  BY DEF LBRANCH
<1>3. n \in Nat
  OBVIOUS
<1>4. PC(2) \in Word /\ t \in Word
  BY PCTyped, OffsetTyped DEF CoreInv, DataOK
<1> HIDE DEF n, t
<1>5. bus' \in Seq(AccessType) /\ icount' \in Int
  BY <1>2, <1>3, ArgsTyped, BusTyped DEF CoreInv, DataOK
<1>6. RegOK(reg')
  BY <1>2, <1>4, AssignTyped DEF CoreInv
<1>7. DataOK'
  BY <1>2, <1>5, <1>6 DEF CoreInv, DataOK, MemOK, latches
<1> QED BY <1>1, <1>7 DEF CoreInv

LEMMA BsrOK == CoreInv /\ (BSR \/ LBSR) => CoreInv'
<1> SUFFICES ASSUME CoreInv, BSR \/ LBSR PROVE CoreInv'
  OBVIOUS
<1>1. /\ at \in {"BSR", "LBSR"} /\ Goto("GOTO_SUBROUTINE")
      /\ UNCHANGED <<cc, lds, line, mem, mode, regop, temp, cond, freeRun>>
  BY DEF BSR, LBSR
<1>2. ControlOK'
  BY <1>1, Jumps DEF Unlatched, Calls
<1>3. bus' \in Seq(AccessType) /\ icount' \in Int
  BY ArgsTyped, BusTyped DEF CoreInv, DataOK, BSR, LBSR
<1>4. ea' \in Word
  BY OffsetTyped DEF CoreInv, BSR, LBSR
<1>5. PC(1) \in Word /\ PC(2) \in Word
  BY PCTyped DEF CoreInv, DataOK
<1>6. RegOK(reg')
  BY <1>5, AssignTyped DEF CoreInv, BSR, LBSR
<1>7. DataOK'
  BY <1>1, <1>3, <1>4, <1>6 DEF CoreInv, DataOK, MemOK
<1> QED BY <1>2, <1>7 DEF CoreInv

LEMMA JsrOK == CoreInv /\ JSR => CoreInv'
<1> SUFFICES ASSUME CoreInv, JSR PROVE CoreInv'
  OBVIOUS
<1>1. ControlOK'
  BY Jumps DEF JSR, Unlatched, Calls, latches
<1>2. bus' \in Seq(AccessType) /\ icount' \in Int
  BY DeadTyped, BusTyped DEF CoreInv, DataOK, JSR
<1>3. DataOK'
  BY <1>2 DEF CoreInv, DataOK, JSR, MemOK, RegOK, latches
<1> QED BY <1>1, <1>3 DEF CoreInv

LEMMA GotoSubroutineOK == CoreInv /\ GOTO_SUBROUTINE => CoreInv'
<1> SUFFICES ASSUME CoreInv, GOTO_SUBROUTINE PROVE CoreInv'
  OBVIOUS
<1> DEFINE s1 == ToWord(reg["s"] - 1)  s2 == ToWord(reg["s"] - 2)
           lo == Lo(reg["pc"])         hi == Hi(reg["pc"])
           r == [reg EXCEPT !["pc"] = ea]
<1>1. ControlOK'
  BY Returns DEF GOTO_SUBROUTINE, latches, Calls
<1>2. /\ Bus(<<Wr(s1, lo), Wr(s2, hi)>>) /\ mem' = Stored(s2, <<hi, lo>>)
      /\ reg' = [r EXCEPT !["s"] = s2]
      /\ UNCHANGED <<cc, lds, line, latches, freeRun>>
  BY DEF GOTO_SUBROUTINE
<1>3. DataOK
  BY DEF CoreInv
<1>4. s1 \in Word /\ s2 \in Word
  <2>1. reg["s"] \in Int
    BY <1>3, RegTyped, WordIs DEF DataOK
  <2> QED BY <2>1, ToWordTyped
<1>5. lo \in Byte /\ hi \in Byte
  BY <1>3, RegTyped, HalvesTyped DEF DataOK
<1>6. RegOK(r)
  BY <1>3, SetReg16 DEF DataOK, Reg16
<1> HIDE DEF s1, s2, lo, hi, r
<1>7. RegOK(reg')
  BY <1>2, <1>4, <1>6, SetReg16 DEF Reg16
<1>8. MemOK(mem')
  BY <1>2, <1>3, <1>4, <1>5, StoredTwoTyped DEF DataOK
<1>9. bus' \in Seq(AccessType) /\ icount' \in Int
  BY <1>2, <1>3, <1>4, <1>5, WrTyped, Accesses, BusTyped DEF DataOK
<1>10. DataOK'
  BY <1>2, <1>3, <1>7, <1>8, <1>9 DEF DataOK, latches
<1> QED BY <1>1, <1>10 DEF CoreInv

-----------------------------------------------------------------------------
(***************************************************************************)
(* Pushing and pulling registers.                                          *)
(***************************************************************************)
LEMMA FrameTyped ==
  ASSUME DataOK, regop \in {"s", "u"}, NEW mask
  PROVE  /\ Frame(mask) \in Seq(Byte)
         /\ Len(Frame(mask)) = Offset(mask, 256) /\ Len(Frame(mask)) <= 12
         /\ Has(mask, \h80) => /\ Frame(mask)[Len(Frame(mask)) - 1] = Hi(reg["pc"])
                               /\ Frame(mask)[Len(Frame(mask))] = Lo(reg["pc"])
<1> DEFINE one(m, v) == IF Has(mask, m) THEN <<v>> ELSE <<>>
           two(m, v) == IF Has(mask, m) THEN <<Hi(v), Lo(v)>> ELSE <<>>
           n1(m) == IF Has(mask, m) THEN 1 ELSE 0
           n2(m) == IF Has(mask, m) THEN 2 ELSE 0
<1>1. ASSUME NEW m, NEW v \in Byte
      PROVE  one(m, v) \in Seq(Byte) /\ Len(one(m, v)) = n1(m)
  <2>1. CASE Has(mask, m)
    BY <2>1
  <2>2. CASE ~Has(mask, m)
    BY <2>2
  <2> QED BY <2>1, <2>2
<1>2. ASSUME NEW m, NEW v \in Word
      PROVE  two(m, v) \in Seq(Byte) /\ Len(two(m, v)) = n2(m)
  <2>1. Hi(v) \in Byte /\ Lo(v) \in Byte
    BY HalvesTyped
  <2>2. CASE Has(mask, m)
    BY <2>1, <2>2
  <2>3. CASE ~Has(mask, m)
    BY <2>3
  <2> QED BY <2>2, <2>3
<1> DEFINE f1 == one(\h01, CCByte(cc))  f2 == one(\h02, reg["a"])
           f3 == one(\h04, reg["b"])    f4 == one(\h08, reg["dp"])
           f5 == two(\h10, reg["x"])    f6 == two(\h20, reg["y"])
           f7 == two(\h40, reg[OtherStack])  f8 == two(\h80, reg["pc"])
           half == f1 \o f2 \o f3 \o f4
           head == half \o f5 \o f6 \o f7
<1>3. Frame(mask) = head \o f8
  BY DEF Frame
<1>4. /\ CCByte(cc) \in Byte /\ reg["a"] \in Byte /\ reg["b"] \in Byte
      /\ reg["dp"] \in Byte /\ reg["x"] \in Word /\ reg["y"] \in Word
      /\ reg[OtherStack] \in Word /\ reg["pc"] \in Word
  BY CCByteTyped, RegTyped DEF DataOK, OtherStack
<1>5. Has(mask, \h80) => f8 = <<Hi(reg["pc"]), Lo(reg["pc"])>>
  OBVIOUS
<1>6. Offset(mask, 256) = n1(1) + n1(2) + n1(4) + n1(8) + n2(16) + n2(32) + n2(64) + n2(128)
  BY DEF Offset
<1>7. \A m : n1(m) \in {0, 1} /\ n2(m) \in {0, 2} /\ (Has(mask, m) => n2(m) = 2)
  OBVIOUS
<1> HIDE DEF one, two, n1, n2
<1>8. /\ f1 \in Seq(Byte) /\ f2 \in Seq(Byte) /\ f3 \in Seq(Byte) /\ f4 \in Seq(Byte)
      /\ f5 \in Seq(Byte) /\ f6 \in Seq(Byte) /\ f7 \in Seq(Byte) /\ f8 \in Seq(Byte)
  BY <1>1, <1>2, <1>4
<1>9. /\ Len(f1) = n1(1) /\ Len(f2) = n1(2) /\ Len(f3) = n1(4) /\ Len(f4) = n1(8)
      /\ Len(f5) = n2(16) /\ Len(f6) = n2(32) /\ Len(f7) = n2(64) /\ Len(f8) = n2(128)
  BY <1>1, <1>2, <1>4
<1> HIDE DEF f1, f2, f3, f4, f5, f6, f7, f8
<1>10. \A p, q \in Seq(Byte) : p \o q \in Seq(Byte) /\ Len(p \o q) = Len(p) + Len(q)
  OBVIOUS
<1>11. half \in Seq(Byte) /\ Len(half) = Len(f1) + Len(f2) + Len(f3) + Len(f4)
  BY <1>8, <1>10
<1> HIDE DEF half
<1>12. head \in Seq(Byte) /\ Len(head) = Len(half) + Len(f5) + Len(f6) + Len(f7)
  <2>1. half \in Seq(Byte)
    BY <1>11
  <2> QED BY <1>8, <1>10, <2>1
<1> HIDE DEF head
<1>13. head \o f8 \in Seq(Byte) /\ Len(head \o f8) = Len(head) + Len(f8)
  BY <1>8, <1>10, <1>12
<1>14. Len(head \o f8) = Offset(mask, 256) /\ Len(head \o f8) <= 12
  <2>1. Len(head \o f8) = n1(1) + n1(2) + n1(4) + n1(8) + n2(16) + n2(32) + n2(64) + n2(128)
    BY <1>9, <1>11, <1>12, <1>13
  <2>2. /\ n1(1) \in 0..1 /\ n1(2) \in 0..1 /\ n1(4) \in 0..1 /\ n1(8) \in 0..1
        /\ n2(16) \in 0..2 /\ n2(32) \in 0..2 /\ n2(64) \in 0..2 /\ n2(128) \in 0..2
    BY DEF n1, n2
  <2> QED BY <1>6, <2>1, <2>2, SMTT(30)
<1>15. ASSUME Has(mask, \h80)
       PROVE  /\ (head \o f8)[Len(head \o f8) - 1] = Hi(reg["pc"])
              /\ (head \o f8)[Len(head \o f8)] = Lo(reg["pc"])
  <2>1. f8[1] = Hi(reg["pc"]) /\ f8[2] = Lo(reg["pc"]) /\ Len(f8) = 2
    BY <1>5, <1>7, <1>9, <1>15
  <2>2. Len(head) \in Nat /\ Len(head \o f8) = Len(head) + 2
    BY <1>12, <1>13, <2>1
  <2>3. /\ (head \o f8)[Len(head) + 1] = f8[1]
        /\ (head \o f8)[Len(head) + 2] = f8[2]
    <3>1. \A p, q \in Seq(Byte) : \A i \in 1..Len(q) : (p \o q)[Len(p) + i] = q[i]
      OBVIOUS
    <3>2. 1 \in 1..Len(f8) /\ 2 \in 1..Len(f8) /\ head \in Seq(Byte) /\ f8 \in Seq(Byte)
      BY <1>8, <1>12, <2>1
    <3> QED BY <3>1, <3>2
  <2>4. Len(head) + 2 - 1 = Len(head) + 1
    BY <2>2
  <2> QED BY <2>1, <2>2, <2>3, <2>4
<1> QED BY <1>3, <1>13, <1>14, <1>15

LEMMA PushRegistersOK == CoreInv /\ PUSH_REGISTERS => CoreInv'
<1> SUFFICES ASSUME CoreInv, PUSH_REGISTERS PROVE CoreInv'
  OBVIOUS
<1> DEFINE frame == Frame(temp)
           n == Len(frame)
           sp == ToWord(reg[regop] - n)
           writes == [k \in 1..n |-> Wr(ToWord(reg[regop] - k), frame[n + 1 - k])]
<1>1. ControlOK'
  BY Returns DEF PUSH_REGISTERS, latches, Calls
<1>2. /\ Bus(writes) /\ mem' = Stored(sp, frame) /\ reg' = [reg EXCEPT ![regop] = sp]
      /\ UNCHANGED <<cc, lds, line, latches, freeRun>>
  BY DEF PUSH_REGISTERS
<1>3. DataOK /\ regop \in {"s", "u"}
  BY DEF CoreInv, ControlOK, OperandsLatched, PUSH_REGISTERS
<1>4. frame \in Seq(Byte) /\ n <= 12
  BY <1>3, FrameTyped
<1> HIDE DEF frame
<1>5. n \in Nat /\ reg[regop] \in Int
  BY <1>3, <1>4, RegTyped, WordIs DEF DataOK
<1>6. ASSUME NEW k \in 1..n
      PROVE  Wr(ToWord(reg[regop] - k), frame[n + 1 - k]) \in Access
  <2>1. ToWord(reg[regop] - k) \in Word
    BY <1>5, ToWordTyped
  <2>2. frame[n + 1 - k] \in Byte
    BY <1>4, <1>5
  <2> QED BY <2>1, <2>2, WrTyped
<1>7. writes \in Seq(Access)
  BY <1>5, <1>6
<1>8. sp \in Word
  BY <1>5, ToWordTyped
<1> HIDE DEF writes, sp, n
<1>9. bus' \in Seq(AccessType) /\ icount' \in Int
  BY <1>2, <1>3, <1>7, BusTyped DEF DataOK
<1>10. MemOK(mem')
  <2>1. Len(frame) <= 65536
    BY <1>4, <1>5 DEF n
  <2> QED BY <1>2, <1>3, <1>4, <1>8, <2>1, StoredTyped DEF DataOK
<1>11. RegOK(reg')
  BY <1>2, <1>3, <1>8, SetReg16 DEF DataOK, Reg16
<1>12. DataOK'
  BY <1>2, <1>3, <1>9, <1>10, <1>11 DEF DataOK, latches
<1> QED BY <1>1, <1>12 DEF CoreInv

LEMMA OffsetIsNat == \A mask, m : m \in Int => Offset(mask, m) \in Nat
  BY DEF Offset

LEMMA PullRegistersOK == CoreInv /\ PULL_REGISTERS => CoreInv'
<1> SUFFICES ASSUME CoreInv, PULL_REGISTERS PROVE CoreInv'
  OBVIOUS
<1> DEFINE n == Offset(temp, 256)
           sp(k) == ToWord(reg[regop] + k)
           byte(m, old) == IF Has(temp, m) THEN Peek(sp(Offset(temp, m))) ELSE old
           word(m, old) == IF Has(temp, m)
                           THEN Pair(Peek(sp(Offset(temp, m))), Peek(sp(Offset(temp, m) + 1)))
                           ELSE old
           reads == [k \in 1..n |-> Rd(sp(k - 1), "data")] \o <<Rd(sp(n), "dead")>>
           a  == byte(\h02, reg["a"])   b == byte(\h04, reg["b"])
           dp == byte(\h08, reg["dp"])  x == word(\h10, reg["x"])
           y  == word(\h20, reg["y"])   o == word(\h40, reg[OtherStack])
           pc == word(\h80, reg["pc"])
           r1 == [reg EXCEPT !["a"] = a]  r2 == [r1 EXCEPT !["b"] = b]
           r3 == [r2 EXCEPT !["dp"] = dp] r4 == [r3 EXCEPT !["x"] = x]
           r5 == [r4 EXCEPT !["y"] = y]   r6 == [r5 EXCEPT ![OtherStack] = o]
           r7 == [r6 EXCEPT !["pc"] = pc] r8 == [r7 EXCEPT ![regop] = sp(n)]
<1>1. ControlOK'
  BY Returns DEF PULL_REGISTERS, latches, Calls
<1>2. DataOK /\ regop \in {"s", "u"} /\ OtherStack \in {"s", "u"}
  BY DEF CoreInv, ControlOK, OperandsLatched, PULL_REGISTERS, OtherStack
<1>3. Bus(reads)
  BY DEF PULL_REGISTERS
<1>4. cc' = IF Has(temp, \h01) THEN CCSet(Peek(sp(0))) ELSE cc
  BY DEF PULL_REGISTERS
<1>5. UNCHANGED <<lds, line, mem, latches, freeRun>>
  BY DEF PULL_REGISTERS
<1>6. reg' = r8
  <2>1. RegOK(reg) /\ OtherStack # regop
    BY <1>2 DEF DataOK, OtherStack
  <2> QED BY <1>2, <2>1 DEF PULL_REGISTERS, RegOK, Registers, Reg8, Reg16
<1>7. reg[regop] \in Int /\ temp \in Int /\ n \in Nat
  BY <1>2, RegTyped, OffsetIsNat, WordIs, ByteIs DEF DataOK
<1>8. ASSUME NEW k \in Int PROVE sp(k) \in Word
  <2>1. reg[regop] + k \in Int
    BY <1>7
  <2> QED BY <2>1, ToWordTyped
<1>9. ASSUME NEW k \in Int PROVE Peek(sp(k)) \in Byte
  BY <1>2, <1>8, PeekTyped DEF DataOK
<1>10. ASSUME NEW m \in Int, NEW old \in Byte PROVE byte(m, old) \in Byte
  <2>1. Offset(temp, m) \in Int
    BY OffsetIsNat
  <2>2. Peek(sp(Offset(temp, m))) \in Byte
    BY <1>9, <2>1
  <2> HIDE DEF sp
  <2> QED BY <2>2
<1>11. ASSUME NEW m \in Int, NEW old \in Word PROVE word(m, old) \in Word
  <2>1. Offset(temp, m) \in Int /\ Offset(temp, m) + 1 \in Int
    BY OffsetIsNat
  <2>2. Peek(sp(Offset(temp, m))) \in Byte /\ Peek(sp(Offset(temp, m) + 1)) \in Byte
    BY <1>9, <2>1
  <2> HIDE DEF sp
  <2> QED BY <2>2, HalvesTyped
<1>12. bus' \in Seq(AccessType) /\ icount' \in Int
  <2>1. ASSUME NEW k \in Int, NEW role \in {"data", "dead"} PROVE Rd(sp(k), role) \in Access
    BY <1>2, <1>8, RdTyped DEF DataOK, Roles
  <2> HIDE DEF sp, n
  <2>2. ASSUME NEW k \in 1..n PROVE Rd(sp(k - 1), "data") \in Access
    BY <1>7, <2>1
  <2>3. [k \in 1..n |-> Rd(sp(k - 1), "data")] \in Seq(Access)
    BY <1>7, <2>2
  <2>4. <<Rd(sp(n), "dead")>> \in Seq(Access)
    BY <1>7, <2>1, Accesses
  <2>5. reads \in Seq(Access)
    BY <2>3, <2>4, Accesses
  <2> HIDE DEF reads
  <2> QED BY <1>2, <1>3, <2>5, BusTyped DEF DataOK
<1>13. sp(n) \in Word
  BY <1>7, <1>8
<1>14. /\ a \in Byte /\ b \in Byte /\ dp \in Byte
       /\ x \in Word /\ y \in Word /\ o \in Word /\ pc \in Word
  <2>1. /\ reg["a"] \in Byte /\ reg["b"] \in Byte /\ reg["dp"] \in Byte
        /\ reg["x"] \in Word /\ reg["y"] \in Word /\ reg["pc"] \in Word
        /\ reg[OtherStack] \in Word
    BY <1>2, RegTyped DEF DataOK
  <2> HIDE DEF byte, word
  <2> QED BY <2>1, <1>10, <1>11
<1>15. cc' \in SUBSET Flags
  BY <1>2, <1>4, CCSetTyped DEF DataOK
<1> HIDE DEF sp, n, byte, word, reads, a, b, dp, x, y, o, pc
<1>16. RegOK(r1)
  BY <1>2, <1>14, SetReg8 DEF DataOK, Reg8
<1> HIDE DEF r1
<1>17. RegOK(r2)
  BY <1>14, <1>16, SetReg8 DEF Reg8
<1> HIDE DEF r2
<1>18. RegOK(r3)
  BY <1>14, <1>17, SetReg8 DEF Reg8
<1> HIDE DEF r3
<1>19. RegOK(r4)
  BY <1>14, <1>18, SetReg16 DEF Reg16
<1> HIDE DEF r4
<1>20. RegOK(r5)
  BY <1>14, <1>19, SetReg16 DEF Reg16
<1> HIDE DEF r5
<1>21. RegOK(r6)
  BY <1>2, <1>14, <1>20, SetReg16 DEF Reg16
<1> HIDE DEF r6
<1>22. RegOK(r7)
  BY <1>14, <1>21, SetReg16 DEF Reg16
<1> HIDE DEF r7
<1>23. RegOK(r8)
  BY <1>2, <1>13, <1>22, SetReg16 DEF Reg16
<1> HIDE DEF r8
<1>24. RegOK(reg')
  BY <1>6, <1>23
<1>25. DataOK'
  BY <1>2, <1>5, <1>12, <1>15, <1>24 DEF DataOK, MemOK, latches
<1> QED BY <1>1, <1>25 DEF CoreInv

LEMMA PushPullOK == CoreInv /\ (PSHS \/ PSHU \/ PULS \/ PULU) => CoreInv'
<1> SUFFICES ASSUME CoreInv, PSHS \/ PSHU \/ PULS \/ PULU PROVE CoreInv'
  OBVIOUS
<1> DEFINE head == <<Arg(0)>> \o Vma(2)
<1>1. /\ at \in {"PSHS", "PSHU", "PULS", "PULU"}
      /\ temp' = Peek(PC(0)) /\ reg' = At(PC(1)) /\ regop' \in {"s", "u"}
      /\ Goto("PUSH_REGISTERS") \/ Goto("PULL_REGISTERS")
      /\ UNCHANGED <<cc, lds, line, mem, ea, mode, cond, freeRun>>
  BY DEF PSHS, PSHU, PULS, PULU, Push, Pull
<1>2. \/ Bus(head)
      \/ \E sp \in {"s", "u"} : Bus(head \o <<Rd(reg[sp], "dead")>>)
  BY DEF PSHS, PSHU, PULS, PULU, Push, Pull
<1>3. DataOK
  BY DEF CoreInv
<1>4. ControlOK'
  BY <1>1, JumpsToStack DEF Calls
<1>5. head \in Seq(Access)
  BY <1>3, ArgTyped, VmaTyped, Accesses DEF DataOK
<1> HIDE DEF head
<1>6. ASSUME NEW sp \in {"s", "u"} PROVE head \o <<Rd(reg[sp], "dead")>> \in Seq(Access)
  BY <1>3, <1>5, RegTyped, RdTyped, Accesses DEF DataOK, Roles
<1>7. bus' \in Seq(AccessType) /\ icount' \in Int
  BY <1>2, <1>3, <1>5, <1>6, BusTyped DEF DataOK
<1>8. temp' \in Byte /\ PC(1) \in Word
  BY <1>1, <1>3, PeeksTyped, PCTyped DEF DataOK
<1>9. RegOK(reg')
  BY <1>1, <1>3, <1>8, AssignTyped
<1>10. DataOK'
  BY <1>1, <1>3, <1>7, <1>8, <1>9 DEF DataOK, MemOK
<1> QED BY <1>4, <1>10 DEF CoreInv

LEMMA RtsOK == CoreInv /\ RTS => CoreInv'
<1> SUFFICES ASSUME CoreInv, RTS PROVE CoreInv'
  OBVIOUS
<1>1. ControlOK'
  BY JumpsToStack DEF RTS, Calls
<1>2. bus' \in Seq(AccessType) /\ icount' \in Int
  BY DeadTyped, BusTyped DEF CoreInv, DataOK, RTS
<1>3. temp' \in Byte
  BY ByteIs DEF RTS
<1>4. DataOK'
  BY <1>2, <1>3 DEF CoreInv, DataOK, RTS, MemOK, RegOK
<1> QED BY <1>1, <1>4 DEF CoreInv

LEMMA RtiOK == CoreInv /\ RTI => CoreInv'
<1> SUFFICES ASSUME CoreInv, RTI PROVE CoreInv'
  OBVIOUS
<1> DEFINE top == ToWord(reg["s"] + 1)
           read == Rd(reg["s"], "data")
<1>1. ControlOK'
  BY JumpsToStack DEF RTI, Calls
<1>2. /\ Bus(<<Dead(0), read>>) /\ cc' = CCSet(Peek(reg["s"]))
      /\ reg' = [reg EXCEPT !["s"] = top]
      /\ temp' = (IF "E" \in cc' THEN EntireState ELSE PartialState) - 1
      /\ UNCHANGED <<lds, line, mem, ea, mode, cond, freeRun>>
  BY DEF RTI
<1>3. DataOK
  BY DEF CoreInv
<1>4. read \in Access /\ Dead(0) \in Access
  BY <1>3, RegTyped, RdTyped, ArgTyped DEF DataOK, Roles
<1>5. top \in Word
  <2>1. reg["s"] + 1 \in Int
    BY <1>3, RegTyped, WordIs DEF DataOK
  <2> QED BY <2>1, ToWordTyped
<1> HIDE DEF top, read
<1>6. bus' \in Seq(AccessType) /\ icount' \in Int
  BY <1>2, <1>3, <1>4, Accesses, BusTyped DEF DataOK
<1>7. RegOK(reg')
  BY <1>2, <1>3, <1>5, SetReg16 DEF DataOK, Reg16
<1>8. temp' \in Byte
  BY <1>2, ByteIs DEF EntireState, PartialState
<1>9. cc' \in SUBSET Flags
  BY <1>2, CCSetTyped
<1>10. DataOK'
  BY <1>2, <1>3, <1>6, <1>7, <1>8, <1>9 DEF DataOK, MemOK
<1> QED BY <1>1, <1>10 DEF CoreInv

-----------------------------------------------------------------------------
(***************************************************************************)
(* Software interrupts.                                                    *)
(***************************************************************************)
LEMMA SharedSoftwareInterruptOK == CoreInv /\ SharedSoftwareInterrupt => CoreInv'
<1> SUFFICES ASSUME CoreInv, SharedSoftwareInterrupt PROVE CoreInv'
  OBVIOUS
<1>1. /\ at \in {"SWI2", "SWI3"} /\ ea' = VectorOf[at] /\ mode' = "ea" /\ regop' = regop
      /\ Goto("SOFTWARE_INTERRUPT")
      /\ UNCHANGED <<reg, cc, lds, line, mem, bus, icount, temp, cond, freeRun>>
  BY DEF SharedSoftwareInterrupt
<1>2. OperandsLatched'
  BY <1>1 DEF Goto, OperandsLatched, RmwOps, Alu8Ops, Alu16Ops
<1>3. /\ ControlOK /\ at \notin Calls \cup {"PUSH_REGISTERS", "idle"}
      /\ regop' \in {"none", "a", "b"} \cup Names16
      /\ "SOFTWARE_INTERRUPT" \in Labels \ Calls
  BY <1>1 DEF CoreInv, ControlOK, Calls, Labels
<1>4. ControlOK'
  BY <1>1, <1>2, <1>3, GotoOK
<1>5. DataOK'
  BY <1>1, WordIs DEF CoreInv, DataOK, MemOK, RegOK, VectorOf
<1> QED BY <1>4, <1>5 DEF CoreInv

LEMMA SoftwareInterruptOK == CoreInv /\ SoftwareInterrupt => CoreInv'
<1> SUFFICES ASSUME CoreInv, SoftwareInterrupt PROVE CoreInv'
  OBVIOUS
<1> DEFINE next == IF at = "SWI" THEN "SWI_PUSHED" ELSE "PUSHED"
<1>1. /\ at \in {"SWI", "SOFTWARE_INTERRUPT", "XRES", "XSWI2", "XFIRQ"}
      /\ ea' = IF at = "SOFTWARE_INTERRUPT" THEN ea ELSE VectorOf[at]
      /\ mode' \in {mode, "ea"} /\ regop' = "s" /\ temp' = EntireState
      /\ Bus(<<Dead(0)>> \o Vma(1)) /\ Call("PUSH_REGISTERS", next)
      /\ UNCHANGED <<reg, lds, line, mem, cond, freeRun>>
  BY DEF SoftwareInterrupt, SoftwareInterrupts, DocumentedSwi
<1>2. cc' \in SUBSET Flags
  BY DEF SoftwareInterrupt, CoreInv, DataOK, Flags
<1>3. next \in AfterPush /\ next \in Labels
  BY DEF AfterPush, Labels
<1> HIDE DEF next
<1>4. ControlOK /\ at \notin Calls \cup {"PUSH_REGISTERS", "idle"}
  BY <1>1 DEF CoreInv, Calls
<1>5. mode' \in {"imm", "ea", "a", "b"} /\ regop' \in {"none", "a", "b"} \cup Names16
  BY <1>1, <1>4 DEF ControlOK, Names16
<1>6. ControlOK'
  BY <1>1, <1>3, <1>4, <1>5, CallOK
<1>7. bus' \in Seq(AccessType) /\ icount' \in Int
  BY <1>1, DeadTyped, BusTyped DEF CoreInv, DataOK
<1>8. ea' \in Word
  BY <1>1, WordIs DEF VectorOf, CoreInv, DataOK
<1>9. temp' \in Byte
  BY <1>1, ByteIs DEF EntireState
<1>10. DataOK'
  BY <1>1, <1>2, <1>7, <1>8, <1>9 DEF CoreInv, DataOK, MemOK, RegOK
<1> QED BY <1>6, <1>10 DEF CoreInv

LEMMA PushedOK == CoreInv /\ (SWI_PUSHED \/ PUSHED) => CoreInv'
<1> SUFFICES ASSUME CoreInv, SWI_PUSHED \/ PUSHED PROVE CoreInv'
  OBVIOUS
<1>1. /\ at \in {"SWI_PUSHED", "PUSHED"} /\ Goto("INTERRUPT_VECTOR")
      /\ UNCHANGED <<reg, lds, line, mem, bus, icount, latches, freeRun>>
      /\ cc' = cc \/ cc' = cc \cup {"I", "F"}
  BY DEF SWI_PUSHED, PUSHED
<1>2. ControlOK'
  BY <1>1, Jumps DEF Unlatched, Calls, latches
<1>3. DataOK'
  BY <1>1 DEF CoreInv, DataOK, MemOK, RegOK, latches, Flags
<1> QED BY <1>2, <1>3 DEF CoreInv

LEMMA InterruptVectorOK == CoreInv /\ INTERRUPT_VECTOR => CoreInv'
<1> SUFFICES ASSUME CoreInv, INTERRUPT_VECTOR PROVE CoreInv'
  OBVIOUS
<1> DEFINE hi == Rd(ea, "data")  lo == Rd(ToWord(ea + 1), "data")
           target == Pair(Peek(ea), Peek(ToWord(ea + 1)))
<1>1. ControlOK'
  BY Returns DEF INTERRUPT_VECTOR, latches, Calls
<1>2. /\ Bus(Vma(1) \o <<hi, lo>> \o Vma(1)) /\ reg' = At(target)
      /\ UNCHANGED <<cc, lds, line, mem, latches, freeRun>>
  BY DEF INTERRUPT_VECTOR
<1>3. DataOK
  BY DEF CoreInv
<1>4. ToWord(ea + 1) \in Word
  BY <1>3, ToWordTyped, WordIs DEF DataOK
<1>5. hi \in Access /\ lo \in Access
  BY <1>3, <1>4, RdTyped DEF DataOK, Roles
<1>6. target \in Word
  BY <1>3, PeeksTyped DEF DataOK
<1> HIDE DEF hi, lo, target
<1>7. Vma(1) \o <<hi, lo>> \o Vma(1) \in Seq(Access)
  BY <1>3, <1>5, VmaTyped, Accesses DEF DataOK
<1>8. bus' \in Seq(AccessType) /\ icount' \in Int
  BY <1>2, <1>3, <1>7, BusTyped DEF DataOK
<1>9. RegOK(reg')
  BY <1>2, <1>3, <1>6, AssignTyped
<1>10. DataOK'
  BY <1>2, <1>3, <1>8, <1>9 DEF DataOK, MemOK, latches
<1> QED BY <1>1, <1>10 DEF CoreInv

-----------------------------------------------------------------------------
(***************************************************************************)
(* All labels.                                                             *)
(***************************************************************************)
LEMMA DispatchOK == CoreInv /\ (DISPATCH01 \/ DISPATCH10 \/ DISPATCH11) => CoreInv'
  BY FetchOK DEF DISPATCH01, DISPATCH10, DISPATCH11

LEMMA InstructionOK == CoreInv /\ Instruction => CoreInv'
  BY MainOK, DispatchOK, DirectOK, ExtendedOK, IndexedOK, ReadModifyWriteOK, Xnc8OK,
     Tst8OK, JmpOK, Accumulate8OK, Accumulate16OK, Store8OK, Store16OK, Xst8OK, Xst16OK,
     LeaOK, NopOK, DaaOK, SexOK, AbxOK, MulOK, FlagMasksOK, XandccOK, X18OK, FreeRunOK,
     ExgOK, TfrOK, BranchOK, LbranchOK, BsrOK, JsrOK, GotoSubroutineOK, PushRegistersOK,
     PullRegistersOK, PushPullOK, RtsOK, RtiOK, SharedSoftwareInterruptOK,
     SoftwareInterruptOK, PushedOK, InterruptVectorOK
     DEF Instruction

-----------------------------------------------------------------------------
(***************************************************************************)
(* What a label does on the bus.  Its reads come first, and among them its *)
(* fetches; then it writes, every address once.                            *)
(***************************************************************************)
Fetches == {"opcode", "arg"}

ReadAccess  == [write : {FALSE}, address : Word, data : Byte, role : Roles]
WriteAccess == [write : {TRUE}, address : Word, data : Byte, role : {"data"}]

\* r is n reads of memory, of which the first f fetch the bytes at PC.
Reads(r, n, f) ==
  /\ r \in Seq(ReadAccess) /\ Len(r) = n /\ f \in 0..n
  /\ \A k \in 1..n :
       /\ r[k].data = Peek(r[k].address)
       /\ k > f => r[k].role \notin Fetches
       /\ k <= f => r[k].role \in Fetches /\ r[k].address = PC(k - 1)

\* w is what turns the memory into the next.
Writes(w, n) ==
  /\ w \in Seq(WriteAccess) /\ Len(w) = n
  /\ \A j \in 1..n :
       /\ Peek(w[j].address)' = w[j].data
       /\ \A i \in 1..n : w[i].address = w[j].address => i = j
  /\ \A a \in Word : Peek(a)' = Peek(a) \/ \E j \in 1..n : w[j].address = a

\* A step of n cycles of which the first f are fetches.
Moves(n, f) ==
  \E p, q \in Nat : \E r, w : Reads(r, p, f) /\ Writes(w, q) /\ n = p + q /\ Bus(r \o w)

LEMMA NoReads == Reads(<<>>, 0, 0)
  BY DEF Reads

LEMMA NoWrites == mem' = mem => Writes(<<>>, 0)
  BY DEF Writes, Peek

LEMMA ReadsJoin ==
  ASSUME NEW r, NEW n \in Nat, NEW f, Reads(r, n, f), NEW q, NEW m \in Nat, Reads(q, m, 0)
  PROVE  Reads(r \o q, n + m, f)
<1>1. r \in Seq(ReadAccess) /\ Len(r) = n /\ q \in Seq(ReadAccess) /\ Len(q) = m /\ f \in 0..n
  BY DEF Reads
<1>2. r \o q \in Seq(ReadAccess) /\ Len(r \o q) = n + m /\ f \in 0..(n + m)
  BY <1>1
<1>3. ASSUME NEW k \in 1..(n + m)
      PROVE  /\ (r \o q)[k].data = Peek((r \o q)[k].address)
             /\ k > f => (r \o q)[k].role \notin Fetches
             /\ k <= f => (r \o q)[k].role \in Fetches /\ (r \o q)[k].address = PC(k - 1)
  <2>1. CASE k <= n
    <3>1. (r \o q)[k] = r[k] /\ k \in 1..n
      BY <1>1, <2>1
    <3> QED BY <3>1 DEF Reads
  <2>2. CASE k > n
    <3>1. (r \o q)[k] = q[k - n] /\ k - n \in 1..m /\ ~(k <= f) /\ k - n > 0
      BY <1>1, <2>2
    <3>2. \A j \in 1..m : q[j].data = Peek(q[j].address) /\ (j > 0 => q[j].role \notin Fetches)
      BY DEF Reads
    <3> QED BY <3>1, <3>2
  <2> QED BY <1>1, <2>1, <2>2
<1> QED BY <1>2, <1>3 DEF Reads

LEMMA ReadIs ==
  ASSUME DataOK, NEW a \in Word, NEW role \in Roles
  PROVE  /\ Rd(a, role) \in ReadAccess /\ Rd(a, role).data = Peek(Rd(a, role).address)
         /\ Rd(a, role).address = a /\ Rd(a, role).role = role
<1>1. Peek(a) \in Byte
  BY PeekTyped DEF DataOK
<1> QED BY <1>1 DEF Rd, ReadAccess

LEMMA ReadOne ==
  ASSUME DataOK, NEW a \in Word, NEW role \in Roles \ Fetches
  PROVE  Reads(<<Rd(a, role)>>, 1, 0)
<1> DEFINE x == Rd(a, role)
<1>1. x \in ReadAccess /\ x.data = Peek(x.address) /\ x.role \notin Fetches
  BY ReadIs
<1> HIDE DEF x
<1>2. <<x>> \in Seq(ReadAccess) /\ Len(<<x>>) = 1 /\ 0 \in 0..1
  BY <1>1
<1>3. \A k \in 1..1 : <<x>>[k] = x /\ ~(k <= 0)
  OBVIOUS
<1>4. Reads(<<x>>, 1, 0)
  BY <1>1, <1>2, <1>3 DEF Reads
<1> QED BY <1>4 DEF x

\* Many reads of one kind.
LEMMA ReadMany ==
  ASSUME DataOK, NEW n \in Nat, NEW role \in Roles, NEW a \in [1..n -> Word]
  PROVE  LET r == [k \in 1..n |-> Rd(a[k], role)]
         IN  /\ role \notin Fetches => Reads(r, n, 0)
             /\ role \in Fetches /\ (\A k \in 1..n : a[k] = PC(k - 1)) => Reads(r, n, n)
<1> DEFINE r == [k \in 1..n |-> Rd(a[k], role)]
<1>1. \A k \in 1..n : Rd(a[k], role) \in ReadAccess
  BY ReadIs
<1>2. r \in Seq(ReadAccess) /\ Len(r) = n /\ 0 \in 0..n /\ n \in 0..n
  BY <1>1
<1>3. \A k \in 1..n : /\ r[k].data = Peek(r[k].address) /\ r[k].address = a[k]
                      /\ r[k].role = role /\ ~(k <= 0) /\ ~(k > n)
  BY ReadIs
<1> HIDE DEF r
<1>4. role \notin Fetches => Reads(r, n, 0)
  BY <1>2, <1>3 DEF Reads
<1>5. role \in Fetches /\ (\A k \in 1..n : a[k] = PC(k - 1)) => Reads(r, n, n)
  BY <1>2, <1>3 DEF Reads
<1> QED BY <1>4, <1>5 DEF r

LEMMA ReadArgs ==
  ASSUME DataOK, NEW n \in Nat
  PROVE  Reads([k \in 1..n |-> Arg(k - 1)], n, n)
<1> DEFINE a == [k \in 1..n |-> PC(k - 1)]
<1>1. a \in [1..n -> Word] /\ \A k \in 1..n : a[k] = PC(k - 1)
  BY PCTyped DEF DataOK
<1>2. [k \in 1..n |-> Arg(k - 1)] = [k \in 1..n |-> Rd(a[k], "arg")]
  BY DEF Arg
<1> HIDE DEF a
<1>3. "arg" \in Roles /\ "arg" \in Fetches
  BY DEF Roles, Fetches
<1> QED BY <1>1, <1>2, <1>3, ReadMany

LEMMA ReadOneArg == DataOK => Reads(<<Arg(0)>>, 1, 1)
<1> SUFFICES ASSUME DataOK PROVE Reads(<<Arg(0)>>, 1, 1)
  OBVIOUS
<1>1. Reads([k \in 1..1 |-> Arg(k - 1)], 1, 1)
  BY ReadArgs
<1>2. [k \in 1..1 |-> Arg(k - 1)] = <<Arg(0)>>
  OBVIOUS
<1> QED BY <1>1, <1>2

LEMMA ReadTwoArgs == DataOK => Reads(<<Arg(0), Arg(1)>>, 2, 2)
<1> SUFFICES ASSUME DataOK PROVE Reads(<<Arg(0), Arg(1)>>, 2, 2)
  OBVIOUS
<1>1. Reads([k \in 1..2 |-> Arg(k - 1)], 2, 2)
  BY ReadArgs
<1>2. [k \in 1..2 |-> Arg(k - 1)] = <<Arg(0), Arg(1)>>
  OBVIOUS
<1> QED BY <1>1, <1>2

LEMMA ReadOpcode == DataOK => Reads(<<Rd(PC(0), "opcode")>>, 1, 1)
<1> SUFFICES ASSUME DataOK PROVE Reads(<<Rd(PC(0), "opcode")>>, 1, 1)
  OBVIOUS
<1> DEFINE a == [k \in 1..1 |-> PC(0)]
<1>1. a \in [1..1 -> Word] /\ \A k \in 1..1 : a[k] = PC(k - 1)
  BY PCTyped DEF DataOK
<1>2. "opcode" \in Roles /\ "opcode" \in Fetches
  BY DEF Roles, Fetches
<1>3. <<Rd(PC(0), "opcode")>> = [k \in 1..1 |-> Rd(a[k], "opcode")]
  OBVIOUS
<1> HIDE DEF a
<1> QED BY <1>1, <1>2, <1>3, ReadMany

LEMMA ReadDead == DataOK => \A i \in Int : Reads(<<Dead(i)>>, 1, 0)
<1> SUFFICES ASSUME DataOK, NEW i \in Int PROVE Reads(<<Dead(i)>>, 1, 0)
  OBVIOUS
<1>1. PC(i) \in Word /\ "dead" \in Roles \ Fetches
  BY PCTyped DEF DataOK, Roles, Fetches
<1> QED BY <1>1, ReadOne DEF Dead

LEMMA ReadDeads ==
  ASSUME DataOK, NEW n \in Nat, NEW i \in Nat
  PROVE  Reads([k \in 1..n |-> Dead(i + k)], n, 0)
<1> DEFINE a == [k \in 1..n |-> PC(i + k)]
<1>1. a \in [1..n -> Word]
  BY PCTyped DEF DataOK
<1>2. [k \in 1..n |-> Dead(i + k)] = [k \in 1..n |-> Rd(a[k], "dead")]
  BY DEF Dead
<1> HIDE DEF a
<1>3. "dead" \in Roles \ Fetches
  BY DEF Roles, Fetches
<1> QED BY <1>1, <1>2, <1>3, ReadMany

LEMMA ReadVma == DataOK => \A n \in Nat : Reads(Vma(n), n, 0)
<1> SUFFICES ASSUME DataOK, NEW n \in Nat PROVE Reads(Vma(n), n, 0)
  OBVIOUS
<1> DEFINE a == [k \in 1..n |-> \hFFFF]
<1>1. a \in [1..n -> Word]
  BY WordIs
<1>2. Vma(n) = [k \in 1..n |-> Rd(a[k], "dead")]
  BY DEF Vma
<1> HIDE DEF a
<1>3. "dead" \in Roles \ Fetches
  BY DEF Roles, Fetches
<1> QED BY <1>1, <1>2, <1>3, ReadMany

\* The step of a label that only reads.
LEMMA ReadsMove ==
  ASSUME NEW r, NEW n \in Nat, NEW f, Reads(r, n, f), Bus(r), mem' = mem
  PROVE  Moves(n, f)
<1>1. r \in Seq(ReadAccess)
  BY DEF Reads
<1>2. r \o <<>> = r
  BY <1>1
<1>3. Writes(<<>>, 0)
  BY NoWrites
<1>4. Bus(r \o <<>>) /\ n = n + 0 /\ 0 \in Nat
  BY <1>2
<1> QED BY <1>3, <1>4 DEF Moves

LEMMA StaysMove ==
  ASSUME DataOK, UNCHANGED <<bus, icount, mem>>
  PROVE  Moves(0, 0)
<1>1. bus \o <<>> = bus /\ icount - 0 = icount
  BY DEF DataOK
<1> DEFINE none == [k \in DOMAIN <<>> |->
                      [write   |-> <<>>[k].write,
                       address |-> <<>>[k].address,
                       data    |-> <<>>[k].data,
                       role    |-> <<>>[k].role,
                       icount  |-> icount - k]]
<1>2. none = <<>>
  <2>1. none \in Seq({0}) /\ Len(none) = 0
    OBVIOUS
  <2> HIDE DEF none
  <2> QED BY <2>1
<1>3. Len(<<>>) = 0
  OBVIOUS
<1>4. bus' = bus \o none /\ icount' = icount - Len(<<>>)
  BY <1>1, <1>2, <1>3
<1>5. Bus(<<>>)
  BY <1>4 DEF Bus
<1> QED BY <1>5, NoReads, ReadsMove

\* The step of a label that also writes.
LEMMA WritesMove ==
  ASSUME NEW r, NEW n \in Nat, NEW f, Reads(r, n, f),
         NEW w, NEW m \in Nat, Writes(w, m), Bus(r \o w)
  PROVE  Moves(n + m, f)
  BY DEF Moves

\* Memory after a store.
LEMMA PeekStored ==
  ASSUME NEW first \in Word, NEW bytes \in Seq(Byte), Len(bytes) <= 65536,
         mem' = Stored(first, bytes)
  PROVE  /\ \A k \in 1..Len(bytes) : Peek(ToWord(first + k - 1))' = bytes[k]
         /\ \A a \in Word : \/ Peek(a)' = Peek(a)
                            \/ \E k \in 1..Len(bytes) : a = ToWord(first + k - 1)
<1> DEFINE span == {ToWord(first + k - 1) : k \in 1..Len(bytes)}
<1>1. DOMAIN mem' = DOMAIN mem \cup span
  BY DEF Stored
<1>2. \A a \in DOMAIN mem' :
        mem'[a] = IF a \in span THEN bytes[1 + ToWord(a - first)] ELSE mem[a]
  BY DEF Stored
<1>3. ASSUME NEW k \in 1..Len(bytes)
      PROVE  Peek(ToWord(first + k - 1))' = bytes[k]
  <2>1. k \in Int /\ 0 <= k - 1 /\ k - 1 <= 65535 /\ first \in Int /\ 0 <= first /\ first <= 65535
    BY WordIs
  <2>2. ToWord(ToWord(first + k - 1) - first) = k - 1
    <3>1. \/ ToWord(first + k - 1) = first + k - 1
          \/ ToWord(first + k - 1) = first + k - 1 - 65536
      BY <2>1 DEF ToWord
    <3>2. \/ ToWord(first + k - 1) - first = k - 1
          \/ ToWord(first + k - 1) - first = k - 1 - 65536
      BY <2>1, <3>1
    <3>3. (k - 1) % 65536 = k - 1 /\ (k - 1 - 65536) % 65536 = k - 1
      BY <2>1
    <3> QED BY <3>2, <3>3 DEF ToWord
  <2>3. ToWord(first + k - 1) \in span
    OBVIOUS
  <2>4. mem'[ToWord(first + k - 1)] = bytes[1 + (k - 1)] /\ 1 + (k - 1) = k
    BY <1>1, <1>2, <2>1, <2>2, <2>3
  <2> QED BY <1>1, <2>3, <2>4 DEF Peek
<1>4. ASSUME NEW a \in Word, a \notin span PROVE Peek(a)' = Peek(a)
  BY <1>1, <1>2, <1>4 DEF Peek
<1> QED BY <1>3, <1>4

\* The places of a few bytes are different addresses.
LEMMA Apart ==
  ASSUME NEW first \in Word, NEW i \in Nat, NEW j \in Nat, i <= 12, j <= 12,
         ToWord(first + i) = ToWord(first + j)
  PROVE  i = j
<1>1. first \in Int /\ 0 <= first /\ first <= 65535
  BY WordIs
<1>2. ASSUME NEW k \in Nat, k <= 12
      PROVE  \/ ToWord(first + k) = first + k /\ first + k <= 65535
             \/ ToWord(first + k) = first + k - 65536 /\ first + k > 65535
  BY <1>1, <1>2 DEF ToWord
<1> QED BY <1>1, <1>2

\* Bus writes that store bytes, upwards or downwards.
LEMMA WritesStored ==
  ASSUME NEW first \in Word, NEW n \in Nat, n <= 12, NEW bytes \in Seq(Byte),
         Len(bytes) = n, mem' = Stored(first, bytes),
         NEW w \in Seq(WriteAccess), Len(w) = n, NEW up \in BOOLEAN,
         \A j \in 1..n : LET k == IF up THEN j ELSE n + 1 - j
                        IN  w[j].address = ToWord(first + k - 1) /\ w[j].data = bytes[k]
  PROVE  Writes(w, n)
<1> DEFINE place(j) == IF up THEN j ELSE n + 1 - j
<1>1. ASSUME NEW j \in 1..n PROVE Peek(w[j].address)' = w[j].data
  <2>1. place(j) \in 1..Len(bytes)
    OBVIOUS
  <2>2. w[j].address = ToWord(first + place(j) - 1) /\ w[j].data = bytes[place(j)]
    OBVIOUS
  <2> HIDE DEF place
  <2>3. Peek(ToWord(first + place(j) - 1))' = bytes[place(j)]
    BY <2>1, PeekStored
  <2> QED BY <2>2, <2>3
<1>2. ASSUME NEW i \in 1..n, NEW j \in 1..n, w[i].address = w[j].address PROVE i = j
  <2>1. PICK p \in Nat : p = place(i) - 1 /\ p <= 12
    OBVIOUS
  <2>2. PICK q \in Nat : q = place(j) - 1 /\ q <= 12
    OBVIOUS
  <2>3. ToWord(first + p) = ToWord(first + q)
    <3>1. w[i].address = ToWord(first + place(i) - 1) /\ w[j].address = ToWord(first + place(j) - 1)
      OBVIOUS
    <3>2. first \in Int
      BY WordIs
    <3>3. first + place(i) - 1 = first + p /\ first + place(j) - 1 = first + q
      BY <2>1, <2>2, <3>2
    <3> QED BY <1>2, <3>1, <3>3
  <2>4. p = q
    BY <2>1, <2>2, <2>3, Apart
  <2> QED BY <2>1, <2>2, <2>4
<1>3. ASSUME NEW a \in Word
      PROVE  Peek(a)' = Peek(a) \/ \E j \in 1..n : w[j].address = a
  <2>1. ASSUME NEW k \in 1..Len(bytes), a = ToWord(first + k - 1)
        PROVE  \E j \in 1..n : w[j].address = a
    <3>1. place(k) \in 1..n /\ place(place(k)) = k
      OBVIOUS
    <3>2. w[place(k)].address = ToWord(first + place(place(k)) - 1)
      BY <3>1
    <3> HIDE DEF place
    <3> QED BY <2>1, <3>1, <3>2
  <2> QED BY <2>1, PeekStored
<1> QED BY <1>1, <1>2, <1>3 DEF Writes

LEMMA WriteIs ==
  ASSUME NEW a \in Word, NEW d \in Byte
  PROVE  Wr(a, d) \in WriteAccess /\ Wr(a, d).address = a /\ Wr(a, d).data = d
  BY DEF Wr, WriteAccess

LEMMA WriteOne ==
  ASSUME NEW a \in Word, NEW d \in Byte, mem' = Stored(a, <<d>>)
  PROVE  Writes(<<Wr(a, d)>>, 1)
<1> DEFINE x == Wr(a, d)  w == <<x>>  bytes == <<d>>
<1>1. x \in WriteAccess /\ x.address = a /\ x.data = d
  BY WriteIs
<1> HIDE DEF x
<1>2. w \in Seq(WriteAccess) /\ Len(w) = 1 /\ \A j \in 1..1 : w[j] = x
  BY <1>1
<1>3. bytes \in Seq(Byte) /\ Len(bytes) = 1 /\ \A j \in 1..1 : bytes[j] = d
  OBVIOUS
<1>4. ToWord(a) = a /\ a + 1 - 1 = a
  BY WordIs DEF ToWord
<1>5. mem' = Stored(a, bytes)
  OBVIOUS
<1> HIDE DEF w, bytes
<1>6. \A j \in 1..1 : LET k == IF TRUE THEN j ELSE 1 + 1 - j
                       IN  w[j].address = ToWord(a + k - 1) /\ w[j].data = bytes[k]
  BY <1>1, <1>2, <1>3, <1>4
<1>7. 1 \in Nat /\ 1 <= 12 /\ TRUE \in BOOLEAN
  OBVIOUS
<1>8. Writes(w, 1)
  BY <1>2, <1>3, <1>5, <1>6, <1>7, WritesStored
<1> QED BY <1>8 DEF w, x

\* Two bytes, the first one written first.
LEMMA WriteUp ==
  ASSUME NEW a \in Word, NEW b \in Word, b = ToWord(a + 1), NEW d \in Byte, NEW e \in Byte,
         mem' = Stored(a, <<d, e>>)
  PROVE  Writes(<<Wr(a, d), Wr(b, e)>>, 2)
<1> DEFINE x == Wr(a, d)  y == Wr(b, e)  w == <<x, y>>  bytes == <<d, e>>
<1>1. /\ x \in WriteAccess /\ x.address = a /\ x.data = d
      /\ y \in WriteAccess /\ y.address = b /\ y.data = e
  BY WriteIs
<1> HIDE DEF x, y
<1>2. w \in Seq(WriteAccess) /\ Len(w) = 2 /\ w[1] = x /\ w[2] = y
  BY <1>1
<1>3. bytes \in Seq(Byte) /\ Len(bytes) = 2 /\ bytes[1] = d /\ bytes[2] = e
  OBVIOUS
<1>4. ToWord(a) = a /\ a + 1 - 1 = a /\ a + 2 - 1 = a + 1
  BY WordIs DEF ToWord
<1>5. mem' = Stored(a, bytes)
  OBVIOUS
<1> HIDE DEF w, bytes
<1>6. \A j \in 1..2 : LET k == IF TRUE THEN j ELSE 2 + 1 - j
                       IN  w[j].address = ToWord(a + k - 1) /\ w[j].data = bytes[k]
  <2> SUFFICES ASSUME NEW j \in 1..2
               PROVE  w[j].address = ToWord(a + j - 1) /\ w[j].data = bytes[j]
    OBVIOUS
  <2>1. j = 1 \/ j = 2
    OBVIOUS
  <2> QED BY <2>1, <1>1, <1>2, <1>3, <1>4
<1>7. 2 \in Nat /\ 2 <= 12 /\ TRUE \in BOOLEAN
  OBVIOUS
<1>8. Writes(w, 2)
  BY <1>2, <1>3, <1>5, <1>6, <1>7, WritesStored
<1> QED BY <1>8 DEF w, x, y

\* Bytes pushed below p, the last one first.
LEMMA WriteDown ==
  ASSUME NEW p \in Word, NEW n \in Nat, n <= 12, NEW bytes \in Seq(Byte), Len(bytes) = n,
         mem' = Stored(ToWord(p - n), bytes)
  PROVE  Writes([k \in 1..n |-> Wr(ToWord(p - k), bytes[n + 1 - k])], n)
<1> DEFINE w == [k \in 1..n |-> Wr(ToWord(p - k), bytes[n + 1 - k])]
           sp == ToWord(p - n)
<1>1. p \in Int /\ 0 <= p /\ p <= 65535
  BY WordIs
<1>2. ASSUME NEW k \in 1..n
      PROVE  /\ w[k] \in WriteAccess /\ w[k].address = ToWord(p - k)
             /\ w[k].data = bytes[n + 1 - k]
  <2>1. ToWord(p - k) \in Word
    BY <1>1, ToWordTyped
  <2>2. bytes[n + 1 - k] \in Byte
    BY <1>2
  <2> QED BY <2>1, <2>2, WriteIs
<1>3. w \in Seq(WriteAccess) /\ Len(w) = n
  <2>1. w \in [1..n -> WriteAccess]
    BY <1>2
  <2> QED BY <2>1
<1>4. ASSUME NEW j \in 1..n PROVE ToWord(sp + (n + 1 - j) - 1) = ToWord(p - j)
  <2>1. sp = p - n \/ sp = p - n + 65536
    BY <1>1 DEF ToWord
  <2>2. sp + (n + 1 - j) - 1 = p - j \/ sp + (n + 1 - j) - 1 = p - j + 65536
    BY <1>1, <2>1
  <2>3. (p - j + 65536) % 65536 = (p - j) % 65536
    BY <1>1
  <2> HIDE DEF sp
  <2> QED BY <2>2, <2>3 DEF ToWord
<1>5. sp \in Word
  BY <1>1, ToWordTyped
<1> HIDE DEF w, sp
<1>6. \A j \in 1..n : LET k == IF FALSE THEN j ELSE n + 1 - j
                       IN  w[j].address = ToWord(sp + k - 1) /\ w[j].data = bytes[k]
  BY <1>2, <1>4
<1>7. mem' = Stored(sp, bytes)
  BY DEF sp
<1>8. Writes(w, n)
  <2>1. FALSE \in BOOLEAN /\ w \in Seq(WriteAccess) /\ Len(w) = n
    BY <1>3
  <2> QED BY <1>5, <1>6, <1>7, <2>1, WritesStored
<1> QED BY <1>8 DEF w

-----------------------------------------------------------------------------
(***************************************************************************)
(* What a label takes, from its name: the cycles to the end of the         *)
(* instruction, the bytes stepped over, and those of them that are         *)
(* fetched.                                                                *)
(***************************************************************************)
SoftwareLabels == {"SWI", "SWI2", "SWI3", "SOFTWARE_INTERRUPT", "XRES", "XSWI2", "XFIRQ"}

\* The cycles of an addressing label.
AddressCycles(l, postbyte) ==
  CASE l = "DIRECT"   -> 2
    [] l = "EXTENDED" -> 3
    [] l = "INDEXED"  ->
         IF ~Has(postbyte, \h80) THEN 3
         ELSE 1 + IndexedArgs(Col(postbyte)) + IndexedDeads(Col(postbyte))
                + IndexedVmas(Col(postbyte)) + (IF Has(postbyte, \h10) THEN 3 ELSE 0)

\* The bytes it steps over.
AddressBytes(l, postbyte) ==
  CASE l = "DIRECT"   -> 1
    [] l = "EXTENDED" -> 2
    [] l = "INDEXED"  -> 1 + (IF Has(postbyte, \h80) THEN IndexedArgs(Col(postbyte)) ELSE 0)

(***************************************************************************)
(* The cycles from the label of an instruction to its end: m is the        *)
(* addressing mode, mask the byte at PC, taken the branch condition,       *)
(* stacked the byte that s points to.                                      *)
(***************************************************************************)
BodyCycles(l, m, mask, taken, stacked) ==
  CASE l \in RmwOps \cup {"XNC8", "TST8"} -> IF m = "ea" THEN 3 ELSE 1
    [] l = "JMP" -> 0
    [] l \in Alu8Ops \cup {"ST8", "XST8", "LEA_xy", "LEA_us", "NOP", "DAA", "SEX", "X18"} -> 1
    [] l \in {"LD16", "ST16", "XST16", "ORCC", "ANDCC", "ABX", "BRANCH", "GOTO_SUBROUTINE"} -> 2
    [] l \in {"SUB16", "CMP16", "ADD16", "XADD16", "XANDCC"} -> 3
    [] l = "LBRANCH" -> IF taken THEN 4 ELSE 3
    [] l \in {"JSR", "RTS", "SWI_PUSHED", "PUSHED", "INTERRUPT_VECTOR"} -> 4
    [] l = "TFR" -> 5
    [] l = "BSR" -> 6
    [] l = "EXG" -> 7
    [] l = "LBSR" -> 8
    [] l = "MUL" -> 10
    [] l \in SoftwareLabels -> 18
    [] l \in {"PSHS", "PSHU", "PULS", "PULU"} -> 4 + Offset(mask, 256)
    [] l = "RTI" -> IF Has(stacked, \h80) THEN 14 ELSE 5

\* The bytes that the label of an instruction steps over.
BodyBytes(l, m) ==
  CASE l \in Alu8Ops -> IF m = "imm" THEN 1 ELSE 0
    [] l \in Alu16Ops -> IF m = "imm" THEN 2 ELSE 0
    [] l \in {"XST8", "ORCC", "ANDCC", "XANDCC", "EXG", "TFR", "BRANCH", "BSR",
              "PSHS", "PSHU", "PULS", "PULU"} -> 1
    [] l \in {"XST16", "LBRANCH", "LBSR"} -> 2
    [] OTHER -> 0

\* Cycles, bytes and fetches from here to the end of the label that is
\* reached, or of the instruction it is part of.
Ahead ==
  CASE at \in Calls -> AddressCycles(at, Peek(PC(0)))
    [] at = "PUSH_REGISTERS" -> Offset(temp, 256)
    [] at = "PULL_REGISTERS" -> 1 + Offset(temp, 256)
    [] at = "idle" -> 0
    [] OTHER -> BodyCycles(at, mode, Peek(PC(0)), cond, Peek(reg["s"]))

BytesAhead ==
  CASE at \in Calls -> AddressBytes(at, Peek(PC(0)))
    [] at = "idle" -> 0
    [] OTHER -> BodyBytes(at, mode)

\* XST16 writes its last byte instead of fetching it.
FetchesAhead == IF at = "XST16" THEN 1 ELSE BytesAhead

\* The labels that can leave pc elsewhere than behind the instruction.
Diverts ==
  \/ at \in {"BRANCH", "LBRANCH", "JMP", "GOTO_SUBROUTINE", "INTERRUPT_VECTOR"}
  \/ at = "PULL_REGISTERS" /\ Has(temp, \h80)
  \/ at = "EXG" /\ 5 \in {Row(Peek(PC(0))), Col(Peek(PC(0)))}
  \/ at = "TFR" /\ Col(Peek(PC(0))) = 5

\* A label that goes to its end.
Completes ==
  /\ Return
  /\ Moves(Ahead, FetchesAhead)
  /\ Diverts \/ reg'["pc"] = PC(BytesAhead)

LEMMA CyclesOf ==
  \A m, k, t, s :
    /\ \A l \in RmwOps : BodyCycles(l, m, k, t, s) = IF m = "ea" THEN 3 ELSE 1
    /\ \A l \in {"XNC8", "TST8"} : BodyCycles(l, m, k, t, s) = IF m = "ea" THEN 3 ELSE 1
    /\ BodyCycles("JMP", m, k, t, s) = 0
    /\ \A l \in Alu8Ops : BodyCycles(l, m, k, t, s) = 1
    /\ \A l \in {"ST8", "XST8", "LEA_xy", "LEA_us", "NOP", "DAA", "SEX", "X18"} :
         BodyCycles(l, m, k, t, s) = 1
    /\ \A l \in {"LD16", "ST16", "XST16", "ORCC", "ANDCC", "ABX", "BRANCH",
               "GOTO_SUBROUTINE"} : BodyCycles(l, m, k, t, s) = 2
    /\ \A l \in {"SUB16", "CMP16", "ADD16", "XADD16", "XANDCC"} : BodyCycles(l, m, k, t, s) = 3
    /\ BodyCycles("LBRANCH", m, k, t, s) = IF t THEN 4 ELSE 3
    /\ \A l \in {"JSR", "RTS", "SWI_PUSHED", "PUSHED", "INTERRUPT_VECTOR"} :
         BodyCycles(l, m, k, t, s) = 4
    /\ BodyCycles("TFR", m, k, t, s) = 5
    /\ BodyCycles("BSR", m, k, t, s) = 6
    /\ BodyCycles("EXG", m, k, t, s) = 7
    /\ BodyCycles("LBSR", m, k, t, s) = 8
    /\ BodyCycles("MUL", m, k, t, s) = 10
    /\ \A l \in SoftwareLabels : BodyCycles(l, m, k, t, s) = 18
    /\ \A l \in {"PSHS", "PSHU", "PULS", "PULU"} : BodyCycles(l, m, k, t, s) = 4 + Offset(k, 256)
    /\ BodyCycles("RTI", m, k, t, s) = IF Has(s, \h80) THEN 14 ELSE 5
  BY DEF BodyCycles, RmwOps, Alu8Ops, SoftwareLabels

LEMMA BytesOf ==
  \A m :
    /\ \A l \in Alu8Ops : BodyBytes(l, m) = IF m = "imm" THEN 1 ELSE 0
    /\ \A l \in Alu16Ops : BodyBytes(l, m) = IF m = "imm" THEN 2 ELSE 0
    /\ \A l \in {"XST8", "ORCC", "ANDCC", "XANDCC", "EXG", "TFR", "BRANCH", "BSR",
              "PSHS", "PSHU", "PULS", "PULU"} : BodyBytes(l, m) = 1
    /\ \A l \in {"XST16", "LBRANCH", "LBSR"} : BodyBytes(l, m) = 2
    /\ \A l \in RmwOps : BodyBytes(l, m) = 0
    /\ \A l \in SoftwareLabels : BodyBytes(l, m) = 0
    /\ \A l \in {"XNC8", "TST8", "JMP", "ST8", "LEA_xy", "LEA_us", "NOP", "DAA", "SEX", "X18",
               "ST16", "ABX", "GOTO_SUBROUTINE", "JSR", "RTS", "RTI", "SWI_PUSHED", "PUSHED",
               "INTERRUPT_VECTOR", "MUL", "PUSH_REGISTERS", "PULL_REGISTERS"} :
         BodyBytes(l, m) = 0
  BY DEF BodyBytes, RmwOps, Alu8Ops, Alu16Ops, SoftwareLabels

LEMMA AheadOf ==
  /\ at \notin Calls \cup {"PUSH_REGISTERS", "PULL_REGISTERS", "idle"} =>
        Ahead = BodyCycles(at, mode, Peek(PC(0)), cond, Peek(reg["s"]))
  /\ at \notin Calls \cup {"idle"} => BytesAhead = BodyBytes(at, mode)
  /\ at # "XST16" => FetchesAhead = BytesAhead
  BY DEF Ahead, BytesAhead, FetchesAhead

LEMMA PCs ==
  ASSUME DataOK
  PROVE  /\ PC(0) = reg["pc"]
         /\ \A v : At(v)["pc"] = v /\ \A r \in Registers \ {"pc"} : At(v)[r] = reg[r]
<1>1. reg["pc"] \in Word /\ DOMAIN reg = Registers /\ "pc" \in Registers
  BY RegTyped DEF DataOK, RegOK, Registers, Reg16
<1>2. PC(0) = reg["pc"]
  BY <1>1, WordIs DEF PC, ToWord
<1> QED BY <1>1, <1>2 DEF At

LEMMA AssignPC ==
  ASSUME DataOK, regop \in {"a", "b"} \cup Names16, NEW p, NEW v
  PROVE  Assign(p, v)["pc"] = p
<1>1. DOMAIN reg = Registers /\ "pc" \in Registers /\ regop # "pc"
  BY DEF DataOK, RegOK, Registers, Reg16, Names16
<1> QED BY <1>1 DEF Assign

LEMMA OperandMoves ==
  ASSUME DataOK, mode \in {"imm", "ea", "a", "b"}
  PROVE  /\ Reads(OperandReads, IF mode \in {"a", "b"} THEN 0 ELSE 1,
                  IF mode = "imm" THEN 1 ELSE 0)
         /\ OperandPC = PC(IF mode = "imm" THEN 1 ELSE 0)
<1>1. CASE mode = "imm"
  BY <1>1, ReadOneArg DEF OperandReads, OperandPC
<1>2. CASE mode = "ea"
  <2>1. ea \in Word /\ "data" \in Roles \ Fetches
    BY DEF DataOK, Roles, Fetches
  <2>2. Reads(<<Rd(ea, "data")>>, 1, 0)
    BY <2>1, ReadOne
  <2> QED BY <1>2, <2>2 DEF OperandReads, OperandPC
<1>3. CASE mode \in {"a", "b"}
  BY <1>3, NoReads DEF OperandReads, OperandPC
<1> QED BY <1>1, <1>2, <1>3

LEMMA ReadTwo ==
  ASSUME DataOK, NEW a \in Word, NEW b \in Word
  PROVE  Reads(<<Rd(a, "data"), Rd(b, "data")>>, 2, 0)
<1> DEFINE c == [k \in 1..2 |-> IF k = 1 THEN a ELSE b]
<1>1. c \in [1..2 -> Word] /\ c[1] = a /\ c[2] = b
  OBVIOUS
<1>2. "data" \in Roles /\ "data" \notin Fetches
  BY DEF Roles, Fetches
<1> HIDE DEF c
<1>3. Reads([k \in 1..2 |-> Rd(c[k], "data")], 2, 0)
  BY <1>1, <1>2, ReadMany
<1>4. [k \in 1..2 |-> Rd(c[k], "data")] = <<Rd(c[1], "data"), Rd(c[2], "data")>>
  OBVIOUS
<1> QED BY <1>1, <1>3, <1>4

LEMMA Operand16Moves ==
  ASSUME DataOK, mode \in {"imm", "ea"}
  PROVE  /\ Reads(OperandReads16, 2, IF mode = "imm" THEN 2 ELSE 0)
         /\ OperandPC16 = PC(IF mode = "imm" THEN 2 ELSE 0)
<1>1. CASE mode = "imm"
  BY <1>1, ReadTwoArgs DEF OperandReads16, OperandPC16
<1>2. CASE mode = "ea"
  <2>1. ea \in Word /\ ToWord(ea + 1) \in Word
    BY ToWordTyped, WordIs DEF DataOK
  <2>2. Reads(<<Rd(ea, "data"), Rd(ToWord(ea + 1), "data")>>, 2, 0)
    BY <2>1, ReadTwo
  <2> QED BY <1>2, <2>2 DEF OperandReads16, OperandPC16
<1> QED BY <1>1, <1>2

LEMMA ReadDeadAt ==
  ASSUME DataOK, NEW i \in Int
  PROVE  Reads(<<Rd(PC(i), "dead")>>, 1, 0)
  BY ReadDead DEF Dead

-----------------------------------------------------------------------------
\* Dead cycles behind a re-read at PC.
LEMMA DeadMoves ==
  ASSUME DataOK, NEW n \in Nat
  PROVE  Reads(<<Dead(0)>> \o Vma(n), 1 + n, 0)
<1>1. Reads(<<Dead(0)>>, 1, 0) /\ Reads(Vma(n), n, 0)
  BY ReadDead, ReadVma
<1> QED BY <1>1, ReadsJoin

LEMMA InherentCompletes == CoreInv /\ (NOP \/ DAA \/ SEX) => Completes
<1> SUFFICES ASSUME CoreInv, NOP \/ DAA \/ SEX PROVE Completes
  OBVIOUS
<1>1. DataOK
  BY DEF CoreInv
<1>2. at \in {"NOP", "DAA", "SEX"} /\ Bus(<<Dead(0)>>) /\ mem' = mem /\ Return
  BY DEF NOP, DAA, SEX
<1>3. Moves(1, 0)
  BY <1>1, <1>2, ReadDead, ReadsMove
<1>4. Ahead = 1 /\ BytesAhead = 0 /\ FetchesAhead = 0
  BY <1>2, AheadOf, CyclesOf, BytesOf DEF Calls
<1>5. reg'["pc"] = reg["pc"]
  <2>1. "pc" \in DOMAIN reg
    BY <1>1 DEF DataOK, RegOK, Registers, Reg16
  <2> QED BY <2>1 DEF NOP, DAA, SEX
<1> QED BY <1>1, <1>2, <1>3, <1>4, <1>5, PCs DEF Completes

LEMMA AbxMulCompletes == CoreInv /\ (ABX \/ MUL) => Completes
<1> SUFFICES ASSUME CoreInv, ABX \/ MUL PROVE Completes
  OBVIOUS
<1>1. DataOK
  BY DEF CoreInv
<1>2. PICK n \in {1, 9} : /\ Bus(<<Dead(0)>> \o Vma(n)) /\ mem' = mem /\ Return
                          /\ at = IF n = 1 THEN "ABX" ELSE "MUL"
  <2>1. CASE ABX
    BY <2>1 DEF ABX
  <2>2. CASE MUL
    BY <2>2 DEF MUL
  <2> QED BY <2>1, <2>2
<1>3. Moves(1 + n, 0)
  <2>1. n \in Nat
    OBVIOUS
  <2>2. Reads(<<Dead(0)>> \o Vma(n), 1 + n, 0) /\ 1 + n \in Nat
    BY <1>1, <2>1, DeadMoves
  <2> QED BY <1>2, <2>2, ReadsMove
<1>4. Ahead = 1 + n /\ BytesAhead = 0 /\ FetchesAhead = 0
  <2>1. CASE n = 1
    BY <1>2, <2>1, AheadOf, CyclesOf, BytesOf DEF Calls
  <2>2. CASE n = 9
    BY <1>2, <2>2, AheadOf, CyclesOf, BytesOf DEF Calls
  <2> QED BY <2>1, <2>2
<1>5. reg'["pc"] = reg["pc"]
  <2>1. "pc" \in DOMAIN reg
    BY <1>1 DEF DataOK, RegOK, Registers, Reg16
  <2> QED BY <2>1 DEF ABX, MUL
<1> QED BY <1>1, <1>2, <1>3, <1>4, <1>5, PCs DEF Completes

LEMMA X18Completes == CoreInv /\ X18 => Completes
<1> SUFFICES ASSUME CoreInv, X18 PROVE Completes
  OBVIOUS
<1>1. DataOK
  BY DEF CoreInv
<1>2. PC(0) \in Word /\ "data" \in Roles \ Fetches
  BY <1>1, PCTyped DEF DataOK, Roles, Fetches
<1>3. Moves(1, 0)
  BY <1>1, <1>2, ReadOne, ReadsMove DEF X18
<1>4. Ahead = 1 /\ BytesAhead = 0 /\ FetchesAhead = 0
  BY AheadOf, CyclesOf, BytesOf DEF Calls, X18
<1> QED BY <1>1, <1>3, <1>4, PCs DEF Completes, X18

LEMMA JmpCompletes == CoreInv /\ JMP => Completes
<1> SUFFICES ASSUME CoreInv, JMP PROVE Completes
  OBVIOUS
<1>1. DataOK
  BY DEF CoreInv
<1>2. Moves(0, 0)
  BY <1>1, StaysMove DEF JMP
<1>3. Ahead = 0 /\ BytesAhead = 0 /\ FetchesAhead = 0
  BY AheadOf, CyclesOf, BytesOf DEF Calls, JMP
<1> QED BY <1>2, <1>3 DEF Completes, Diverts, JMP

LEMMA LeaCompletes == CoreInv /\ (LEA_xy \/ LEA_us) => Completes
<1> SUFFICES ASSUME CoreInv, LEA_xy \/ LEA_us PROVE Completes
  OBVIOUS
<1>1. DataOK /\ regop \in Names16
  BY DEF CoreInv, ControlOK, OperandsLatched, LEA_xy, LEA_us
<1>2. /\ at \in {"LEA_xy", "LEA_us"} /\ Bus(Vma(1)) /\ mem' = mem /\ Return
      /\ reg' = Assign(PC(0), ea)
  BY DEF LEA_xy, LEA_us
<1>3. Moves(1, 0)
  <2>1. Reads(Vma(1), 1, 0)
    BY <1>1, ReadVma
  <2> QED BY <1>2, <2>1, ReadsMove
<1>4. Ahead = 1 /\ BytesAhead = 0 /\ FetchesAhead = 0
  BY <1>2, AheadOf, CyclesOf, BytesOf DEF Calls
<1> QED BY <1>1, <1>2, <1>3, <1>4, AssignPC DEF Completes

LEMMA FlagMasksComplete == CoreInv /\ (ORCC \/ ANDCC) => Completes
<1> SUFFICES ASSUME CoreInv, ORCC \/ ANDCC PROVE Completes
  OBVIOUS
<1>1. DataOK /\ mode = "imm"
  BY DEF CoreInv, ControlOK, OperandsLatched, ORCC, ANDCC
<1>2. /\ at \in {"ORCC", "ANDCC"} /\ Bus(OperandReads \o <<Rd(OperandPC, "dead")>>)
      /\ mem' = mem /\ Return /\ reg' = At(OperandPC)
  BY DEF ORCC, ANDCC
<1>3. Reads(OperandReads, 1, 1) /\ OperandPC = PC(1)
  BY <1>1, OperandMoves
<1>4. Reads(<<Rd(PC(1), "dead")>>, 1, 0)
  BY <1>1, ReadDeadAt
<1>5. Reads(OperandReads \o <<Rd(OperandPC, "dead")>>, 2, 1)
  <2>1. Reads(OperandReads \o <<Rd(OperandPC, "dead")>>, 1 + 1, 1)
    BY <1>3, <1>4, ReadsJoin
  <2> QED BY <2>1
<1>6. Moves(2, 1)
  BY <1>2, <1>5, ReadsMove
<1>7. Ahead = 2 /\ BytesAhead = 1 /\ FetchesAhead = 1
  BY <1>2, AheadOf, CyclesOf, BytesOf DEF Calls
<1> QED BY <1>1, <1>2, <1>3, <1>6, <1>7, PCs DEF Completes

LEMMA TestCompletes == CoreInv /\ TST8 => Completes
<1> SUFFICES ASSUME CoreInv, TST8 PROVE Completes
  OBVIOUS
<1> DEFINE n == IF mode \in {"a", "b"} THEN 1 ELSE 2
           m == IF mode \in {"a", "b"} THEN 0 ELSE 1
<1>1. DataOK /\ mode \in {"ea", "a", "b"}
  BY DEF CoreInv, ControlOK, OperandsLatched, TST8
<1>2. /\ at = "TST8" /\ Bus(OperandReads \o Vma(n)) /\ mem' = mem /\ Return
      /\ reg' = At(OperandPC)
  BY DEF TST8
<1>3. Reads(OperandReads, m, 0) /\ OperandPC = PC(0)
  BY <1>1, OperandMoves
<1>4. Reads(Vma(n), n, 0)
  BY <1>1, ReadVma
<1>5. n \in Nat /\ m \in Nat /\ m + n = IF mode = "ea" THEN 3 ELSE 1
  BY <1>1
<1> HIDE DEF n, m
<1>6. Reads(OperandReads \o Vma(n), m + n, 0) /\ m + n \in Nat
  BY <1>3, <1>4, <1>5, ReadsJoin
<1>7. Moves(m + n, 0)
  BY <1>2, <1>6, ReadsMove
<1>8. Ahead = m + n /\ BytesAhead = 0 /\ FetchesAhead = 0
  BY <1>2, <1>5, AheadOf, CyclesOf, BytesOf DEF Calls
<1> QED BY <1>1, <1>2, <1>3, <1>7, <1>8, PCs DEF Completes

LEMMA ReadModifyWriteCompletes == CoreInv /\ ReadModifyWrite => Completes
<1> SUFFICES ASSUME CoreInv, ReadModifyWrite PROVE Completes
  OBVIOUS
<1> DEFINE r == Rmw(at, Operand, cc)
           reads == OperandReads \o <<Rd(OperandPC, "dead")>>
           m == IF mode = "ea" THEN 1 ELSE 0
<1>1. /\ at \in RmwOps /\ Bus(reads \o OperandWrites(r.value)) /\ Return
      /\ reg' = OperandReg(r.value) /\ mem' = OperandMem(r.value)
  BY DEF ReadModifyWrite
<1>2. DataOK /\ mode \in {"ea", "a", "b"}
  BY <1>1 DEF CoreInv, ControlOK, OperandsLatched
<1>3. r.value \in Byte
  <2>1. Operand \in Byte
    BY <1>2, OperandTyped
  <2>2. cc \in SUBSET Flags
    BY <1>2 DEF DataOK
  <2>3. r \in Result8
    BY <1>1, <2>1, <2>2, RmwTyped
  <2> QED BY <2>3 DEF Result8
<1> HIDE DEF r
<1>4. Reads(OperandReads, m, 0) /\ OperandPC = PC(0) /\ m \in Nat
  BY <1>2, OperandMoves
<1>5. Reads(<<Rd(PC(0), "dead")>>, 1, 0)
  BY <1>2, ReadDeadAt
<1> HIDE DEF m
<1>6. Reads(reads, m + 1, 0) /\ m + 1 \in Nat
  <2>1. Reads(OperandReads \o <<Rd(PC(0), "dead")>>, m + 1, 0)
    BY <1>4, <1>5, ReadsJoin
  <2> QED BY <1>4, <2>1
<1> USE DEF m
<1> HIDE DEF reads
<1>7. Writes(OperandWrites(r.value), m)
  <2>1. CASE mode = "ea"
    <3>1. ea \in Word /\ mem' = Stored(ea, <<r.value>>)
      BY <1>1, <1>2, <2>1 DEF DataOK, OperandMem
    <3> QED BY <1>3, <2>1, <3>1, WriteOne DEF OperandWrites
  <2>2. CASE mode # "ea"
    <3>1. mem' = mem
      BY <1>1, <2>2 DEF OperandMem
    <3> QED BY <2>2, <3>1, NoWrites DEF OperandWrites
  <2> QED BY <2>1, <2>2
<1>8. Moves(m + 1 + m, 0)
  BY <1>1, <1>4, <1>6, <1>7, WritesMove
<1>9. Ahead = m + 1 + m /\ BytesAhead = 0 /\ FetchesAhead = 0
  <2>1. at \notin Calls \cup {"PUSH_REGISTERS", "PULL_REGISTERS", "idle", "XST16"}
    BY <1>1 DEF Calls, RmwOps
  <2> QED BY <1>1, <1>2, <2>1, AheadOf, CyclesOf, BytesOf
<1>10. reg'["pc"] = PC(0)
  <2>1. CASE mode \in {"a", "b"}
    <3>1. reg' = [reg EXCEPT ![mode] = r.value]
      BY <1>1, <2>1 DEF OperandReg
    <3>2. "pc" \in DOMAIN reg
      BY <1>2 DEF DataOK, RegOK, Registers, Reg16
    <3>3. reg'["pc"] = reg["pc"]
      BY <2>1, <3>1, <3>2
    <3> QED BY <1>2, <3>3, PCs
  <2>2. CASE mode \notin {"a", "b"}
    BY <1>1, <1>2, <1>4, <2>2, PCs DEF OperandReg
  <2> QED BY <2>1, <2>2
<1> QED BY <1>1, <1>8, <1>9, <1>10 DEF Completes

LEMMA Accumulate8Completes == CoreInv /\ Accumulate8 => Completes
<1> SUFFICES ASSUME CoreInv, Accumulate8 PROVE Completes
  OBVIOUS
<1> DEFINE r == Alu8(at, RegOp, Operand, cc)
           m == IF mode = "imm" THEN 1 ELSE 0
<1>1. /\ at \in Alu8Ops /\ Bus(OperandReads) /\ mem' = mem /\ Return
      /\ reg' = IF at \in Compares8 THEN At(OperandPC) ELSE Assign(OperandPC, r.value)
  BY DEF Accumulate8
<1>2. DataOK /\ mode \in {"imm", "ea"} /\ regop \in {"a", "b"}
  BY <1>1 DEF CoreInv, ControlOK, OperandsLatched
<1> HIDE DEF r
<1>3. Reads(OperandReads, 1, m) /\ OperandPC = PC(m)
  BY <1>2, OperandMoves
<1>4. Moves(1, m)
  BY <1>1, <1>3, ReadsMove
<1>5. Ahead = 1 /\ BytesAhead = m /\ FetchesAhead = m
  <2>1. at \notin Calls \cup {"PUSH_REGISTERS", "PULL_REGISTERS", "idle", "XST16"}
    BY <1>1 DEF Calls, Alu8Ops
  <2> QED BY <1>1, <2>1, AheadOf, CyclesOf, BytesOf, SMTT(30)
<1>6. reg'["pc"] = OperandPC
  BY <1>1, <1>2, PCs, AssignPC
<1> QED BY <1>1, <1>3, <1>4, <1>5, <1>6 DEF Completes

LEMMA Accumulate16Completes == CoreInv /\ Accumulate16 => Completes
<1> SUFFICES ASSUME CoreInv, Accumulate16 PROVE Completes
  OBVIOUS
<1> DEFINE r == Alu16(at, RegOp, Operand16, cc)
           dead == IF at = "LD16" THEN <<>> ELSE <<Rd(OperandPC16, "dead")>>
           n == IF at = "LD16" THEN 0 ELSE 1
           m == IF mode = "imm" THEN 2 ELSE 0
<1>1. /\ at \in Alu16Ops /\ Bus(OperandReads16 \o dead) /\ mem' = mem /\ Return
      /\ reg' = IF at \in Compares16 THEN At(OperandPC16) ELSE Assign(OperandPC16, r.value)
  BY DEF Accumulate16
<1>2. DataOK /\ mode \in {"imm", "ea"} /\ regop \in Names16
  BY <1>1 DEF CoreInv, ControlOK, OperandsLatched
<1> HIDE DEF r
<1>3. Reads(OperandReads16, 2, m) /\ OperandPC16 = PC(m)
  BY <1>2, Operand16Moves
<1>4. Reads(dead, n, 0) /\ n \in Nat
  <2>1. Reads(<<Rd(PC(m), "dead")>>, 1, 0)
    BY <1>2, ReadDeadAt
  <2> QED BY <1>3, <2>1, NoReads
<1>5. Ahead = 2 + n /\ BytesAhead = m /\ FetchesAhead = m
  <2>1. at \notin Calls \cup {"PUSH_REGISTERS", "PULL_REGISTERS", "idle", "XST16"}
    BY <1>1 DEF Calls, Alu16Ops
  <2>2. BytesAhead = m /\ FetchesAhead = m
    BY <1>1, <2>1, AheadOf, BytesOf
  <2>3. Ahead = 2 + n
    BY <1>1, <2>1, AheadOf, CyclesOf DEF Alu16Ops
  <2> QED BY <2>2, <2>3
<1> HIDE DEF dead, n, m
<1>6. Reads(OperandReads16 \o dead, 2 + n, m) /\ 2 + n \in Nat
  BY <1>3, <1>4, ReadsJoin
<1>7. Moves(2 + n, m)
  BY <1>1, <1>6, ReadsMove
<1>8. reg'["pc"] = OperandPC16
  BY <1>1, <1>2, PCs, AssignPC
<1> QED BY <1>1, <1>3, <1>5, <1>7, <1>8 DEF Completes

LEMMA Store8Completes == CoreInv /\ ST8 => Completes
<1> SUFFICES ASSUME CoreInv, ST8 PROVE Completes
  OBVIOUS
<1>1. /\ at = "ST8" /\ Bus(<<Wr(ea, RegOp)>>) /\ mem' = Stored(ea, <<RegOp>>)
      /\ Return /\ reg' = reg
  BY DEF ST8
<1>2. DataOK /\ regop \in {"a", "b"}
  BY <1>1 DEF CoreInv, ControlOK, OperandsLatched
<1>3. ea \in Word /\ RegOp \in Byte
  BY <1>2, RegOpTyped DEF DataOK
<1> DEFINE w == <<Wr(ea, RegOp)>>
<1>4. Writes(w, 1)
  BY <1>1, <1>3, WriteOne
<1>5. w \in Seq(WriteAccess)
  BY <1>4 DEF Writes
<1> HIDE DEF w
<1>6. Bus(<<>> \o w)
  BY <1>1, <1>5 DEF w
<1>7. Moves(0 + 1, 0)
  BY <1>4, <1>6, NoReads, WritesMove
<1>8. Ahead = 1 /\ BytesAhead = 0 /\ FetchesAhead = 0
  BY <1>1, AheadOf, CyclesOf, BytesOf DEF Calls
<1> QED BY <1>1, <1>2, <1>7, <1>8, PCs DEF Completes

LEMMA Store16Completes == CoreInv /\ ST16 => Completes
<1> SUFFICES ASSUME CoreInv, ST16 PROVE Completes
  OBVIOUS
<1> DEFINE w == <<Wr(ea, Hi(RegOp)), Wr(ToWord(ea + 1), Lo(RegOp))>>
<1>1. /\ at = "ST16" /\ Bus(w) /\ mem' = Stored(ea, <<Hi(RegOp), Lo(RegOp)>>)
      /\ Return /\ reg' = reg
  BY DEF ST16
<1>2. DataOK /\ regop \in Names16
  BY <1>1 DEF CoreInv, ControlOK, OperandsLatched
<1>3. ea \in Word /\ Hi(RegOp) \in Byte /\ Lo(RegOp) \in Byte
  BY <1>2, RegOpTyped, HalvesTyped DEF DataOK
<1>4. ToWord(ea + 1) \in Word
  BY <1>3, ToWordTyped, WordIs
<1>5. Writes(w, 2)
  BY <1>1, <1>3, <1>4, WriteUp
<1>6. w \in Seq(WriteAccess)
  BY <1>5 DEF Writes
<1> HIDE DEF w
<1>7. Bus(<<>> \o w)
  BY <1>1, <1>6
<1>8. Moves(0 + 2, 0)
  BY <1>5, <1>7, NoReads, WritesMove
<1>9. Ahead = 2 /\ BytesAhead = 0 /\ FetchesAhead = 0
  BY <1>1, AheadOf, CyclesOf, BytesOf DEF Calls
<1> QED BY <1>1, <1>2, <1>8, <1>9, PCs DEF Completes

LEMMA Xst8Completes == CoreInv /\ XST8 => Completes
<1> SUFFICES ASSUME CoreInv, XST8 PROVE Completes
  OBVIOUS
<1>1. /\ at = "XST8" /\ Bus(OperandReads) /\ mem' = mem /\ Return /\ reg' = At(OperandPC)
  BY DEF XST8
<1>2. DataOK /\ mode = "imm"
  BY <1>1 DEF CoreInv, ControlOK, OperandsLatched
<1>3. Reads(OperandReads, 1, 1) /\ OperandPC = PC(1)
  BY <1>2, OperandMoves
<1>4. Moves(1, 1)
  BY <1>1, <1>3, ReadsMove
<1>5. Ahead = 1 /\ BytesAhead = 1 /\ FetchesAhead = 1
  BY <1>1, AheadOf, CyclesOf, BytesOf DEF Calls
<1> QED BY <1>1, <1>2, <1>3, <1>4, <1>5, PCs DEF Completes

LEMMA Xst16Completes == CoreInv /\ XST16 => Completes
<1> SUFFICES ASSUME CoreInv, XST16 PROVE Completes
  OBVIOUS
<1> DEFINE w == <<Wr(OperandPC, Lo(RegOp))>>
<1>1. /\ at = "XST16" /\ Bus(OperandReads \o w) /\ mem' = Stored(OperandPC, <<Lo(RegOp)>>)
      /\ Return /\ reg' = At(ToWord(OperandPC + 1))
  BY DEF XST16
<1>2. DataOK /\ mode = "imm" /\ regop \in Names16
  BY <1>1 DEF CoreInv, ControlOK, OperandsLatched
<1>3. Reads(OperandReads, 1, 1) /\ OperandPC = PC(1)
  BY <1>2, OperandMoves
<1>4. PC(1) \in Word /\ Lo(RegOp) \in Byte
  <2>1. PC(1) \in Word
    BY <1>2, PCTyped DEF DataOK
  <2>2. RegOp \in Word
    BY <1>2, RegOpTyped
  <2> QED BY <2>1, <2>2, HalvesTyped
<1>5. Writes(w, 1)
  BY <1>1, <1>3, <1>4, WriteOne
<1> HIDE DEF w
<1>6. Moves(1 + 1, 1)
  BY <1>1, <1>3, <1>5, WritesMove
<1>7. Ahead = 2 /\ BytesAhead = 2 /\ FetchesAhead = 1
  BY <1>1, AheadOf, CyclesOf, BytesOf DEF Calls, FetchesAhead
<1>8. ToWord(OperandPC + 1) = PC(2)
  <2>1. reg["pc"] \in Int
    BY <1>2, RegTyped, WordIs DEF DataOK
  <2>2. (((reg["pc"] + 1) % 65536) + 1) % 65536 = (reg["pc"] + 2) % 65536
    BY <2>1
  <2> QED BY <1>3, <2>2 DEF PC, ToWord
<1> QED BY <1>1, <1>2, <1>6, <1>7, <1>8, PCs DEF Completes

LEMMA GotoSubroutineCompletes == CoreInv /\ GOTO_SUBROUTINE => Completes
<1> SUFFICES ASSUME CoreInv, GOTO_SUBROUTINE PROVE Completes
  OBVIOUS
<1> DEFINE s == reg["s"]  hi == Hi(reg["pc"])  lo == Lo(reg["pc"])  bytes == <<hi, lo>>
           w == [k \in 1..2 |-> Wr(ToWord(s - k), bytes[2 + 1 - k])]
<1>1. DataOK
  BY DEF CoreInv
<1>2. s \in Word /\ hi \in Byte /\ lo \in Byte
  BY <1>1, RegTyped, HalvesTyped DEF DataOK
<1>3. /\ at = "GOTO_SUBROUTINE" /\ Bus(<<Wr(ToWord(s - 1), lo), Wr(ToWord(s - 2), hi)>>)
      /\ mem' = Stored(ToWord(s - 2), <<hi, lo>>) /\ Return
  BY DEF GOTO_SUBROUTINE
<1> HIDE DEF s, hi, lo
<1>4. w = <<Wr(ToWord(s - 1), lo), Wr(ToWord(s - 2), hi)>>
  OBVIOUS
<1>5. bytes \in Seq(Byte) /\ Len(bytes) = 2 /\ 2 \in Nat /\ 2 <= 12
  BY <1>2
<1>6. Writes(w, 2)
  BY <1>2, <1>3, <1>5, WriteDown
<1>7. w \in Seq(WriteAccess)
  BY <1>6 DEF Writes
<1>8. Bus(w)
  BY <1>3, <1>4
<1> HIDE DEF w
<1>9. Bus(<<>> \o w)
  BY <1>7, <1>8
<1>10. Moves(0 + 2, 0)
  BY <1>6, <1>9, NoReads, WritesMove
<1>11. Ahead = 2 /\ BytesAhead = 0 /\ FetchesAhead = 0
  BY <1>3, AheadOf, CyclesOf, BytesOf DEF Calls
<1> QED BY <1>3, <1>10, <1>11 DEF Completes, Diverts

LEMMA InterruptVectorCompletes == CoreInv /\ INTERRUPT_VECTOR => Completes
<1> SUFFICES ASSUME CoreInv, INTERRUPT_VECTOR PROVE Completes
  OBVIOUS
<1> DEFINE data == <<Rd(ea, "data"), Rd(ToWord(ea + 1), "data")>>
<1>1. DataOK
  BY DEF CoreInv
<1>2. /\ at = "INTERRUPT_VECTOR" /\ Bus(Vma(1) \o data \o Vma(1)) /\ mem' = mem /\ Return
  BY DEF INTERRUPT_VECTOR
<1>3. ea \in Word /\ ToWord(ea + 1) \in Word
  BY <1>1, ToWordTyped, WordIs DEF DataOK
<1>4. Reads(data, 2, 0) /\ Reads(Vma(1), 1, 0)
  BY <1>1, <1>3, ReadTwo, ReadVma
<1> HIDE DEF data
<1>5. Reads(Vma(1) \o data, 1 + 2, 0)
  BY <1>4, ReadsJoin
<1>6. Reads(Vma(1) \o data \o Vma(1), 1 + 2 + 1, 0)
  <2>1. 1 + 2 \in Nat
    OBVIOUS
  <2> QED BY <1>4, <1>5, <2>1, ReadsJoin
<1>7. Moves(1 + 2 + 1, 0)
  BY <1>2, <1>6, ReadsMove
<1>8. Ahead = 4 /\ BytesAhead = 0 /\ FetchesAhead = 0
  BY <1>2, AheadOf, CyclesOf, BytesOf DEF Calls
<1> QED BY <1>2, <1>7, <1>8 DEF Completes, Diverts

\* Operand bytes and the VMA cycles behind them.
LEMMA ArgsMove ==
  ASSUME DataOK, NEW n \in Nat
  PROVE  /\ Reads(<<Arg(0)>> \o Vma(n), 1 + n, 1)
         /\ Reads(<<Arg(0), Arg(1)>> \o Vma(n), 2 + n, 2)
<1>1. Reads(<<Arg(0)>>, 1, 1) /\ Reads(<<Arg(0), Arg(1)>>, 2, 2) /\ Reads(Vma(n), n, 0)
  BY ReadOneArg, ReadTwoArgs, ReadVma
<1>2. Reads(<<Arg(0)>> \o Vma(n), 1 + n, 1)
  BY <1>1, ReadsJoin
<1>3. Reads(<<Arg(0), Arg(1)>> \o Vma(n), 2 + n, 2)
  BY <1>1, ReadsJoin
<1> QED BY <1>2, <1>3

LEMMA DirectCompletes == CoreInv /\ DIRECT => Completes
<1> SUFFICES ASSUME CoreInv, DIRECT PROVE Completes
  OBVIOUS
<1>1. DataOK
  BY DEF CoreInv
<1>2. /\ at = "DIRECT" /\ Bus(<<Arg(0)>> \o Vma(1)) /\ mem' = mem /\ Return /\ reg' = At(PC(1))
  BY DEF DIRECT
<1>3. Reads(<<Arg(0)>> \o Vma(1), 1 + 1, 1)
  BY <1>1, ArgsMove
<1>4. Moves(1 + 1, 1)
  BY <1>2, <1>3, ReadsMove
<1>5. Ahead = 2 /\ BytesAhead = 1 /\ FetchesAhead = 1
  BY <1>2 DEF Ahead, BytesAhead, FetchesAhead, Calls, AddressCycles, AddressBytes
<1> QED BY <1>1, <1>2, <1>4, <1>5, PCs DEF Completes

LEMMA ExtendedCompletes == CoreInv /\ EXTENDED => Completes
<1> SUFFICES ASSUME CoreInv, EXTENDED PROVE Completes
  OBVIOUS
<1>1. DataOK
  BY DEF CoreInv
<1>2. /\ at = "EXTENDED" /\ Bus(<<Arg(0), Arg(1)>> \o Vma(1)) /\ mem' = mem /\ Return
      /\ reg' = At(PC(2))
  BY DEF EXTENDED
<1>3. Reads(<<Arg(0), Arg(1)>> \o Vma(1), 2 + 1, 2)
  BY <1>1, ArgsMove
<1>4. Moves(2 + 1, 2)
  BY <1>2, <1>3, ReadsMove
<1>5. Ahead = 3 /\ BytesAhead = 2 /\ FetchesAhead = 2
  BY <1>2 DEF Ahead, BytesAhead, FetchesAhead, Calls, AddressCycles, AddressBytes
<1> QED BY <1>1, <1>2, <1>4, <1>5, PCs DEF Completes

LEMMA PairIs ==
  ASSUME NEW S, NEW x \in S, NEW y \in S
  PROVE  <<x>> \o <<y>> = <<x, y>>
<1> DEFINE l == <<x>> \o <<y>>
<1>1. l \in Seq(S) /\ Len(l) = 2 /\ l[1] = x /\ l[2] = y
  OBVIOUS
<1> HIDE DEF l
<1>2. l = [k \in 1..2 |-> l[k]]
  BY <1>1
<1>3. [k \in 1..2 |-> l[k]] = <<l[1], l[2]>>
  OBVIOUS
<1> QED BY <1>1, <1>2, <1>3 DEF l

LEMMA IndexedShortMoves ==
  ASSUME DataOK, NEW p \in Byte, IndexedShort(p), mem' = mem
  PROVE  Moves(3, 1) /\ reg'["pc"] = PC(1)
<1> DEFINE head == <<Arg(0), Dead(1)>>
<1>1. Reads(<<Arg(0)>>, 1, 1) /\ Reads(<<Dead(1)>>, 1, 0) /\ Reads(Vma(1), 1, 0)
  BY ReadOneArg, ReadDead, ReadVma
<1>2. Reads(<<Arg(0)>> \o <<Dead(1)>>, 1 + 1, 1)
  BY <1>1, ReadsJoin
<1>3. <<Arg(0)>> \o <<Dead(1)>> = head
  <2> DEFINE x == Arg(0)  y == Dead(1)
  <2>1. x \in Access /\ y \in Access
    BY ArgTyped DEF DataOK
  <2> HIDE DEF x, y
  <2>2. <<x>> \o <<y>> = <<x, y>>
    BY <2>1, PairIs
  <2> QED BY <2>2 DEF x, y
<1> HIDE DEF head
<1>4. Reads(head, 1 + 1, 1) /\ 1 + 1 \in Nat
  <2>1. Reads(head, 1 + 1, 1)
    BY <1>2, <1>3, Zenon
  <2> QED BY <2>1
<1>5. Reads(head \o Vma(1), 1 + 1 + 1, 1)
  BY <1>1, <1>4, ReadsJoin
<1>6. Moves(1 + 1 + 1, 1)
  BY <1>5, ReadsMove DEF IndexedShort, head
<1> QED BY <1>6, PCs DEF IndexedShort

LEMMA IndexedLongMoves ==
  ASSUME DataOK, NEW p \in Byte, IndexedLong(p), mem' = mem
  PROVE  /\ Moves(1 + IndexedArgs(Col(p)) + IndexedDeads(Col(p)) + IndexedVmas(Col(p))
                    + (IF Has(p, \h10) THEN 3 ELSE 0), 1 + IndexedArgs(Col(p)))
         /\ reg'["pc"] = PC(1 + IndexedArgs(Col(p)))
<1> DEFINE n == IndexedArgs(Col(p))  d == IndexedDeads(Col(p))  v == IndexedVmas(Col(p))
           base == IndexedBase(p)
           next == ToWord(base + 1)
           args == [k \in 1..(1 + n) |-> Arg(k - 1)]
           deads == [k \in 1..d |-> Dead(n + k)]
           data == <<Rd(base, "data"), Rd(next, "data")>>
           indirect == IF Has(p, \h10) THEN data \o Vma(1) ELSE <<>>
           i == IF Has(p, \h10) THEN 3 ELSE 0
<1>1. Bus(args \o deads \o Vma(v) \o indirect)
  BY DEF IndexedLong
<1>2. n \in Nat /\ d \in Nat /\ v \in Nat /\ 1 + n \in Nat
  BY DigitsTyped, IndexedCountsTyped
<1>3. base \in Word /\ next \in Word
  BY IndexedBaseTyped, ToWordTyped, WordIs
<1>4. reg'["pc"] = PC(1 + n)
  <2>1. IndexReg(p) # "pc" /\ "pc" \in DOMAIN reg
    BY IndexRegTyped DEF DataOK, RegOK, Registers, Reg16
  <2> QED BY <2>1 DEF IndexedLong
<1> HIDE DEF n, d, v, base, next
<1>5. Reads(args, 1 + n, 1 + n)
  BY <1>2, ReadArgs
<1>6. Reads(deads, d, 0)
  BY <1>2, ReadDeads
<1>7. Reads(Vma(v), v, 0) /\ Reads(Vma(1), 1, 0)
  BY <1>2, ReadVma
<1>8. Reads(indirect, i, 0) /\ i \in Nat
  <2>1. Reads(data, 2, 0)
    BY <1>3, ReadTwo
  <2> HIDE DEF data
  <2>2. Reads(data \o Vma(1), 2 + 1, 0)
    BY <1>7, <2>1, ReadsJoin
  <2> QED BY <2>2, NoReads
<1> HIDE DEF args, deads, indirect, i
<1>9. Reads(args \o deads, 1 + n + d, 1 + n) /\ 1 + n + d \in Nat
  BY <1>2, <1>5, <1>6, ReadsJoin
<1>10. Reads(args \o deads \o Vma(v), 1 + n + d + v, 1 + n) /\ 1 + n + d + v \in Nat
  BY <1>2, <1>7, <1>9, ReadsJoin
<1>11. /\ Reads(args \o deads \o Vma(v) \o indirect, 1 + n + d + v + i, 1 + n)
       /\ 1 + n + d + v + i \in Nat
  BY <1>8, <1>10, ReadsJoin
<1>12. Moves(1 + n + d + v + i, 1 + n)
  BY <1>1, <1>11, ReadsMove
<1> QED BY <1>4, <1>12 DEF n, d, v, i

LEMMA IndexedCompletes == CoreInv /\ INDEXED => Completes
<1> SUFFICES ASSUME CoreInv, INDEXED PROVE Completes
  OBVIOUS
<1> DEFINE p == Peek(PC(0))
<1>1. DataOK
  BY DEF CoreInv
<1>2. at = "INDEXED" /\ (IndexedShort(p) \/ IndexedLong(p)) /\ mem' = mem /\ Return
  BY DEF INDEXED
<1>3. p \in Byte
  BY <1>1, PeeksTyped DEF DataOK
<1>4. /\ Ahead = AddressCycles("INDEXED", p)
      /\ BytesAhead = AddressBytes("INDEXED", p) /\ FetchesAhead = BytesAhead
  BY <1>2 DEF Ahead, BytesAhead, FetchesAhead, Calls
<1> HIDE DEF p
<1>5. CASE IndexedShort(p)
  <2>1. ~Has(p, \h80)
    BY <1>5 DEF IndexedShort
  <2>2. Ahead = 3 /\ BytesAhead = 1 /\ FetchesAhead = 1
    BY <1>4, <2>1 DEF AddressCycles, AddressBytes
  <2> QED BY <1>1, <1>2, <1>3, <1>5, <2>2, IndexedShortMoves DEF Completes
<1>6. CASE IndexedLong(p)
  <2> DEFINE n == IndexedArgs(Col(p))
             c == 1 + n + IndexedDeads(Col(p)) + IndexedVmas(Col(p))
                    + (IF Has(p, \h10) THEN 3 ELSE 0)
  <2>1. Has(p, \h80)
    BY <1>6 DEF IndexedLong
  <2>2. Ahead = c /\ BytesAhead = 1 + n /\ FetchesAhead = 1 + n
    BY <1>4, <2>1 DEF AddressCycles, AddressBytes
  <2>3. Moves(c, 1 + n) /\ reg'["pc"] = PC(1 + n)
    BY <1>1, <1>2, <1>3, <1>6, IndexedLongMoves
  <2> HIDE DEF n, c
  <2> QED BY <1>2, <2>2, <2>3 DEF Completes
<1> QED BY <1>2, <1>5, <1>6

-----------------------------------------------------------------------------
\* A register that EXG and TFR do not write keeps its value.
LEMMA ExgTfrKeepsPC ==
  ASSUME NEW r, NEW S, r \in [Registers -> S], NEW c \in 0..15, c # 5, NEW v
  PROVE  ExgTfrReg(r, c, v)["pc"] = r["pc"] /\ DOMAIN ExgTfrReg(r, c, v) = Registers
<1>1. "pc" \in Registers
  BY DEF Registers, Reg16
<1>2. CASE c = 0
  BY <1>1, <1>2 DEF ExgTfrReg
<1>3. CASE c \in 1..4
  <2>1. <<"x", "y", "u", "s", "pc">>[c] # "pc"
    BY <1>3
  <2> DEFINE n == <<"x", "y", "u", "s", "pc">>[c]
  <2>2. ExgTfrReg(r, c, v) = [r EXCEPT ![n] = v]
    BY <1>3 DEF ExgTfrReg
  <2> HIDE DEF n
  <2> QED BY <1>1, <2>1, <2>2 DEF n
<1>4. CASE c \in {8, 9, 11}
  BY <1>1, <1>4 DEF ExgTfrReg
<1>5. CASE c \in {6, 7, 10} \cup (12..15)
  BY <1>1, <1>5 DEF ExgTfrReg
<1> QED BY <1>2, <1>3, <1>4, <1>5

LEMMA ExgTfrCompletes == CoreInv /\ (EXG \/ TFR) => Completes
<1> SUFFICES ASSUME CoreInv, EXG \/ TFR PROVE Completes
  OBVIOUS
<1> DEFINE high == Row(Peek(PC(0)))  low == Col(Peek(PC(0)))
           n == IF at = "EXG" THEN 6 ELSE 4
<1>1. DataOK
  BY DEF CoreInv
<1>2. at \in {"EXG", "TFR"} /\ Bus(<<Arg(0)>> \o Vma(n)) /\ mem' = mem /\ Return
  BY DEF EXG, TFR
<1>3. n \in Nat
  OBVIOUS
<1>4. high \in 0..15 /\ low \in 0..15
  <2>1. Peek(PC(0)) \in Byte
    BY <1>1, PeeksTyped DEF DataOK
  <2> QED BY <2>1, DigitsTyped
<1>5. Diverts \/ reg'["pc"] = PC(1)
  <2>1. DOMAIN At(PC(1)) = Registers /\ At(PC(1))["pc"] = PC(1)
        /\ At(PC(1)) \in [Registers -> {At(PC(1))[k] : k \in Registers}]
    <3>1. DOMAIN reg = Registers
      BY <1>1 DEF DataOK, RegOK
    <3>2. At(PC(1)) = [k \in Registers |-> At(PC(1))[k]]
      BY <3>1 DEF At
    <3> QED BY <1>1, <3>2, PCs
  <2>2. CASE EXG
    <3> DEFINE r == At(PC(1))
               v1 == ExgTfrRead(high)  v2 == ExgTfrRead(low)
               q == ExgTfrReg(r, low, v1)
    <3>1. reg' = ExgTfrReg(q, high, v2) /\ at = "EXG"
      BY <2>2 DEF EXG
    <3>2. high = 5 \/ low = 5 => Diverts
      BY <3>1 DEF Diverts
    <3> HIDE DEF v1, v2, high, low, r
    <3>3. ASSUME high # 5, low # 5 PROVE reg'["pc"] = PC(1)
      <4>1. q["pc"] = r["pc"] /\ DOMAIN q = Registers
        BY <1>4, <2>1, <3>3, ExgTfrKeepsPC DEF r
      <4>2. q \in [Registers -> {q[k] : k \in Registers}]
        <5>1. q = [k \in Registers |-> q[k]]
          <6>1. q = [k \in DOMAIN q |-> q[k]]
            BY <1>4, <2>1 DEF ExgTfrReg, r
          <6> QED BY <4>1, <6>1
        <5> QED BY <5>1
      <4> HIDE DEF q
      <4>3. ExgTfrReg(q, high, v2)["pc"] = q["pc"]
        BY <1>4, <3>3, <4>2, ExgTfrKeepsPC
      <4> QED BY <2>1, <3>1, <4>1, <4>3 DEF r
    <3> QED BY <3>2, <3>3
  <2>3. CASE TFR
    <3> DEFINE r == At(PC(1))
               v == ExgTfrRead(high)
    <3>1. reg' = ExgTfrReg(r, low, v) /\ at = "TFR"
      BY <2>3 DEF TFR
    <3>2. low = 5 => Diverts
      BY <3>1 DEF Diverts
    <3> HIDE DEF v, high, low, r
    <3>3. ASSUME low # 5 PROVE reg'["pc"] = PC(1)
      BY <1>4, <2>1, <3>1, <3>3, ExgTfrKeepsPC DEF r
    <3> QED BY <3>2, <3>3
  <2> QED BY <2>2, <2>3
<1>6. Ahead = 1 + n /\ BytesAhead = 1 /\ FetchesAhead = 1
  <2>1. CASE at = "EXG"
    BY <2>1, AheadOf, CyclesOf, BytesOf DEF Calls
  <2>2. CASE at = "TFR"
    BY <2>2, AheadOf, CyclesOf, BytesOf DEF Calls
  <2> QED BY <1>2, <2>1, <2>2
<1> HIDE DEF n
<1>7. Moves(1 + n, 1)
  BY <1>1, <1>2, <1>3, ArgsMove, ReadsMove
<1> QED BY <1>2, <1>5, <1>6, <1>7 DEF Completes

LEMMA BranchCompletes == CoreInv /\ BRANCH => Completes
<1> SUFFICES ASSUME CoreInv, BRANCH PROVE Completes
  OBVIOUS
<1>1. DataOK
  BY DEF CoreInv
<1>2. at = "BRANCH" /\ Bus(<<Arg(0)>> \o Vma(1)) /\ mem' = mem /\ Return
  BY DEF BRANCH
<1>3. Moves(1 + 1, 1)
  BY <1>1, <1>2, ArgsMove, ReadsMove
<1>4. Ahead = 2 /\ BytesAhead = 1 /\ FetchesAhead = 1
  BY <1>2, AheadOf, CyclesOf, BytesOf DEF Calls
<1> QED BY <1>2, <1>3, <1>4 DEF Completes, Diverts

LEMMA LongBranchCompletes == CoreInv /\ LBRANCH => Completes
<1> SUFFICES ASSUME CoreInv, LBRANCH PROVE Completes
  OBVIOUS
<1> DEFINE n == IF cond THEN 2 ELSE 1
<1>1. DataOK
  BY DEF CoreInv
<1>2. at = "LBRANCH" /\ Bus(<<Arg(0), Arg(1)>> \o Vma(n)) /\ mem' = mem /\ Return
  BY DEF LBRANCH
<1>3. n \in Nat /\ 2 + n \in Nat
  OBVIOUS
<1>4. Ahead = 2 + n /\ BytesAhead = 2 /\ FetchesAhead = 2
  BY <1>2, AheadOf, CyclesOf, BytesOf DEF Calls
<1> HIDE DEF n
<1>5. Moves(2 + n, 2)
  BY <1>1, <1>2, <1>3, ArgsMove, ReadsMove
<1> QED BY <1>2, <1>4, <1>5 DEF Completes, Diverts

-----------------------------------------------------------------------------
LEMMA PushRegistersCompletes == CoreInv /\ PUSH_REGISTERS => Completes
<1> SUFFICES ASSUME CoreInv, PUSH_REGISTERS PROVE Completes
  OBVIOUS
<1> DEFINE frame == Frame(temp)  n == Offset(temp, 256)  p == reg[regop]
           w == [k \in 1..n |-> Wr(ToWord(p - k), frame[n + 1 - k])]
<1>1. DataOK /\ regop \in {"s", "u"}
  BY DEF CoreInv, ControlOK, OperandsLatched, PUSH_REGISTERS
<1>2. frame \in Seq(Byte) /\ Len(frame) = n /\ n <= 12
  BY <1>1, FrameTyped
<1>3. n \in Nat
  BY OffsetIsNat
<1>4. p \in Word
  BY <1>1, RegTyped DEF DataOK
<1>5. /\ at = "PUSH_REGISTERS" /\ Bus([k \in 1..Len(frame) |->
            Wr(ToWord(p - k), frame[Len(frame) + 1 - k])])
      /\ mem' = Stored(ToWord(p - Len(frame)), frame) /\ Return
      /\ reg' = [reg EXCEPT ![regop] = ToWord(p - Len(frame))]
  BY DEF PUSH_REGISTERS
<1>6. reg'["pc"] = reg["pc"]
  <2>1. "pc" \in DOMAIN reg
    BY <1>1 DEF DataOK, RegOK, Registers, Reg16
  <2> QED BY <1>1, <1>5, <2>1
<1>7. Ahead = n /\ BytesAhead = 0 /\ FetchesAhead = 0
  BY <1>5, AheadOf, BytesOf DEF Ahead, Calls
<1> HIDE DEF frame, n, p
<1>8. Bus(w) /\ mem' = Stored(ToWord(p - n), frame)
  BY <1>2, <1>5
<1>9. Writes(w, n)
  BY <1>2, <1>3, <1>4, <1>8, WriteDown
<1>10. w \in Seq(WriteAccess)
  BY <1>9 DEF Writes
<1> HIDE DEF w
<1>11. Bus(<<>> \o w)
  BY <1>8, <1>10
<1>12. Moves(0 + n, 0)
  BY <1>3, <1>9, <1>11, NoReads, WritesMove
<1>13. 0 + n = n
  BY <1>3
<1> QED BY <1>1, <1>5, <1>6, <1>7, <1>12, <1>13, PCs DEF Completes

LEMMA PullRegistersCompletes == CoreInv /\ PULL_REGISTERS => Completes
<1> SUFFICES ASSUME CoreInv, PULL_REGISTERS PROVE Completes
  OBVIOUS
<1> DEFINE n == Offset(temp, 256)  p == reg[regop]
           a == [k \in 1..n |-> ToWord(p + (k - 1))]
           r == [k \in 1..n |-> Rd(a[k], "data")]
           dead == <<Rd(ToWord(p + n), "dead")>>
<1>1. DataOK /\ regop \in {"s", "u"}
  BY DEF CoreInv, ControlOK, OperandsLatched, PULL_REGISTERS
<1>2. n \in Nat
  BY OffsetIsNat
<1>3. p \in Word /\ p \in Int
  BY <1>1, RegTyped, WordIs DEF DataOK
<1>4. /\ at = "PULL_REGISTERS" /\ mem' = mem /\ Return
      /\ Bus([k \in 1..n |-> Rd(ToWord(p + (k - 1)), "data")] \o dead)
  BY DEF PULL_REGISTERS
<1>5. Diverts \/ reg'["pc"] = reg["pc"]
  <2>1. CASE Has(temp, \h80)
    BY <1>4, <2>1 DEF Diverts
  <2>2. CASE ~Has(temp, \h80)
    <3>1. "pc" \in DOMAIN reg /\ OtherStack # "pc" /\ regop # "pc"
      BY <1>1 DEF DataOK, RegOK, Registers, Reg16, OtherStack
    <3> QED BY <2>2, <3>1 DEF PULL_REGISTERS
  <2> QED BY <2>1, <2>2
<1>6. Ahead = 1 + n /\ BytesAhead = 0 /\ FetchesAhead = 0
  BY <1>4, AheadOf, BytesOf DEF Ahead, Calls
<1> HIDE DEF n, p
<1>7. a \in [1..n -> Word] /\ ToWord(p + n) \in Word
  BY <1>2, <1>3, ToWordTyped
<1>8. [k \in 1..n |-> Rd(ToWord(p + (k - 1)), "data")] = r
  OBVIOUS
<1>9. "data" \in Roles /\ "data" \notin Fetches /\ "dead" \in Roles \ Fetches
  BY DEF Roles, Fetches
<1>10. Reads(dead, 1, 0)
  BY <1>1, <1>7, <1>9, ReadOne
<1> HIDE DEF a, dead
<1>11. Reads(r, n, 0)
  BY <1>1, <1>2, <1>7, <1>9, ReadMany
<1>12. Bus(r \o dead)
  BY <1>4, <1>8
<1> HIDE DEF r
<1>13. Reads(r \o dead, n + 1, 0) /\ n + 1 \in Nat
  BY <1>2, <1>10, <1>11, ReadsJoin
<1>14. Moves(n + 1, 0)
  BY <1>4, <1>12, <1>13, ReadsMove
<1>15. n + 1 = 1 + n
  BY <1>2
<1> QED BY <1>1, <1>4, <1>5, <1>6, <1>14, <1>15, PCs DEF Completes

-----------------------------------------------------------------------------
(***************************************************************************)
(* Every label that is not a dispatch steps over its bytes, and what it    *)
(* leaves to the labels behind it is what remains of its cycles.           *)
(***************************************************************************)
\* The cycles of the label that waits on the stack.
WaitingCycles == IF stack = <<>> THEN 0 ELSE BodyCycles(Head(stack), "ea", 0, FALSE, 0)

Advances ==
  /\ \E n \in Nat : Moves(n, FetchesAhead) /\ n + Ahead' + WaitingCycles' = Ahead + WaitingCycles
  /\ BytesAhead' = 0 /\ FetchesAhead' = 0
  /\ (Return /\ Diverts) \/ reg'["pc"] = PC(BytesAhead)

LEMMA CompletesAdvances == CoreInv /\ Completes => Advances
<1> SUFFICES ASSUME CoreInv, Completes PROVE Advances
  OBVIOUS
<1>1. at' = "idle" /\ stack' = stack
  BY DEF Completes, Return, Goto
<1>2. Ahead' = 0 /\ BytesAhead' = 0 /\ FetchesAhead' = 0
  BY <1>1 DEF Ahead, BytesAhead, FetchesAhead, Calls
<1>3. WaitingCycles' = WaitingCycles
  BY <1>1 DEF WaitingCycles
<1>4. Ahead \in Nat /\ Moves(Ahead, FetchesAhead)
  <2>1. Moves(Ahead, FetchesAhead)
    BY DEF Completes
  <2>2. PICK p \in Nat, q \in Nat : Ahead = p + q
    BY <2>1 DEF Moves
  <2> QED BY <2>1, <2>2
<1>5. Ahead + Ahead' = Ahead
  BY <1>2, <1>4
<1> HIDE DEF Ahead, WaitingCycles
<1>6. Ahead + Ahead' + WaitingCycles' = Ahead + WaitingCycles
  BY <1>3, <1>5
<1> QED BY <1>2, <1>4, <1>6 DEF Advances, Completes

\* A label that jumps to another one within its call.
LEMMA JumpAdvances ==
  ASSUME NEW n \in Nat, Moves(n, FetchesAhead), stack' = stack, n + Ahead' = Ahead,
         at' \in {"COM8", "NEG8", "GOTO_SUBROUTINE", "PUSH_REGISTERS", "PULL_REGISTERS",
                  "SOFTWARE_INTERRUPT", "INTERRUPT_VECTOR"},
         reg'["pc"] = PC(BytesAhead)
  PROVE  Advances
<1>1. WaitingCycles' = WaitingCycles
  BY DEF WaitingCycles
<1>2. BytesAhead' = 0 /\ FetchesAhead' = 0
  <2>1. BytesAhead' = BodyBytes(at', mode')
    BY DEF BytesAhead, Calls
  <2>2. BodyBytes(at', mode') = 0
    BY BytesOf DEF RmwOps, SoftwareLabels
  <2> QED BY <2>1, <2>2 DEF FetchesAhead
<1> HIDE DEF WaitingCycles
<1>3. n + Ahead' + WaitingCycles' = Ahead + WaitingCycles
  BY <1>1
<1> QED BY <1>2, <1>3 DEF Advances

LEMMA NegateCycles ==
  \A m, k, t, s : /\ BodyCycles("COM8", m, k, t, s) = IF m = "ea" THEN 3 ELSE 1
                  /\ BodyCycles("NEG8", m, k, t, s) = IF m = "ea" THEN 3 ELSE 1
  BY CyclesOf DEF RmwOps

LEMMA Xnc8Advances == CoreInv /\ XNC8 => Advances
<1> SUFFICES ASSUME CoreInv, XNC8 PROVE Advances
  OBVIOUS
<1>1. DataOK
  BY DEF CoreInv
<1>2. /\ at = "XNC8" /\ at' \in {"COM8", "NEG8"} /\ stack' = stack /\ mode' = mode
      /\ UNCHANGED <<bus, icount, mem>> /\ reg' = reg
  BY DEF XNC8, Goto, latches
<1>3. Moves(0, 0)
  BY <1>1, <1>2, StaysMove
<1>4. Ahead = (IF mode = "ea" THEN 3 ELSE 1) /\ BytesAhead = 0 /\ FetchesAhead = 0
  BY <1>2, AheadOf, CyclesOf, BytesOf DEF Calls
<1>5. Ahead' = IF mode = "ea" THEN 3 ELSE 1
  <2>1. Ahead' = BodyCycles(at', mode', Peek(PC(0))', cond', Peek(reg["s"])')
    BY <1>2 DEF Ahead, Calls
  <2> QED BY <1>2, <2>1, NegateCycles
<1>6. reg'["pc"] = PC(BytesAhead)
  BY <1>1, <1>2, <1>4, PCs
<1>7. 0 + Ahead' = Ahead /\ 0 \in Nat
  BY <1>4, <1>5
<1> QED BY <1>2, <1>3, <1>4, <1>6, <1>7, JumpAdvances

LEMMA SubroutineAdvances == CoreInv /\ (BSR \/ LBSR \/ JSR) => Advances
<1> SUFFICES ASSUME CoreInv, BSR \/ LBSR \/ JSR PROVE Advances
  OBVIOUS
<1>1. DataOK
  BY DEF CoreInv
<1>2. at \in {"BSR", "LBSR", "JSR"} /\ at' = "GOTO_SUBROUTINE" /\ stack' = stack /\ mem' = mem
  BY DEF BSR, LBSR, JSR, Goto
<1> DEFINE f == CASE at = "BSR" -> 1 [] at = "LBSR" -> 2 [] at = "JSR" -> 0
           n == CASE at = "BSR" -> 4 [] at = "LBSR" -> 6 [] at = "JSR" -> 2
<1>3. Ahead = n + 2 /\ BytesAhead = f /\ FetchesAhead = f
  <2>1. CASE at = "BSR"
    BY <2>1, AheadOf, CyclesOf, BytesOf DEF Calls
  <2>2. CASE at = "LBSR"
    BY <2>2, AheadOf, CyclesOf, BytesOf DEF Calls
  <2>3. CASE at = "JSR"
    BY <2>3, AheadOf, CyclesOf, BytesOf DEF Calls
  <2> QED BY <1>2, <2>1, <2>2, <2>3
<1>4. Moves(n, f) /\ reg'["pc"] = PC(f)
  <2>1. CASE BSR
    <3>1. at = "BSR" /\ Bus(<<Arg(0)>> \o Vma(3)) /\ reg' = At(PC(1))
      BY <2>1 DEF BSR
    <3>2. Reads(<<Arg(0)>> \o Vma(3), 1 + 3, 1)
      BY <1>1, ArgsMove
    <3>3. Moves(1 + 3, 1)
      BY <1>2, <3>1, <3>2, ReadsMove
    <3> QED BY <1>1, <3>1, <3>3, PCs
  <2>2. CASE LBSR
    <3>1. at = "LBSR" /\ Bus(<<Arg(0), Arg(1)>> \o Vma(4)) /\ reg' = At(PC(2))
      BY <2>2 DEF LBSR
    <3>2. Reads(<<Arg(0), Arg(1)>> \o Vma(4), 2 + 4, 2)
      BY <1>1, ArgsMove
    <3>3. Moves(2 + 4, 2)
      BY <1>2, <3>1, <3>2, ReadsMove
    <3> QED BY <1>1, <3>1, <3>3, PCs
  <2>3. CASE JSR
    <3>1. at = "JSR" /\ Bus(<<Dead(0)>> \o Vma(1)) /\ reg' = reg
      BY <2>3 DEF JSR
    <3>2. Reads(<<Dead(0)>> \o Vma(1), 1 + 1, 0)
      BY <1>1, DeadMoves
    <3>3. Moves(1 + 1, 0)
      BY <1>2, <3>1, <3>2, ReadsMove
    <3> QED BY <1>1, <3>1, <3>3, PCs
  <2> QED BY <2>1, <2>2, <2>3
<1>5. Ahead' = 2
  <2>1. Ahead' = BodyCycles(at', mode', Peek(PC(0))', cond', Peek(reg["s"])')
    BY <1>2 DEF Ahead, Calls
  <2> QED BY <1>2, <2>1, CyclesOf
<1>6. n \in Nat
  BY <1>2
<1> QED BY <1>2, <1>3, <1>4, <1>5, <1>6, JumpAdvances

\* PSHS and PSHU: the mask, the VMA cycles and the read at the stack pointer.
LEMMA PushReads ==
  ASSUME DataOK, NEW sp \in {"s", "u"}
  PROVE  Reads(<<Arg(0)>> \o Vma(2) \o <<Rd(reg[sp], "dead")>>, 4, 1)
<1>1. reg[sp] \in Word /\ "dead" \in Roles \ Fetches
  BY RegTyped DEF DataOK, Roles, Fetches
<1>2. Reads(<<Rd(reg[sp], "dead")>>, 1, 0)
  BY <1>1, ReadOne
<1>3. Reads(<<Arg(0)>> \o Vma(2), 1 + 2, 1) /\ 1 + 2 \in Nat
  BY ArgsMove
<1>4. Reads(<<Arg(0)>> \o Vma(2) \o <<Rd(reg[sp], "dead")>>, 1 + 2 + 1, 1)
  BY <1>2, <1>3, ReadsJoin
<1> QED BY <1>4

LEMMA PushPullAdvances == CoreInv /\ (PSHS \/ PSHU \/ PULS \/ PULU) => Advances
<1> SUFFICES ASSUME CoreInv, PSHS \/ PSHU \/ PULS \/ PULU PROVE Advances
  OBVIOUS
<1> DEFINE k == Offset(Peek(PC(0)), 256)
<1>1. DataOK /\ k \in Nat
  BY OffsetIsNat DEF CoreInv
<1>2. /\ at \in {"PSHS", "PSHU", "PULS", "PULU"} /\ stack' = stack /\ mem' = mem
      /\ temp' = Peek(PC(0)) /\ reg' = At(PC(1))
      /\ at' = IF at \in {"PSHS", "PSHU"} THEN "PUSH_REGISTERS" ELSE "PULL_REGISTERS"
  BY DEF PSHS, PSHU, PULS, PULU, Push, Pull, Goto
<1>3. Ahead = 4 + k /\ BytesAhead = 1 /\ FetchesAhead = 1
  BY <1>2, AheadOf, CyclesOf, BytesOf DEF Calls
<1>4. Ahead' = IF at \in {"PSHS", "PSHU"} THEN k ELSE 1 + k
  BY <1>2 DEF Ahead, Calls
<1>5. reg'["pc"] = PC(BytesAhead)
  BY <1>1, <1>2, <1>3, PCs
<1> HIDE DEF k
<1>6. CASE at \in {"PSHS", "PSHU"}
  <2>1. PICK sp \in {"s", "u"} : Bus(<<Arg(0)>> \o Vma(2) \o <<Rd(reg[sp], "dead")>>)
    BY <1>6 DEF PSHS, PSHU, PULS, PULU, Push, Pull
  <2>2. Moves(4, 1)
    BY <1>1, <1>2, <2>1, PushReads, ReadsMove
  <2>3. 4 + Ahead' = Ahead /\ 4 \in Nat
    BY <1>1, <1>3, <1>4, <1>6
  <2> QED BY <1>2, <1>3, <1>5, <1>6, <2>2, <2>3, JumpAdvances
<1>7. CASE at \in {"PULS", "PULU"}
  <2>1. Bus(<<Arg(0)>> \o Vma(2))
    BY <1>7 DEF PSHS, PSHU, PULS, PULU, Push, Pull
  <2>2. Reads(<<Arg(0)>> \o Vma(2), 1 + 2, 1)
    BY <1>1, ArgsMove
  <2>3. Moves(1 + 2, 1)
    BY <1>2, <2>1, <2>2, ReadsMove
  <2>4. 1 + 2 + Ahead' = Ahead /\ 1 + 2 \in Nat
    BY <1>1, <1>3, <1>4, <1>7
  <2> QED BY <1>2, <1>3, <1>5, <1>7, <2>3, <2>4, JumpAdvances
<1> QED BY <1>2, <1>6, <1>7

LEMMA FullOffsets == Offset(128, 256) = 2 /\ Offset(254, 256) = 11 /\ Offset(255, 256) = 12
<1>1. \A k \in {1, 2, 4, 8, 16, 32, 64} : ~Has(128, k)
  BY DEF Has, Bit
<1>2. \A k \in {2, 4, 8, 16, 32, 64, 128} : Has(254, k) /\ Has(255, k)
  BY DEF Has, Bit
<1>3. Has(128, 128) /\ ~Has(254, 1) /\ Has(255, 1)
  BY DEF Has, Bit
<1>4. Offset(128, 256) = 2
  BY <1>1, <1>3 DEF Offset
<1>5. Offset(254, 256) = 11
  BY <1>2, <1>3 DEF Offset
<1>6. Offset(255, 256) = 12
  BY <1>2, <1>3 DEF Offset
<1> QED BY <1>4, <1>5, <1>6

LEMMA ReturnsAdvance == CoreInv /\ (RTS \/ RTI) => Advances
<1> SUFFICES ASSUME CoreInv, RTS \/ RTI PROVE Advances
  OBVIOUS
<1>1. DataOK
  BY DEF CoreInv
<1>2. /\ at \in {"RTS", "RTI"} /\ at' = "PULL_REGISTERS" /\ stack' = stack /\ mem' = mem
  BY DEF RTS, RTI, Goto
<1>3. reg'["pc"] = PC(0)
  <2>1. "pc" \in DOMAIN reg
    BY <1>1 DEF DataOK, RegOK, Registers, Reg16
  <2>2. reg'["pc"] = reg["pc"]
    BY <2>1 DEF RTS, RTI
  <2> QED BY <1>1, <2>2, PCs
<1>4. BytesAhead = 0 /\ FetchesAhead = 0
  BY <1>2, AheadOf, BytesOf DEF Calls
<1>5. Ahead' = 1 + Offset(temp', 256)
  BY <1>2 DEF Ahead, Calls
<1>6. CASE RTS
  <2>1. Bus(<<Dead(0)>>) /\ temp' = 128 /\ at = "RTS"
    BY <1>6 DEF RTS
  <2>2. Moves(1, 0)
    BY <1>1, <1>2, <2>1, ReadDead, ReadsMove
  <2>3. Ahead = 4 /\ Ahead' = 3
    BY <1>5, <2>1, FullOffsets, AheadOf, CyclesOf DEF Calls
  <2>4. 1 + Ahead' = Ahead /\ 1 \in Nat
    BY <2>3
  <2> QED BY <1>2, <1>3, <1>4, <2>2, <2>4, JumpAdvances
<1>7. CASE RTI
  <2> DEFINE v == Peek(reg["s"])
  <2>1. /\ Bus(<<Dead(0), Rd(reg["s"], "data")>>) /\ at = "RTI" /\ cc' = CCSet(v)
        /\ temp' = (IF "E" \in cc' THEN EntireState ELSE PartialState) - 1
    BY <1>7 DEF RTI
  <2>2. Moves(2, 0)
    <3>1. reg["s"] \in Word /\ "data" \in Roles \ Fetches
      BY <1>1, RegTyped DEF DataOK, Roles, Fetches
    <3>2. Reads(<<Dead(0)>>, 1, 0) /\ Reads(<<Rd(reg["s"], "data")>>, 1, 0)
      BY <1>1, <3>1, ReadDead, ReadOne
    <3> DEFINE x == Dead(0)  y == Rd(reg["s"], "data")
    <3>3. x \in ReadAccess /\ y \in ReadAccess
      <4>1. PC(0) \in Word /\ "dead" \in Roles
        BY <1>1, PCTyped DEF DataOK, Roles
      <4> QED BY <1>1, <3>1, <4>1, ReadIs DEF Dead
    <3> HIDE DEF x, y
    <3>4. Reads(<<x>> \o <<y>>, 1 + 1, 0)
      BY <3>2, ReadsJoin DEF x, y
    <3>5. <<x>> \o <<y>> = <<x, y>>
      BY <3>3, PairIs
    <3>6. Reads(<<x, y>>, 1 + 1, 0)
      BY <3>4, <3>5, Zenon
    <3>7. Bus(<<x, y>>) /\ mem' = mem /\ 1 + 1 \in Nat
      BY <1>2, <2>1 DEF x, y
    <3>8. Moves(1 + 1, 0)
      BY <3>6, <3>7, ReadsMove
    <3> QED BY <3>8
  <2>3. Ahead = IF Has(v, \h80) THEN 14 ELSE 5
    BY <2>1, AheadOf, CyclesOf DEF Calls
  <2>4. "E" \in cc' <=> Has(v, \h80)
    <3>1. "E" \in Flags /\ CCMask["E"] = \h80
      BY DEF Flags, CCMask
    <3> QED BY <2>1, <3>1 DEF CCSet
  <2>5. temp' = IF Has(v, \h80) THEN 254 ELSE 128
    BY <2>1, <2>4 DEF EntireState, PartialState
  <2> HIDE DEF v
  <2>6. Ahead' = IF Has(v, \h80) THEN 12 ELSE 3
    BY <1>5, <2>5, FullOffsets
  <2>7. 2 + Ahead' = Ahead /\ 2 \in Nat
    BY <2>3, <2>6
  <2> QED BY <1>2, <1>3, <1>4, <2>2, <2>7, JumpAdvances
<1> QED BY <1>6, <1>7

LEMMA VectorSet == CoreInv /\ (SharedSoftwareInterrupt \/ SWI_PUSHED \/ PUSHED) => Advances
<1> SUFFICES ASSUME CoreInv, SharedSoftwareInterrupt \/ SWI_PUSHED \/ PUSHED PROVE Advances
  OBVIOUS
<1>1. DataOK
  BY DEF CoreInv
<1>2. /\ at \in {"SWI2", "SWI3", "SWI_PUSHED", "PUSHED"} /\ stack' = stack
      /\ at' = IF at \in {"SWI2", "SWI3"} THEN "SOFTWARE_INTERRUPT" ELSE "INTERRUPT_VECTOR"
      /\ UNCHANGED <<bus, icount, mem>> /\ reg' = reg
  BY DEF SharedSoftwareInterrupt, SWI_PUSHED, PUSHED, Goto
<1>3. Moves(0, 0)
  BY <1>1, <1>2, StaysMove
<1>4. Ahead' = BodyCycles(at', mode', Peek(PC(0))', cond', Peek(reg["s"])')
  BY <1>2 DEF Ahead, Calls
<1>5. CASE at \in {"SWI2", "SWI3"}
  <2>1. Ahead = 18 /\ BytesAhead = 0 /\ FetchesAhead = 0
    BY <1>5, AheadOf, CyclesOf, BytesOf DEF Calls, SoftwareLabels
  <2>2. Ahead' = 18
    BY <1>2, <1>4, <1>5, CyclesOf DEF SoftwareLabels
  <2>3. 0 + Ahead' = Ahead /\ 0 \in Nat
    BY <2>1, <2>2
  <2>4. reg'["pc"] = PC(BytesAhead)
    BY <1>1, <1>2, <2>1, PCs
  <2> QED BY <1>2, <1>3, <1>5, <2>1, <2>3, <2>4, JumpAdvances
<1>6. CASE at \in {"SWI_PUSHED", "PUSHED"}
  <2>1. Ahead = 4 /\ BytesAhead = 0 /\ FetchesAhead = 0
    BY <1>6, AheadOf, CyclesOf, BytesOf DEF Calls
  <2>2. Ahead' = 4
    BY <1>2, <1>4, <1>6, CyclesOf
  <2>3. 0 + Ahead' = Ahead /\ 0 \in Nat
    BY <2>1, <2>2
  <2>4. reg'["pc"] = PC(BytesAhead)
    BY <1>1, <1>2, <2>1, PCs
  <2> QED BY <1>2, <1>3, <1>6, <2>1, <2>3, <2>4, JumpAdvances
<1> QED BY <1>2, <1>5, <1>6

LEMMA PushedCycles ==
  \A l \in {"SWI_PUSHED", "PUSHED"} : \A m, k, t, s : BodyCycles(l, m, k, t, s) = 4
  BY DEF BodyCycles, RmwOps, Alu8Ops, SoftwareLabels

LEMMA SoftwareCycles ==
  \A m, k, t, s : \A l \in SoftwareLabels : BodyCycles(l, m, k, t, s) = 18
  BY DEF BodyCycles, RmwOps, Alu8Ops, SoftwareLabels

LEMMA SoftwareInterruptAdvances == CoreInv /\ SoftwareInterrupt => Advances
<1> SUFFICES ASSUME CoreInv, SoftwareInterrupt PROVE Advances
  OBVIOUS
<1>1. DataOK
  BY DEF CoreInv
<1>2. /\ at \in SoftwareLabels /\ mem' = mem /\ reg' = reg
      /\ Bus(<<Dead(0)>> \o Vma(1)) /\ temp' = 255
      /\ at' = "PUSH_REGISTERS"
      /\ stack' = <<IF at = "SWI" THEN "SWI_PUSHED" ELSE "PUSHED">> \o stack
  BY DEF SoftwareInterrupt, Call, EntireState, SoftwareLabels, SoftwareInterrupts
<1>3. stack = <<>>
  BY <1>2 DEF CoreInv, ControlOK, StackDiscipline, SoftwareLabels, Calls
<1>4. PICK l \in {"SWI_PUSHED", "PUSHED"} : stack' = <<l>>
  <2> DEFINE k == IF at = "SWI" THEN "SWI_PUSHED" ELSE "PUSHED"
  <2>1. k \in {"SWI_PUSHED", "PUSHED"}
    OBVIOUS
  <2>2. stack' = <<k>> \o <<>>
    BY <1>2, <1>3
  <2> HIDE DEF k
  <2>3. <<k>> \in Seq({"SWI_PUSHED", "PUSHED"})
    BY <2>1
  <2>4. <<k>> \o <<>> = <<k>>
    BY <2>3
  <2> QED BY <2>1, <2>2, <2>4
<1>5. WaitingCycles = 0 /\ WaitingCycles' = 4
  <2>1. Head(stack') = l /\ stack' # <<>>
    BY <1>4
  <2>2. WaitingCycles' = BodyCycles(l, "ea", 0, FALSE, 0)
    BY <2>1 DEF WaitingCycles
  <2>3. WaitingCycles' = 4
    BY <2>2, PushedCycles
  <2> QED BY <1>3, <2>3 DEF WaitingCycles
<1>6. Ahead = 18 /\ BytesAhead = 0 /\ FetchesAhead = 0
  <2>1. at \notin Calls \cup {"PUSH_REGISTERS", "PULL_REGISTERS", "idle", "XST16"}
    BY <1>2 DEF Calls, SoftwareLabels
  <2>2. Ahead = BodyCycles(at, mode, Peek(PC(0)), cond, Peek(reg["s"]))
    BY <2>1, AheadOf
  <2>3. BytesAhead = BodyBytes(at, mode) /\ FetchesAhead = BytesAhead
    BY <2>1, AheadOf
  <2>4. BodyCycles(at, mode, Peek(PC(0)), cond, Peek(reg["s"])) = 18
    BY <1>2, SoftwareCycles
  <2>5. BodyBytes(at, mode) = 0
    BY <1>2, BytesOf
  <2> QED BY <2>2, <2>3, <2>4, <2>5
<1>7. Ahead' = 12 /\ BytesAhead' = 0 /\ FetchesAhead' = 0
  <2>1. Ahead' = Offset(temp', 256) /\ BytesAhead' = BodyBytes("PUSH_REGISTERS", mode')
        /\ FetchesAhead' = BytesAhead'
    BY <1>2 DEF Ahead, BytesAhead, FetchesAhead, Calls
  <2> QED BY <1>2, <2>1, FullOffsets, BytesOf
<1>8. Moves(2, 0)
  <2>1. Reads(<<Dead(0)>> \o Vma(1), 1 + 1, 0)
    BY <1>1, DeadMoves
  <2>2. Moves(1 + 1, 0)
    BY <1>2, <2>1, ReadsMove
  <2> QED BY <2>2
<1>9. reg'["pc"] = PC(0)
  BY <1>1, <1>2, PCs
<1>10. 2 + Ahead' + WaitingCycles' = Ahead + WaitingCycles /\ 2 \in Nat
  BY <1>5, <1>6, <1>7
<1> QED BY <1>6, <1>7, <1>8, <1>9, <1>10 DEF Advances

\* The labels in front of an instruction, and the ones this is not true of.
LEMMA InstructionAdvances ==
  ASSUME CoreInv, Instruction,
         ~(\/ MAIN \/ DISPATCH01 \/ DISPATCH10 \/ DISPATCH11 \/ XANDCC \/ FREERUN)
  PROVE  Advances
<1>1. CASE Completes
  BY <1>1, CompletesAdvances
<1>2. CASE XNC8 \/ BSR \/ LBSR \/ JSR \/ PSHS \/ PSHU \/ PULS \/ PULU \/ RTS \/ RTI
  BY <1>2, Xnc8Advances, SubroutineAdvances, PushPullAdvances, ReturnsAdvance
<1>3. CASE SharedSoftwareInterrupt \/ SoftwareInterrupt \/ SWI_PUSHED \/ PUSHED
  BY <1>3, VectorSet, SoftwareInterruptAdvances
<1>4. CASE \/ DIRECT \/ EXTENDED \/ INDEXED \/ ReadModifyWrite \/ TST8 \/ JMP
           \/ Accumulate8 \/ Accumulate16 \/ ST8 \/ ST16 \/ XST8 \/ XST16 \/ LEA_xy \/ LEA_us
  BY <1>1, <1>4, DirectCompletes, ExtendedCompletes, IndexedCompletes,
     ReadModifyWriteCompletes, TestCompletes, JmpCompletes, Accumulate8Completes,
     Accumulate16Completes, Store8Completes, Store16Completes, Xst8Completes,
     Xst16Completes, LeaCompletes
<1>5. CASE \/ NOP \/ DAA \/ SEX \/ ABX \/ MUL \/ ORCC \/ ANDCC \/ X18 \/ EXG \/ TFR
           \/ BRANCH \/ LBRANCH \/ GOTO_SUBROUTINE \/ PUSH_REGISTERS \/ PULL_REGISTERS
           \/ INTERRUPT_VECTOR
  BY <1>1, <1>5, InherentCompletes, AbxMulCompletes, FlagMasksComplete, X18Completes,
     ExgTfrCompletes, BranchCompletes, LongBranchCompletes, GotoSubroutineCompletes,
     PushRegistersCompletes, PullRegistersCompletes, InterruptVectorCompletes
<1> QED BY <1>2, <1>3, <1>4, <1>5 DEF Instruction
=============================================================================
