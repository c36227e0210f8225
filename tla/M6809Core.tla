----------------------------- MODULE M6809Core -----------------------------
(***************************************************************************)
(* The MC6809 core that the generator executes: m6809.lst and base6x09.lst *)
(* as m6809make.py compiles them into execute_one(), with the shim's       *)
(* registers and state stack.                                              *)
(*                                                                         *)
(* execute_one() pops a state (a label) and runs from there to a           *)
(* "return;".  Here that is one step per label: `at' is the label control  *)
(* has reached, or "idle" between two calls, and `stack' is m_state, the   *)
(* labels still to be entered, top first; the empty stack is m_state = 0,  *)
(* which pop_state() reads as MAIN.  "%X; %Y; return;" pushes Y and jumps  *)
(* to X.  The budget m_icount of 10000 cycles is never used up by one      *)
(* instruction, so that the "@" suspension points only act where the code  *)
(* gives up its budget itself: in SYNC and CWAI.                           *)
(*                                                                         *)
(* m_ppc, m_opcode and m_q.r.e/f are not kept: nothing reads them after    *)
(* the step that sets them.  m_temp is kept where a later label reads it.  *)
(***************************************************************************)
EXTENDS M6809Dispatch, Sequences

CONSTANT Background(_)   \* the byte of memory at an address not yet written
ASSUME BackgroundAssumption == \A a \in Word : Background(a) \in Byte

VARIABLES
  reg,      \* the registers pc, s, u, x, y, dp, a, b
  cc,       \* m_cc, the set of its flags
  lds,      \* m_lds_encountered
  line,     \* the interrupt inputs: m_nmi_asserted, m_firq_line, m_irq_line
  mem,      \* the bytes of memory that differ from Background
  bus,      \* logging_memory.accesses
  icount,   \* m_icount
  ea, mode, regop, temp, cond,   \* m_ea, m_addressing_mode, m_reg8/16, m_temp, m_cond
  freeRun,  \* m_free_run
  at, stack \* the label reached in execute_one(), and m_state

latches  == <<ea, mode, regop, temp, cond>>
coreVars == <<reg, cc, lds, line, mem, bus, icount, latches, freeRun, at, stack>>

InitialIcount == 10000

\* Lines the core compares its vectors with.
Lines == {"nmi", "firq", "irq"}

VectorOf == [SWI3 |-> \hFFF2, SWI2 |-> \hFFF4, XSWI2 |-> \hFFF4, XFIRQ |-> \hFFF6,
             FIRQ |-> \hFFF6, IRQ |-> \hFFF8, SWI |-> \hFFFA, NMI |-> \hFFFC,
             XRES |-> \hFFFE]

-----------------------------------------------------------------------------
(***************************************************************************)
(* The bus.  Every access takes one cycle and is logged with the budget    *)
(* that is left after it.  role says what the access is for: "opcode" and  *)
(* "arg" are the reads that step the program counter, "dead" the reads     *)
(* whose value is thrown away, "data" all others.  The log of the code     *)
(* does not keep the role; it is history for the properties.               *)
(***************************************************************************)
Roles == {"opcode", "arg", "data", "dead"}

Peek(a) == IF a \in DOMAIN mem THEN mem[a] ELSE Background(a)

Rd(a, role) == [write |-> FALSE, address |-> a, data |-> Peek(a), role |-> role]
Wr(a, d)    == [write |-> TRUE, address |-> a, data |-> d, role |-> "data"]

\* Mutant of PC: the program counter does not wrap.
UnwrappedPC(i) == reg["pc"] + i
PC(i)   == ToWord(reg["pc"] + i)
Arg(i)  == Rd(PC(i), "arg")
Dead(i) == Rd(PC(i), "dead")
Vma(n)  == [k \in 1..n |-> Rd(\hFFFF, "dead")]

\* eat(1) before every access; accesses holds them in order.
Bus(accesses) ==
  /\ bus' = bus \o [k \in DOMAIN accesses |->
                      [write   |-> accesses[k].write,
                       address |-> accesses[k].address,
                       data    |-> accesses[k].data,
                       role    |-> accesses[k].role,
                       icount  |-> icount - k]]
  /\ icount' = icount - Len(accesses)

\* Memory after bytes are stored at first, first + 1, ... (modulo 65536).
Stored(first, bytes) ==
  LET span == {ToWord(first + k - 1) : k \in 1..Len(bytes)}
  IN  [a \in DOMAIN mem \cup span |->
         IF a \in span THEN bytes[1 + ToWord(a - first)] ELSE mem[a]]

-----------------------------------------------------------------------------
(***************************************************************************)
(* Control flow, and the register that regop8() and regop16() refer to.    *)
(***************************************************************************)
Goto(label) == at' = label /\ UNCHANGED stack
Return == Goto("idle")
\* Mutant of Call: "goto X; Y; return;" for "%X; Y; return;".
CallAsGoto(label, continuation) == Goto(label)
Call(label, continuation) == at' = label /\ stack' = <<continuation>> \o stack

Names16 == {"d", "x", "y", "u", "s"}

D == Pair(reg["a"], reg["b"])

RegOp == IF regop = "d" THEN D ELSE reg[regop]

\* The registers with the program counter at pc, and with regop assigned too.
At(pc) == [reg EXCEPT !["pc"] = pc]
Assign(pc, v) ==
  IF regop = "d" THEN [reg EXCEPT !["pc"] = pc, !["a"] = Hi(v), !["b"] = Lo(v)]
  ELSE [reg EXCEPT !["pc"] = pc, ![regop] = v]

(***************************************************************************)
(* The operand of the addressing mode: its reads, its value, the program   *)
(* counter after it (an immediate operand is read from there).             *)
(***************************************************************************)
OperandReads ==
  CASE mode = "ea"  -> <<Rd(ea, "data")>>
    [] mode = "imm" -> <<Arg(0)>>
    [] mode \in {"a", "b"} -> <<>>
Operand ==
  CASE mode = "ea"  -> Peek(ea)
    [] mode = "imm" -> Peek(PC(0))
    [] mode \in {"a", "b"} -> reg[mode]
OperandPC == IF mode = "imm" THEN PC(1) ELSE PC(0)

OperandReads16 ==
  IF mode = "imm" THEN <<Arg(0), Arg(1)>>
  ELSE <<Rd(ea, "data"), Rd(ToWord(ea + 1), "data")>>
Operand16 ==
  IF mode = "imm" THEN Pair(Peek(PC(0)), Peek(PC(1)))
  ELSE Pair(Peek(ea), Peek(ToWord(ea + 1)))
OperandPC16 == IF mode = "imm" THEN PC(2) ELSE PC(0)

\* write_operand: the bus writes, the registers and the memory.
OperandWrites(v) == IF mode = "ea" THEN <<Wr(ea, v)>> ELSE <<>>
OperandReg(v) == IF mode \in {"a", "b"} THEN [reg EXCEPT ![mode] = v] ELSE At(OperandPC)
OperandMem(v) == IF mode = "ea" THEN Stored(ea, <<v>>) ELSE mem

-----------------------------------------------------------------------------
\* set_cond() of the branch rows; LBRA (\h16) is always taken.
NewCond(label, opcode) ==
  IF Row(opcode) = 2 /\ label # "DISPATCH11" THEN BranchCond(Col(opcode), cc)
  ELSE IF opcode = \h16 /\ label = "DISPATCH01" THEN TRUE ELSE cond

(***************************************************************************)
(* The opcode fetch and the switch behind it.  In free run mode the first  *)
(* page goes to FREERUN without looking at the opcode.                     *)
(***************************************************************************)
FetchAndDispatch(label) ==
  LET opcode == Peek(PC(0))
      e == CASE label = "DISPATCH01" -> Page1(opcode)
             [] label = "DISPATCH10" -> Page10(opcode)
             [] label = "DISPATCH11" -> Page11(opcode)
  IN  /\ Bus(<<Rd(PC(0), "opcode")>>)
      /\ reg' = At(PC(1))
      /\ IF freeRun /\ label = "DISPATCH01"
         THEN Goto("FREERUN") /\ UNCHANGED <<regop, mode, cond>>
         ELSE /\ IF e.addr \in Calls THEN Call(e.addr, e.body) ELSE Goto(e.body)
              /\ regop' = IF e.regop = "-" THEN regop ELSE e.regop
              /\ mode' = IF e.addr \in Calls \cup {"-"} THEN mode ELSE e.addr
              /\ cond' = NewCond(label, opcode)
      /\ UNCHANGED <<cc, lds, line, mem, ea, temp, freeRun>>

\* Mutant of PendingInterrupt: F masks the NMI as well.
PendingUnmasked ==
  IF "nmi" \in line /\ "F" \notin cc THEN "NMI"
  ELSE IF "firq" \in line /\ "F" \notin cc THEN "FIRQ"
  ELSE IF "irq" \in line /\ "I" \notin cc THEN "IRQ" ELSE "none"

PendingInterrupt ==
  IF "nmi" \in line THEN "NMI"
  ELSE IF "firq" \in line /\ "F" \notin cc THEN "FIRQ"
  ELSE IF "irq" \in line /\ "I" \notin cc THEN "IRQ" ELSE "none"

\* MAIN falls through into DISPATCH01 unless an interrupt is pending.
MAIN ==
  /\ at = "MAIN"
  /\ Goto(IF PendingInterrupt = "none" THEN "DISPATCH01" ELSE PendingInterrupt)
  /\ UNCHANGED <<reg, cc, lds, line, mem, bus, icount, latches, freeRun>>

DISPATCH01 == at = "DISPATCH01" /\ FetchAndDispatch("DISPATCH01")
DISPATCH10 == at = "DISPATCH10" /\ FetchAndDispatch("DISPATCH10")
DISPATCH11 == at = "DISPATCH11" /\ FetchAndDispatch("DISPATCH11")

\* pop_state(), the first thing execute_one() does.
ExecuteOne ==
  /\ at = "idle"
  /\ at' = IF stack = <<>> THEN "MAIN" ELSE Head(stack)
  /\ stack' = IF stack = <<>> THEN stack ELSE Tail(stack)
  /\ UNCHANGED <<reg, cc, lds, line, mem, bus, icount, latches, freeRun>>

-----------------------------------------------------------------------------
AccessType ==
  [write : BOOLEAN, address : Word, data : Byte, role : Roles, icount : Int]

CoreTypeOK ==
  /\ reg \in [Registers -> Word] /\ \A r \in Reg8 : reg[r] \in Byte
  /\ cc \in SUBSET Flags
  /\ lds \in BOOLEAN
  /\ line \in SUBSET Lines
  /\ DOMAIN mem \subseteq Word /\ \A a \in DOMAIN mem : mem[a] \in Byte
  /\ bus \in Seq(AccessType)
  /\ icount \in Int
  /\ ea \in Word
  /\ mode \in {"imm", "ea", "a", "b"}
  /\ regop \in {"none", "a", "b"} \cup Names16
  /\ temp \in Byte
  /\ cond \in BOOLEAN
  /\ freeRun \in BOOLEAN
  /\ at \in Labels \cup {"idle"}
  /\ stack \in Seq(Labels)

(***************************************************************************)
(* m_state is a stack in 32 bits, 9 bits a frame: pushing onto a stack of  *)
(* three loses the oldest frame, and losing one silently skips the rest of *)
(* an instruction.  It never holds more than the one frame of the label    *)
(* that is called: an instruction behind an addressing mode, the end of an *)
(* interrupt behind the push, or the wait of SYNC behind a given-up budget. *)
(***************************************************************************)
StackDiscipline ==
  \/ stack = <<>> /\ at \notin Calls
  \/ \E l \in WithOperand : stack = <<l>> /\ at \in Calls \cup {"idle"}
  \/ \E l \in AfterPush : stack = <<l>> /\ at \in {"PUSH_REGISTERS", "idle"}
  \/ stack = <<"SYNC_WAIT">> /\ at = "idle"

(***************************************************************************)
(* The asserts of regop8() and regop16() and the fatalerror of             *)
(* read_operand and write_operand: whatever a label reads through the      *)
(* latches that the dispatch left behind has been set for it, and is never *)
(* a left-over of an earlier instruction.                                  *)
(***************************************************************************)
OperandsLatched ==
  /\ at \in Alu8Ops \cup {"ST8", "XST8"} => regop \in {"a", "b"}
  /\ at \in Alu16Ops \cup {"ST16", "XST16", "LEA_xy", "LEA_us"} => regop \in Names16
  /\ at \in {"PUSH_REGISTERS", "PULL_REGISTERS"} => regop \in {"s", "u"}
  /\ at \in Alu8Ops \cup Alu16Ops => mode \in {"imm", "ea"}
  /\ at \in RmwOps \cup {"XNC8", "TST8"} => mode \in {"ea", "a", "b"}
  /\ at \in {"ORCC", "ANDCC", "XANDCC", "XST8", "XST16"} => mode = "imm"
  /\ at \in {"ST8", "ST16", "JMP", "JSR", "LEA_xy", "LEA_us"} => mode = "ea"
=============================================================================
