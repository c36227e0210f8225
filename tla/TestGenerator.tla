--------------------------- MODULE TestGenerator ---------------------------
(***************************************************************************)
(* generate_test(): one test of the vector generator.  It places an        *)
(* instruction of the opcode table in memory, runs the core until its      *)
(* state stack is empty, checks what came out and turns the bus log into   *)
(* a test vector.  A behaviour is one test, drawn from Tests where the     *)
(* code draws registers and memory from its random number generator.       *)
(***************************************************************************)
EXTENDS M6809Instructions, OpcodeTable, SequencesExt

CONSTANT Tests   \* the tests: an instruction, the registers, bytes of memory

ASSUME TestsAssumption ==
  \A t \in Tests :
    /\ <<t.prefix, t.opcode>> \in Listed
    /\ t.reg \in [Registers -> Word] /\ \A r \in Reg8 : t.reg[r] \in Byte
    /\ t.cc \in SUBSET Flags
    /\ DOMAIN t.ram \subseteq Word /\ \A a \in DOMAIN t.ram : t.ram[a] \in Byte

VARIABLES
  test,     \* the arguments of generate_test and what it drew
  calls,    \* calls of execute_one() so far
  verdict,  \* "running", "ok", or the check that failed (fail_test exits)
  vector    \* the test vector once the verdict is "ok"

genVars == <<test, calls, verdict, vector>>
vars == <<coreVars, genVars>>

MaxCalls == 64

-----------------------------------------------------------------------------
(***************************************************************************)
(* The instruction in memory.  The prefix is placed before the opcode.     *)
(***************************************************************************)
PrefixLength(t) == IF t.prefix = \h00 THEN 0 ELSE 1

Code(t) == IF t.prefix = \h00 THEN <<t.opcode>> ELSE <<t.prefix, t.opcode>>

\* The memory a test starts from: `pristine', copied after the placement.
Loaded(t) ==
  LET code == Code(t)
      span == {ToWord(t.reg["pc"] + k - 1) : k \in DOMAIN code}
  IN  [a \in DOMAIN t.ram \cup span |->
         IF a \in span THEN code[1 + ToWord(a - t.reg["pc"])] ELSE t.ram[a]]

Pristine(a) == IF a \in DOMAIN Loaded(test) THEN Loaded(test)[a] ELSE Background(a)

StartPC(i) == ToWord(test.reg["pc"] + i)

\* The byte after the opcode: a postbyte, a register mask or an operand.
OperandByte == Pristine(StartPC(PrefixLength(test) + 1))

TestMode == Mode(test.prefix, test.opcode)

InstructionLength == PrefixLength(test) + 1 + OperandLength(TestMode, OperandByte)

GenInit ==
  /\ test \in Tests
  /\ reg = test.reg /\ cc = test.cc /\ lds = FALSE
  /\ line = {} /\ mem = Loaded(test) /\ bus = <<>> /\ icount = InitialIcount
  /\ ea = 0 /\ mode = "imm" /\ regop = "none" /\ temp = 0 /\ cond = FALSE
  /\ freeRun = FALSE /\ at = "idle" /\ stack = <<>>
  /\ calls = 0 /\ verdict = "running" /\ vector = <<>>

-----------------------------------------------------------------------------
(***************************************************************************)
(* The loop around execute_one(): it runs until the state stack is empty,  *)
(* and gives up after MaxCalls calls.                                      *)
(***************************************************************************)
Execute ==
  /\ verdict = "running"
  /\ calls <= MaxCalls
  /\ calls = 0 \/ stack # <<>>
  /\ ExecuteOne
  /\ calls' = calls + 1
  /\ UNCHANGED <<test, verdict, vector>>

Step == Instruction /\ UNCHANGED genVars

-----------------------------------------------------------------------------
(***************************************************************************)
(* The cycle list: one entry per bus access, and an idle entry for every   *)
(* cycle of the budget that no access accounts for.                        *)
(***************************************************************************)
Idle == [address |-> 0, data |-> 0, status |-> "----"]
Idles(n) == [k \in 1..n |-> Idle]

CycleOf(access) == [address |-> access.address, data |-> access.data,
                    status |-> IF access.write THEN "-wm-" ELSE "r-m-"]

CycleList ==
  LET previous(k) == IF k = 1 THEN InitialIcount ELSE bus[k - 1].icount
      entries(k) == Idles(previous(k) - bus[k].icount - 1) \o <<CycleOf(bus[k])>>
  IN  FlattenSeq([k \in DOMAIN bus |-> entries(k)])
        \o Idles(previous(Len(bus) + 1) - icount)

(***************************************************************************)
(* The checks of generate_test, in its order; the first that fails ends    *)
(* the generator.                                                          *)
(***************************************************************************)
Cycles == InitialIcount - icount

IsFetch(k, address, data) ==
  /\ k \in DOMAIN bus
  /\ ~bus[k].write /\ bus[k].address = address /\ bus[k].data = data

Expected ==
  ExpectedCycles(test.prefix, test.opcode, OperandByte, CCByte(test.cc),
                 Pristine(test.reg["s"]))

Verdict ==
  IF calls > MaxCalls THEN "did not terminate"
  ELSE IF freeRun THEN "free run"
  ELSE IF Cycles \notin 2..21 THEN "cycle range"
  ELSE IF ~IsFetch(1, StartPC(0), Pristine(StartPC(0))) THEN "first access"
  ELSE IF test.prefix # \h00 /\ ~IsFetch(2, StartPC(1), test.opcode) THEN "second access"
  ELSE IF Expected >= 0 /\ Cycles # Expected THEN "datasheet"
  ELSE IF Len(CycleList) # Cycles THEN "cycle list length"
  ELSE "ok"

\* Mutant of Touched: the addresses that are only written are forgotten.
TouchedByReads == {StartPC(i) : i \in 0..(InstructionLength - 1)}
             \cup {bus[k].address : k \in {j \in DOMAIN bus : ~bus[j].write}}

Touched == {StartPC(i) : i \in 0..(InstructionLength - 1)}
             \cup {bus[k].address : k \in DOMAIN bus}

Vector ==
  [bytes      |-> [i \in 1..InstructionLength |-> Pristine(StartPC(i - 1))],
   initialRam |-> [a \in Touched |-> Pristine(a)],
   finalRam   |-> [a \in Touched |-> Peek(a)],
   finalReg   |-> reg,
   finalCC    |-> cc,
   cycles     |-> CycleList]

Finish ==
  /\ verdict = "running" /\ at = "idle"
  /\ calls > 0
  /\ stack = <<>> \/ calls > MaxCalls
  /\ verdict' = Verdict
  /\ vector' = IF Verdict = "ok" THEN Vector ELSE vector
  /\ UNCHANGED <<coreVars, test, calls>>

Next == Execute \/ Step \/ Finish

Spec == GenInit /\ [][Next]_vars
FairSpec == Spec /\ WF_vars(Next)

-----------------------------------------------------------------------------
\* The types of the core's state and of the test around it.
TypeOK ==
  /\ CoreTypeOK
  /\ calls \in 0..(MaxCalls + 1)
  /\ verdict \in {"running", "ok", "did not terminate", "free run", "cycle range",
                  "first access", "second access", "datasheet", "cycle list length"}

(***************************************************************************)
(* fail_test is never called: the core takes the datasheet's number of     *)
(* cycles in every state of every instruction that has one, fetches its    *)
(* opcodes first, and accounts for every cycle in the cycle list.  The     *)
(* code checks this on the states it draws.                                *)
(***************************************************************************)
TestsPass == verdict \in {"running", "ok"}

(***************************************************************************)
(* One instruction takes one call of execute_one(), or two when it waits   *)
(* on the state stack behind an addressing mode or a push; so the guard of *)
(* MaxCalls never is what ends a test.                                     *)
(***************************************************************************)
AtMostTwoCalls == calls <= 2

(***************************************************************************)
(* The length that the opcode table gives an instruction, which delimits   *)
(* BYTS, is what the core consumes: the reads that step the program        *)
(* counter are the bytes of the instruction, in order and no others, and   *)
(* they come before every other access.  A store-immediate of 16 bits      *)
(* overwrites its last byte instead.                                       *)
(***************************************************************************)
InstructionBytes ==
  verdict = "ok" =>
    LET n == IF TestMode = "XST16_IMMEDIATE" THEN InstructionLength - 1
             ELSE InstructionLength
    IN  /\ {k \in DOMAIN bus : bus[k].role \in {"opcode", "arg"}} = 1..n
        /\ \A k \in 1..n : bus[k].address = StartPC(k - 1)

(***************************************************************************)
(* Where execution continues: behind the instruction unless it is one that *)
(* jumps.  What a subroutine call or a software interrupt leaves on the    *)
(* stack as the return address is the address behind the instruction.      *)
(***************************************************************************)
On1(opcodes) == test.prefix = \h00 /\ test.opcode \in opcodes

IsCall == On1({\h8D, \h17} \cup (Quad(\h8D) \ {\h8D}))
IsSoftwareInterrupt == On1({\h3E}) \/ test.opcode = \h3F \/ (test.prefix # 0 /\ test.opcode = \h3E)
MayJump ==
  \/ Row(test.opcode) = 2 \/ On1({\h16, \h0E, \h6E, \h7E, \h39, \h3B})
  \/ On1({\h35, \h37}) /\ Has(OperandByte, \h80)
  \/ On1({\h1E}) /\ 5 \in {Row(OperandByte), Col(OperandByte)}
  \/ On1({\h1F}) /\ Col(OperandByte) = 5

WordAt(a) == Pair(Peek(ToWord(a)), Peek(ToWord(a + 1)))

ReturnAddress ==
  verdict = "ok" =>
    CASE IsCall -> WordAt(reg["s"]) = StartPC(InstructionLength)
      [] IsSoftwareInterrupt -> WordAt(reg["s"] + 10) = StartPC(InstructionLength)
      [] ~IsCall /\ ~IsSoftwareInterrupt /\ ~MayJump ->
           reg["pc"] = StartPC(InstructionLength)
      [] OTHER -> TRUE

(***************************************************************************)
(* A vector can be replayed from itself: from the initial RAM and its own  *)
(* write cycles follow the value of every read cycle and the final RAM,    *)
(* also where the stack, the operand or the vectors overlap the code; and  *)
(* no byte of memory outside the RAM list has changed.                     *)
(***************************************************************************)
Replayed(cycles, k, a, initial) ==
  LET writes == {j \in 1..(k - 1) : cycles[j].status = "-wm-" /\ cycles[j].address = a}
  IN  IF writes = {} THEN initial ELSE cycles[Max(writes)].data

VectorReplays ==
  verdict = "ok" =>
    LET c == vector.cycles
    IN  /\ \A k \in DOMAIN c : c[k].status = "r-m-" =>
             c[k].data = Replayed(c, k, c[k].address, vector.initialRam[c[k].address])
        /\ \A a \in DOMAIN vector.finalRam :
             vector.finalRam[a] = Replayed(c, Len(c) + 1, a, vector.initialRam[a])
        /\ \A a \in DOMAIN mem : Peek(a) # Pristine(a) => a \in DOMAIN vector.finalRam

\* Internal cycles without a bus access occur inside opcode 38 and nowhere else.
IdleCycles ==
  verdict = "ok" =>
    ((\E k \in DOMAIN vector.cycles : vector.cycles[k].status = "----") <=> On1({\h38}))

\* Every test comes to a verdict.
EveryTestFinishes == <>(verdict # "running")

(***************************************************************************)
(* README, "Cycle encoding": dead cycles read from 0xFFFF or re-read the   *)
(* instruction stream at PC.                                               *)
(***************************************************************************)
DeadCyclesStayAtPC ==
  \A k \in DOMAIN bus :
    bus[k].role = "dead" =>
      bus[k].address \in {\hFFFF} \cup {StartPC(i) : i \in 0..(InstructionLength + 1)}
=============================================================================
