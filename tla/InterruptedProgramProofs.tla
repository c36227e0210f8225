---------------------- MODULE InterruptedProgramProofs ----------------------
(***************************************************************************)
(* Theorems of the interrupted program, for every memory and any number of *)
(* raised lines.                                                           *)
(***************************************************************************)
EXTENDS InterruptedProgram, M6809CoreProofs, SequenceTheorems

-----------------------------------------------------------------------------
(***************************************************************************)
(* The labels that wait for a line or serve one preserve the invariant of  *)
(* the core.                                                               *)
(***************************************************************************)
LEMMA SyncOK == CoreInv /\ SYNC => CoreInv'
<1> SUFFICES ASSUME CoreInv, SYNC PROVE CoreInv'
  OBVIOUS
<1>1. /\ at = "SYNC" /\ Bus(<<Dead(0)>>) /\ Goto("SYNC_WAIT")
      /\ UNCHANGED <<reg, cc, lds, line, mem, latches, freeRun>>
  BY DEF SYNC
<1>2. bus' \in Seq(AccessType) /\ icount' \in Int
  BY <1>1, DeadTyped, BusTyped DEF CoreInv, DataOK
<1>3. DataOK'
  BY <1>1, <1>2 DEF CoreInv, DataOK, MemOK, RegOK, latches
<1>4. OperandsLatched'
  BY <1>1 DEF Goto, OperandsLatched, RmwOps, Alu8Ops, Alu16Ops
<1>5. /\ "SYNC_WAIT" \in Labels \ Calls /\ at \notin Calls \cup {"PUSH_REGISTERS", "idle"}
  BY <1>1 DEF Labels, Calls
<1>6. /\ ControlOK /\ mode' \in {"imm", "ea", "a", "b"}
      /\ regop' \in {"none", "a", "b"} \cup Names16
  BY <1>1 DEF CoreInv, ControlOK, latches
<1>7. ControlOK'
  BY <1>1, <1>4, <1>5, <1>6, GotoOK
<1> QED BY <1>3, <1>7 DEF CoreInv

\* A wait that goes on: the only frame is that of the label itself.
LEMMA Suspends ==
  ASSUME ControlOK, NEW l \in {"SYNC_WAIT", "CWAI_WAIT"}, at = l, Suspend(l),
         mode' = mode, regop' = regop
  PROVE  ControlOK'
<1>1. stack = <<>>
  BY DEF ControlOK, StackDiscipline, Calls
<1>2. at' = "idle" /\ stack' = <<l>> /\ l \in Labels
  BY <1>1 DEF Suspend, Labels, AfterPush
<1>3. StackDiscipline'
  BY <1>2 DEF StackDiscipline, AfterPush
<1>4. OperandsLatched'
  BY <1>2 DEF OperandsLatched, RmwOps, Alu8Ops, Alu16Ops
<1>5. Waiting'
  <2> SUFFICES ASSUME NEW j \in Labels, stack' = <<j>>
               PROVE  RegisterLatched(j)' /\ j \notin WithOperand
    BY DEF Waiting
  <2>1. j = l
    BY <1>2
  <2> QED BY <2>1 DEF RegisterLatched, WithOperand, RmwOps, Alu8Ops, Alu16Ops
<1> QED BY <1>2, <1>3, <1>4, <1>5 DEF ControlOK

LEMMA SyncWaitOK == CoreInv /\ SYNC_WAIT => CoreInv'
<1> SUFFICES ASSUME CoreInv, SYNC_WAIT PROVE CoreInv'
  OBVIOUS
<1>1. /\ at = "SYNC_WAIT"
      /\ Suspend("SYNC_WAIT") \/ (icount' = icount - 1 /\ Return)
      /\ UNCHANGED <<reg, cc, lds, line, mem, bus, latches, freeRun>>
  BY DEF SYNC_WAIT
<1>2. icount' \in Int
  BY <1>1 DEF CoreInv, DataOK, Suspend
<1>3. DataOK'
  BY <1>1, <1>2 DEF CoreInv, DataOK, MemOK, RegOK, latches
<1>4. mode' = mode /\ regop' = regop /\ at \notin Calls \cup {"idle"}
  BY <1>1 DEF latches, Calls
<1>5. ControlOK'
  BY <1>1, <1>4, Suspends, Returns DEF CoreInv
<1> QED BY <1>3, <1>5 DEF CoreInv

LEMMA CwaiOK == CoreInv /\ CWAI => CoreInv'
<1> SUFFICES ASSUME CoreInv, CWAI PROVE CoreInv'
  OBVIOUS
<1>1. /\ at = "CWAI" /\ Bus(<<Arg(0), Dead(1)>> \o Vma(1))
      /\ cc' = (cc \cap CCSet(Peek(PC(0)))) \cup {"E"} /\ reg' = At(PC(1))
      /\ regop' = "s" /\ temp' = EntireState /\ Call("PUSH_REGISTERS", "CWAI_WAIT")
      /\ UNCHANGED <<lds, line, mem, ea, mode, cond, freeRun>>
  BY DEF CWAI
<1>2. DataOK /\ ControlOK
  BY DEF CoreInv
<1>3. <<Arg(0), Dead(1)>> \o Vma(1) \in Seq(Access)
  BY <1>2, ArgTyped, VmaTyped, Accesses DEF DataOK
<1>4. bus' \in Seq(AccessType) /\ icount' \in Int
  BY <1>1, <1>2, <1>3, BusTyped DEF DataOK
<1>5. cc' \in SUBSET Flags
  BY <1>1, <1>2 DEF DataOK, Flags
<1>6. RegOK(reg')
  BY <1>1, <1>2, PCTyped, AssignTyped DEF DataOK
<1>7. temp' \in Byte
  BY <1>1, ByteIs DEF EntireState
<1>8. DataOK'
  BY <1>1, <1>2, <1>4, <1>5, <1>6, <1>7 DEF DataOK, MemOK
<1>9. "CWAI_WAIT" \in AfterPush \cap Labels /\ at \notin Calls \cup {"PUSH_REGISTERS", "idle"}
  BY <1>1 DEF AfterPush, Labels, Calls
<1>10. mode' \in {"imm", "ea", "a", "b"} /\ regop' \in {"none", "a", "b"} \cup Names16
  BY <1>1, <1>2 DEF ControlOK, Names16
<1>11. ControlOK'
  BY <1>1, <1>2, <1>9, <1>10, CallOK
<1> QED BY <1>8, <1>11 DEF CoreInv

\* The jump to the vector of an interrupt.
LEMMA JumpsToVector ==
  ASSUME ControlOK, Goto("INTERRUPT_VECTOR"), at \in AfterPush, mode' = "ea", regop' = regop
  PROVE  ControlOK'
<1>1. OperandsLatched'
  BY DEF Goto, OperandsLatched, RmwOps, Alu8Ops, Alu16Ops
<1>2. /\ "INTERRUPT_VECTOR" \in Labels \ Calls
      /\ at \notin Calls \cup {"PUSH_REGISTERS", "idle"}
  BY DEF Labels, Calls, AfterPush
<1>3. regop' \in {"none", "a", "b"} \cup Names16
  BY DEF ControlOK
<1> QED BY <1>1, <1>2, <1>3, GotoOK

LEMMA VectorsAre ==
  /\ PendingInterrupt # "none" => PendingInterrupt \in Interrupts
  /\ \A i \in Interrupts : VectorOf[i] \in Word /\ PushedOf[i] \in AfterPush
<1>1. PendingInterrupt # "none" => PendingInterrupt \in Interrupts
  BY DEF PendingInterrupt, Interrupts
<1>2. \A i \in Interrupts : VectorOf[i] \in Word
  BY WordIs DEF Interrupts, VectorOf
<1>3. \A i \in Interrupts : PushedOf[i] \in AfterPush
  BY DEF Interrupts, PushedOf, AfterPush
<1> QED BY <1>1, <1>2, <1>3

LEMMA CwaiWaitOK == CoreInv /\ CWAI_WAIT => CoreInv'
<1> SUFFICES ASSUME CoreInv, CWAI_WAIT PROVE CoreInv'
  OBVIOUS
<1>1. /\ at = "CWAI_WAIT" /\ at \in AfterPush
      /\ UNCHANGED <<reg, lds, mem, bus, regop, temp, cond, freeRun>>
  BY DEF CWAI_WAIT, AfterPush
<1>2. DataOK /\ ControlOK
  BY DEF CoreInv
<1>3. CASE PendingInterrupt = "none"
  <2>1. Suspend("CWAI_WAIT") /\ ea' = 0 /\ UNCHANGED <<mode, line, cc>>
    BY <1>3 DEF CWAI_WAIT
  <2>2. ControlOK'
    BY <1>1, <1>2, <2>1, Suspends
  <2>3. icount' \in Int /\ ea' \in Word
    BY <2>1, WordIs DEF Suspend
  <2>4. DataOK'
    BY <1>1, <1>2, <2>1, <2>3 DEF DataOK, MemOK, RegOK
  <2> QED BY <2>2, <2>4 DEF CoreInv
<1>4. CASE PendingInterrupt # "none"
  <2>1. /\ ea' = VectorOf[PendingInterrupt] /\ mode' = "ea" /\ line' = line \ {"nmi"}
        /\ cc' = cc \cup {"I"} \cup When("F", PendingInterrupt # "IRQ")
        /\ Goto("INTERRUPT_VECTOR") /\ UNCHANGED icount
    BY <1>4 DEF CWAI_WAIT
  <2>2. ControlOK'
    BY <1>1, <1>2, <2>1, JumpsToVector
  <2>3. ea' \in Word
    BY <1>4, <2>1, VectorsAre
  <2>4. cc' \in SUBSET Flags /\ line' \in SUBSET Lines
    BY <1>2, <2>1 DEF DataOK, Flags, When
  <2>5. DataOK'
    BY <1>1, <1>2, <2>1, <2>3, <2>4 DEF DataOK, MemOK, RegOK
  <2> QED BY <2>2, <2>5 DEF CoreInv
<1> QED BY <1>3, <1>4

LEMMA InterruptEntryOK == CoreInv /\ InterruptEntry => CoreInv'
<1> SUFFICES ASSUME CoreInv, InterruptEntry PROVE CoreInv'
  OBVIOUS
<1>1. /\ at \in Interrupts /\ Bus(<<Dead(0), Dead(0)>> \o Vma(1))
      /\ line' \subseteq line /\ cc' \in {cc \ {"E"}, cc \cup {"E"}}
      /\ temp' \in {PartialState, EntireState} /\ regop' = "s"
      /\ Call("PUSH_REGISTERS", PushedOf[at])
      /\ UNCHANGED <<reg, lds, mem, ea, mode, cond, freeRun>>
  BY DEF InterruptEntry
<1>2. DataOK /\ ControlOK
  BY DEF CoreInv
<1>3. <<Dead(0), Dead(0)>> \o Vma(1) \in Seq(Access)
  BY <1>2, ArgTyped, VmaTyped, Accesses DEF DataOK
<1>4. bus' \in Seq(AccessType) /\ icount' \in Int
  BY <1>1, <1>2, <1>3, BusTyped DEF DataOK
<1>5. cc' \in SUBSET Flags /\ line' \in SUBSET Lines
  BY <1>1, <1>2 DEF DataOK, Flags
<1>6. temp' \in Byte
  BY <1>1, ByteIs DEF EntireState, PartialState
<1>7. DataOK'
  BY <1>1, <1>2, <1>4, <1>5, <1>6 DEF DataOK, MemOK, RegOK
<1>8. PushedOf[at] \in AfterPush \cap Labels /\ at \notin Calls \cup {"PUSH_REGISTERS", "idle"}
  BY <1>1, VectorsAre DEF AfterPush, Labels, Calls, Interrupts
<1>9. mode' \in {"imm", "ea", "a", "b"} /\ regop' \in {"none", "a", "b"} \cup Names16
  BY <1>1, <1>2 DEF ControlOK, Names16
<1>10. ControlOK'
  BY <1>1, <1>2, <1>8, <1>9, CallOK
<1> QED BY <1>7, <1>10 DEF CoreInv

LEMMA InterruptPushedOK == CoreInv /\ InterruptPushed => CoreInv'
<1> SUFFICES ASSUME CoreInv, InterruptPushed PROVE CoreInv'
  OBVIOUS
<1>1. PICK i \in Interrupts :
        /\ at = PushedOf[i] /\ ea' = VectorOf[i] /\ mode' = "ea"
        /\ cc' = cc \cup {"I"} \cup When("F", i # "IRQ") /\ Goto("INTERRUPT_VECTOR")
        /\ UNCHANGED <<reg, lds, line, mem, bus, icount, regop, temp, cond, freeRun>>
  BY DEF InterruptPushed
<1>2. DataOK /\ ControlOK
  BY DEF CoreInv
<1>3. at \in AfterPush /\ ea' \in Word
  BY <1>1, VectorsAre
<1>4. cc' \in SUBSET Flags
  BY <1>1, <1>2 DEF DataOK, Flags, When
<1>5. DataOK'
  BY <1>1, <1>2, <1>3, <1>4 DEF DataOK, MemOK, RegOK
<1>6. ControlOK'
  BY <1>1, <1>2, <1>3, JumpsToVector
<1> QED BY <1>5, <1>6 DEF CoreInv

LEMMA AnyInstructionOK == CoreInv /\ AnyInstruction => CoreInv'
  BY InstructionOK, SyncOK, SyncWaitOK, CwaiOK, CwaiWaitOK, InterruptEntryOK,
     InterruptPushedOK
     DEF AnyInstruction

-----------------------------------------------------------------------------
(***************************************************************************)
(* Every label is left as the listings say.                                *)
(***************************************************************************)
\* The labels that go on to another one.
Continuing ==
  {"DISPATCH01", "DISPATCH10", "DISPATCH11", "MAIN", "XNC8", "XANDCC", "BSR", "LBSR", "JSR",
   "PSHS", "PSHU", "PULS", "PULU", "RTS", "RTI", "SWI", "SWI2", "SWI3",
   "SOFTWARE_INTERRUPT", "XRES", "XSWI2", "XFIRQ", "SYNC", "CWAI", "NMI", "FIRQ", "IRQ"}
    \cup AfterPush

LEMMA DomainsAre ==
  /\ DOMAIN Entries = {"DISPATCH01", "DISPATCH10", "DISPATCH11"}
  /\ DOMAIN Behind = {"SWI", "SOFTWARE_INTERRUPT", "XRES", "XSWI2", "XFIRQ", "CWAI",
                      "NMI", "FIRQ", "IRQ"}
  BY DEF Entries, Behind

LEMMA EndsAre == \A l \in Labels \ Continuing : l \in EndLabels
<1> SUFFICES ASSUME NEW l \in Labels \ Continuing PROVE l \in EndLabels
  OBVIOUS
<1>1. l \notin DOMAIN Entries /\ l \notin DOMAIN Behind
  BY DomainsAre DEF Continuing
<1>2. JumpsOf[l] = {}
  BY <1>1 DEF JumpsOf, Continuing
<1>3. CalleesOf[l] = {}
  BY <1>1 DEF CalleesOf
<1> QED BY <1>2, <1>3 DEF EndLabels

LEMMA ContinuingAreLabels == Continuing \subseteq Labels
  BY DEF Continuing, Labels, WithOperand

LEMMA JumpsAre ==
  \A l \in Continuing :
    /\ l = "MAIN" => JumpsOf[l] = {"DISPATCH01", "NMI", "FIRQ", "IRQ"}
    /\ l = "XNC8" => JumpsOf[l] = {"COM8", "NEG8"}
    /\ l = "XANDCC" => JumpsOf[l] = {"ANDCC"}
    /\ l \in {"BSR", "LBSR", "JSR"} => JumpsOf[l] = {"GOTO_SUBROUTINE"}
    /\ l \in {"PSHS", "PSHU"} => JumpsOf[l] = {"PUSH_REGISTERS"}
    /\ l \in {"PULS", "PULU", "RTS", "RTI"} => JumpsOf[l] = {"PULL_REGISTERS"}
    /\ l \in {"SWI2", "SWI3"} => JumpsOf[l] = {"SOFTWARE_INTERRUPT"}
    /\ l = "SYNC" => JumpsOf[l] = {"SYNC_WAIT"}
    /\ l \in AfterPush => JumpsOf[l] = {"INTERRUPT_VECTOR"}
<1> SUFFICES ASSUME NEW l \in Labels
    PROVE  /\ l = "MAIN" => JumpsOf[l] = {"DISPATCH01", "NMI", "FIRQ", "IRQ"}
           /\ l = "XNC8" => JumpsOf[l] = {"COM8", "NEG8"}
           /\ l = "XANDCC" => JumpsOf[l] = {"ANDCC"}
           /\ l \in {"BSR", "LBSR", "JSR"} => JumpsOf[l] = {"GOTO_SUBROUTINE"}
           /\ l \in {"PSHS", "PSHU"} => JumpsOf[l] = {"PUSH_REGISTERS"}
           /\ l \in {"PULS", "PULU", "RTS", "RTI"} => JumpsOf[l] = {"PULL_REGISTERS"}
           /\ l \in {"SWI2", "SWI3"} => JumpsOf[l] = {"SOFTWARE_INTERRUPT"}
           /\ l = "SYNC" => JumpsOf[l] = {"SYNC_WAIT"}
           /\ l \in AfterPush => JumpsOf[l] = {"INTERRUPT_VECTOR"}
  BY ContinuingAreLabels
<1> HIDE DEF Labels
<1>1. l \in {"DISPATCH01", "DISPATCH10", "DISPATCH11"} \/ l \notin DOMAIN Entries
  BY DomainsAre
<1> QED BY <1>1 DEF JumpsOf, AfterPush

LEMMA CalleesAre ==
  \A l \in DOMAIN Behind : <<"PUSH_REGISTERS", Behind[l]>> \in CalleesOf[l]
<1> SUFFICES ASSUME NEW l \in DOMAIN Behind
             PROVE  <<"PUSH_REGISTERS", Behind[l]>> \in CalleesOf[l]
  OBVIOUS
<1>1. l \in Labels /\ l \notin DOMAIN Entries
  BY DomainsAre, ContinuingAreLabels DEF Continuing
<1> QED BY <1>1 DEF CalleesOf

LEMMA EntryJumps ==
  \A l \in DOMAIN Entries : \A e \in Entries[l] : e.addr \notin Calls => e.body \in JumpsOf[l]
<1> SUFFICES ASSUME NEW l \in DOMAIN Entries, NEW e \in Entries[l], e.addr \notin Calls
             PROVE  e.body \in JumpsOf[l]
  OBVIOUS
<1>1. l \in Labels
  BY DomainsAre, ContinuingAreLabels DEF Continuing
<1>2. JumpsOf[l] = DispatchJumps(l)
  BY <1>1, DomainsAre DEF JumpsOf, AfterPush
<1> QED BY <1>2 DEF DispatchJumps

LEMMA IdleIsNone == "idle" \notin Labels
  BY DEF Labels, Calls, WithOperand, AfterPush, RmwOps, Alu8Ops, Alu16Ops

LEMMA Ends == ASSUME at \in Labels \ Continuing, Return PROVE Listings!Next
<1>1. Listings!Return
  BY EndsAre DEF Return, Goto, Listings!Return
<1> QED BY <1>1 DEF Listings!Next

LEMMA Goes == ASSUME at \in Labels, NEW l \in JumpsOf[at], Goto(l) PROVE Listings!Next
<1>1. Listings!Jump
  BY IdleIsNone DEF Goto, Listings!Jump
<1> QED BY <1>1 DEF Listings!Next

LEMMA CallsOn ==
  ASSUME at \in Labels, NEW l, NEW k, <<l, k>> \in CalleesOf[at], Call(l, k)
  PROVE  Listings!Next
<1>1. at' = <<l, k>>[1] /\ stack' = << <<l, k>>[2] >> \o stack
  BY DEF Call
<1>2. Listings!Call
  BY <1>1, IdleIsNone DEF Listings!Call
<1> QED BY <1>2 DEF Listings!Next

LEMMA Waits == ASSUME at \in WaitLabels, Suspend(at) PROVE Listings!Next
<1>1. Listings!Wait
  BY DEF Suspend, Listings!Wait
<1> QED BY <1>1 DEF Listings!Next

\* The labels that return, but for the two of an interrupt.
EndAction ==
  \/ DIRECT \/ EXTENDED \/ INDEXED \/ ReadModifyWrite \/ TST8 \/ JMP
  \/ Accumulate8 \/ Accumulate16 \/ ST8 \/ ST16 \/ XST8 \/ XST16 \/ LEA_xy \/ LEA_us
  \/ NOP \/ DAA \/ SEX \/ ABX \/ MUL \/ ORCC \/ ANDCC \/ X18 \/ FREERUN \/ EXG \/ TFR
  \/ BRANCH \/ LBRANCH \/ GOTO_SUBROUTINE \/ PULL_REGISTERS

LEMMA EndActionReturns ==
  EndAction =>
    /\ Return /\ line' = line
    /\ at \notin Continuing \cup {"idle", "PUSH_REGISTERS", "INTERRUPT_VECTOR"}
<1> SUFFICES ASSUME EndAction
             PROVE  /\ Return /\ line' = line
                    /\ at \notin Continuing \cup {"idle", "PUSH_REGISTERS", "INTERRUPT_VECTOR"}
  OBVIOUS
<1>1. Return /\ line' = line
  BY DEF EndAction,
         DIRECT, EXTENDED, INDEXED, IndexedShort, IndexedLong, ReadModifyWrite, TST8, JMP,
         Accumulate8, Accumulate16, ST8, ST16, XST8, XST16, LEA_xy, LEA_us, NOP, DAA, SEX,
         ABX, MUL, ORCC, ANDCC, X18, FREERUN, EXG, TFR, BRANCH, LBRANCH, GOTO_SUBROUTINE,
         PULL_REGISTERS
<1>2. at \notin Continuing \cup {"idle", "PUSH_REGISTERS", "INTERRUPT_VECTOR"}
  BY DEF EndAction, Continuing, AfterPush, RmwOps, Alu8Ops, Alu16Ops,
         DIRECT, EXTENDED, INDEXED, ReadModifyWrite, TST8, JMP,
         Accumulate8, Accumulate16, ST8, ST16, XST8, XST16, LEA_xy, LEA_us, NOP, DAA, SEX,
         ABX, MUL, ORCC, ANDCC, X18, FREERUN, EXG, TFR, BRANCH, LBRANCH, GOTO_SUBROUTINE,
         PULL_REGISTERS
<1> QED BY <1>1, <1>2

LEMMA EndActions ==
  ASSUME CoreInv, EndAction \/ PUSH_REGISTERS \/ INTERRUPT_VECTOR
  PROVE  Listings!Next
<1>1. Return /\ at \notin Continuing \cup {"idle"}
  BY EndActionReturns DEF PUSH_REGISTERS, INTERRUPT_VECTOR, Continuing, AfterPush
<1> QED BY <1>1, Ends DEF CoreInv, ControlOK

\* The labels that go to another one.
LEMMA GotoActions ==
  ASSUME CoreInv,
         \/ MAIN \/ XNC8 \/ XANDCC \/ BSR \/ LBSR \/ JSR \/ PSHS \/ PSHU \/ PULS \/ PULU
         \/ RTS \/ RTI \/ SharedSoftwareInterrupt \/ SWI_PUSHED \/ PUSHED \/ SYNC
         \/ InterruptPushed
  PROVE  Listings!Next
<1>1. \/ at = "MAIN" /\ \E l \in {"DISPATCH01", "NMI", "FIRQ", "IRQ"} : Goto(l)
      \/ at = "XNC8" /\ \E l \in {"COM8", "NEG8"} : Goto(l)
      \/ at = "XANDCC" /\ Goto("ANDCC")
      \/ at \in {"BSR", "LBSR", "JSR"} /\ Goto("GOTO_SUBROUTINE")
      \/ at \in {"PSHS", "PSHU"} /\ Goto("PUSH_REGISTERS")
      \/ at \in {"PULS", "PULU", "RTS", "RTI"} /\ Goto("PULL_REGISTERS")
      \/ at \in {"SWI2", "SWI3"} /\ Goto("SOFTWARE_INTERRUPT")
      \/ at = "SYNC" /\ Goto("SYNC_WAIT")
      \/ at \in AfterPush /\ Goto("INTERRUPT_VECTOR")
  <2>1. CASE MAIN
    BY <2>1 DEF MAIN, PendingInterrupt
  <2>2. CASE InterruptPushed
    BY <2>2, VectorsAre DEF InterruptPushed
  <2>3. CASE XNC8
    BY <2>3 DEF XNC8
  <2>4. CASE \/ XANDCC \/ BSR \/ LBSR \/ JSR \/ PSHS \/ PSHU \/ PULS \/ PULU \/ RTS \/ RTI
             \/ SharedSoftwareInterrupt \/ SWI_PUSHED \/ PUSHED \/ SYNC
    BY <2>4 DEF XANDCC, BSR, LBSR, JSR, PSHS, PSHU, Push, PULS, PULU, Pull, RTS, RTI,
                SharedSoftwareInterrupt, SWI_PUSHED, PUSHED, SYNC, AfterPush
  <2> QED BY <2>1, <2>2, <2>3, <2>4
<1>2. at \in Continuing
  BY <1>1 DEF Continuing
<1>3. \E l \in JumpsOf[at] : Goto(l)
  BY <1>1, <1>2, JumpsAre
<1> QED BY <1>2, <1>3, ContinuingAreLabels, Goes

\* The labels that call the push of the registers.
LEMMA CallActions ==
  ASSUME SoftwareInterrupt \/ CWAI \/ InterruptEntry
  PROVE  Listings!Next
<1>1. at \in DOMAIN Behind /\ Call("PUSH_REGISTERS", Behind[at])
  <2>1. CASE SoftwareInterrupt
    BY <2>1, DomainsAre DEF SoftwareInterrupt, SoftwareInterrupts, DocumentedSwi, Behind
  <2>2. CASE CWAI
    BY <2>2, DomainsAre DEF CWAI, Behind
  <2>3. CASE InterruptEntry
    BY <2>3, DomainsAre DEF InterruptEntry, Interrupts, PushedOf, Behind
  <2> QED BY <2>1, <2>2, <2>3
<1>2. at \in Labels
  BY <1>1, DomainsAre, ContinuingAreLabels DEF Continuing
<1> QED BY <1>1, <1>2, CalleesAre, CallsOn

\* The dispatch goes to, or calls, what an entry of its table names.
LEMMA DispatchActions ==
  ASSUME CoreInv, DISPATCH01 \/ DISPATCH10 \/ DISPATCH11
  PROVE  Listings!Next
<1> DEFINE opcode == Peek(PC(0))
           entry(label) == CASE label = "DISPATCH01" -> Page1(opcode)
                             [] label = "DISPATCH10" -> Page10(opcode)
                             [] label = "DISPATCH11" -> Page11(opcode)
           e == entry(at)
<1>1. at \in {"DISPATCH01", "DISPATCH10", "DISPATCH11"} /\ FetchAndDispatch(at)
  BY DEF DISPATCH01, DISPATCH10, DISPATCH11
<1>2. opcode \in Byte
  BY PeeksTyped DEF CoreInv, DataOK
<1>3. /\ at \in DOMAIN Entries /\ e \in Entries[at]
      /\ at \in Labels /\ at \notin DOMAIN Behind
  BY <1>1, <1>2, DomainsAre, ContinuingAreLabels DEF Entries, Continuing
<1>4. \/ at = "DISPATCH01" /\ Goto("FREERUN")
      \/ e.addr \in Calls /\ Call(e.addr, e.body)
      \/ e.addr \notin Calls /\ Goto(e.body)
  BY <1>1 DEF FetchAndDispatch
<1>5. ASSUME at = "DISPATCH01", Goto("FREERUN") PROVE Listings!Next
  <2>1. \h14 \in Byte /\ Row(\h14) = 1 /\ Col(\h14) = 4
    BY ByteIs DEF Row, Col
  <2>2. Page1(\h14) = Row1Entry(\h14)
    BY <2>1 DEF Page1
  <2>3. Row1Entry(\h14).addr \notin Calls /\ Row1Entry(\h14).body = "FREERUN"
    BY <2>1 DEF Row1Entry, Entry, Calls
  <2>4. Page1(\h14) \in Entries["DISPATCH01"]
    BY <2>1 DEF Entries
  <2>5. "FREERUN" \in JumpsOf[at]
    BY <1>3, <1>5, <2>2, <2>3, <2>4, EntryJumps
  <2> QED BY <1>3, <1>5, <2>5, Goes
<1> HIDE DEF e
<1>6. ASSUME e.addr \in Calls, Call(e.addr, e.body) PROVE Listings!Next
  <2>1. <<e.addr, e.body>> \in CalleesOf[at]
    BY <1>3, <1>6 DEF CalleesOf, DispatchCalls
  <2> QED BY <1>3, <1>6, <2>1, CallsOn
<1>7. ASSUME e.addr \notin Calls, Goto(e.body) PROVE Listings!Next
  <2>1. e.body \in JumpsOf[at]
    BY <1>3, <1>7, EntryJumps
  <2> QED BY <1>3, <1>7, <2>1, Goes
<1> QED BY <1>4, <1>5, <1>6, <1>7

LEMMA WaitActions ==
  ASSUME CoreInv, SYNC_WAIT \/ CWAI_WAIT
  PROVE  Listings!Next
<1>1. CASE Suspend(at) /\ at \in WaitLabels
  BY <1>1, Waits
<1>2. CASE at = "SYNC_WAIT" /\ Return
  BY <1>2, Ends DEF Continuing, AfterPush, Labels
<1>3. CASE at = "CWAI_WAIT" /\ Goto("INTERRUPT_VECTOR")
  <2>1. at \in Continuing /\ at \in AfterPush
    BY <1>3 DEF Continuing, AfterPush
  <2> QED BY <1>3, <2>1, JumpsAre, ContinuingAreLabels, Goes
<1>4. \/ Suspend(at) /\ at \in WaitLabels
      \/ at = "SYNC_WAIT" /\ Return
      \/ at = "CWAI_WAIT" /\ Goto("INTERRUPT_VECTOR")
  BY DEF SYNC_WAIT, CWAI_WAIT, WaitLabels
<1> QED BY <1>1, <1>2, <1>3, <1>4

LEMMA AnyInstructionListed == CoreInv /\ AnyInstruction => Listings!Next
  BY EndActions, GotoActions, CallActions, DispatchActions, WaitActions
     DEF AnyInstruction, Instruction, EndAction

-----------------------------------------------------------------------------
(***************************************************************************)
(* The environment and the caller.                                         *)
(***************************************************************************)
LEMMA ProgramInitOK == ProgramInit => CoreInv
<1> SUFFICES ASSUME ProgramInit PROVE CoreInv
  OBVIOUS
<1>1. RegOK(reg)
  BY ByteIs, WordIs DEF ProgramInit, RegOK, Registers, Reg8, Reg16
<1>2. DataOK
  <2>1. cc \in SUBSET Flags /\ line \in SUBSET Lines /\ bus \in Seq(AccessType)
    <3>1. cc = {"I", "F"} /\ line = {} /\ bus = <<>>
      BY DEF ProgramInit
    <3> QED BY <3>1 DEF Flags
  <2>2. ea \in Word /\ temp \in Byte /\ icount \in Int
    BY ByteIs, WordIs DEF ProgramInit, InitialIcount
  <2>3. MemOK(mem)
    BY DEF ProgramInit, MemOK
  <2>4. lds \in BOOLEAN /\ cond \in BOOLEAN /\ freeRun \in BOOLEAN
    <3>1. lds = FALSE /\ cond = FALSE /\ freeRun = FALSE
      BY DEF ProgramInit
    <3> QED BY <3>1
  <2> QED BY <1>1, <2>1, <2>2, <2>3, <2>4 DEF DataOK
<1>3. StackDiscipline /\ OperandsLatched /\ Waiting
  BY DEF ProgramInit, StackDiscipline, OperandsLatched, Waiting, Calls, RmwOps, Alu8Ops,
         Alu16Ops
<1>4. ControlOK
  BY <1>3 DEF ProgramInit, ControlOK
<1> QED BY <1>2, <1>4 DEF CoreInv

\* The lines move, or nothing does.
LEMMA LinesMove ==
  ASSUME CoreInv, line' \in SUBSET Lines,
         UNCHANGED <<reg, cc, lds, mem, bus, icount, latches, freeRun, at, stack>>
  PROVE  CoreInv'
<1>1. DataOK'
  BY DEF CoreInv, DataOK, MemOK, RegOK, latches
<1>2. ControlOK'
  BY DEF CoreInv, ControlOK, StackDiscipline, OperandsLatched, Waiting, RegisterLatched, latches
<1> QED BY <1>1, <1>2 DEF CoreInv

LEMMA ExecuteOK == CoreInv /\ Execute => CoreInv'
<1> SUFFICES ASSUME CoreInv, Execute PROVE CoreInv'
  OBVIOUS
<1>1. bus' \in Seq(AccessType) /\ icount' \in Int
  BY DEF Execute, InitialIcount
<1>2. DataOK'
  BY <1>1 DEF Execute, CoreInv, DataOK, MemOK, RegOK, latches
<1>3. ControlOK'
  BY Pops DEF Execute, CoreInv, latches
<1> QED BY <1>2, <1>3 DEF CoreInv

LEMMA NextOK == CoreInv /\ [Next]_vars => CoreInv'
<1> SUFFICES ASSUME CoreInv, [Next]_vars PROVE CoreInv'
  OBVIOUS
<1>1. CASE Execute
  BY <1>1, ExecuteOK
<1>2. CASE Step
  BY <1>2, AnyInstructionOK DEF Step
<1>3. CASE (\E l \in Lines : Raise(l) \/ Lower(l)) \/ UNCHANGED vars
  <2>1. line' \in SUBSET Lines
    BY <1>3 DEF Raise, Lower, vars, coreVars, CoreInv, DataOK
  <2>2. UNCHANGED <<reg, cc, lds, mem, bus, icount, latches, freeRun, at, stack>>
    BY <1>3 DEF Raise, Lower, vars, coreVars
  <2> QED BY <2>1, <2>2, LinesMove
<1> QED BY <1>1, <1>2, <1>3 DEF Next

LEMMA Inductive == Spec => []CoreInv
  BY ProgramInitOK, NextOK, PTL DEF Spec

-----------------------------------------------------------------------------
(***************************************************************************)
(* Whenever the lines move, the registers, latches and logged accesses     *)
(* keep their widths, and every label that is reached is one of the core's.*)
(***************************************************************************)
THEOREM ProgramTypeCorrect == Spec => []CoreTypeOK
  BY Inductive, CoreInvImplies, PTL

(***************************************************************************)
(* No interrupt, and no wait for one, meets a state stack with more than   *)
(* the frame of the label that is called: push_state() has room for it,    *)
(* and RTI, SYNC and CWAI go on behind the label that called.              *)
(***************************************************************************)
THEOREM InterruptsKeepDiscipline == Spec => []StackDiscipline
  BY Inductive, CoreInvImplies, PTL

(***************************************************************************)
(* What an instruction reads through its latches is its own, also when an  *)
(* interrupt was served in front of it or the caller waited behind it.     *)
(***************************************************************************)
THEOREM InterruptsKeepLatches == Spec => []OperandsLatched
  BY Inductive, CoreInvImplies, PTL

(***************************************************************************)
(* Refinement: in whatever order the lines move, the labels are left as    *)
(* the notation of the listings says, every continuation is entered once   *)
(* and in its turn, and only a wait is entered again.                      *)
(***************************************************************************)
THEOREM ProgramFollowsListing == Spec => FollowsListing
<1>1. ProgramInit => Listings!Init
  BY DEF ProgramInit, Listings!Init
<1>2. CoreInv /\ [Next]_vars => [Listings!Next]_(Listings!vars)
  <2> SUFFICES ASSUME CoreInv, [Next]_vars PROVE Listings!Next \/ UNCHANGED <<at, stack>>
    BY DEF Listings!vars
  <2>1. CASE Execute
    <3>1. Listings!Enter
      BY <2>1 DEF Execute, Listings!Enter
    <3> QED BY <3>1 DEF Listings!Next
  <2>2. CASE Step
    BY <2>2, AnyInstructionListed DEF Step
  <2>3. CASE (\E l \in Lines : Raise(l) \/ Lower(l)) \/ UNCHANGED vars
    BY <2>3 DEF Raise, Lower, vars, coreVars
  <2> QED BY <2>1, <2>2, <2>3 DEF Next
<1> QED BY <1>1, <1>2, Inductive, PTL DEF Spec, FollowsListing, Listings!Spec

-----------------------------------------------------------------------------
(***************************************************************************)
(* The NMI is counted: the sum of NmiTakenOnce is kept because the vector  *)
(* is only read behind the push that cleared the latch, and because the    *)
(* software interrupts that share INTERRUPT_VECTOR bring other vectors.    *)
(***************************************************************************)
OwnVector == {"SOFTWARE_INTERRUPT", "PUSHED", "SWI_PUSHED"}

OtherVector ==
  at \in OwnVector \/ (\E l \in OwnVector : stack = <<l>>) => ea # VectorOf["NMI"]

NmiInv ==
  /\ raised \in [Lines -> Nat] /\ served \in Nat
  /\ NmiTakenOnce
  /\ at = "NMI" => "nmi" \in line
  /\ OtherVector

\* Nothing that NmiInv is about is running or waiting.
Calm(a, s) ==
  /\ a \notin OwnVector \cup {"NMI", "NMI_PUSHED", "INTERRUPT_VECTOR"}
  /\ \/ s = <<>>
     \/ \E l \in WithOperand \cup {"SYNC_WAIT", "CWAI_WAIT", "FIRQ_PUSHED", "IRQ_PUSHED"} :
          s = <<l>>

LEMMA SpecialLabels ==
  WithOperand \cap (OwnVector \cup {"NMI", "NMI_PUSHED", "INTERRUPT_VECTOR"}) = {}
  BY DEF WithOperand, OwnVector, RmwOps, Alu8Ops, Alu16Ops

LEMMA CalmIs ==
  \A a, s : Calm(a, s) =>
    /\ "NMI_PUSHED" \notin {a} \cup {s[k] : k \in DOMAIN s}
    /\ ~ \E l \in OwnVector : s = <<l>>
<1> SUFFICES ASSUME NEW a, NEW s, Calm(a, s)
             PROVE  /\ "NMI_PUSHED" \notin {a} \cup {s[k] : k \in DOMAIN s}
                    /\ ~ \E l \in OwnVector : s = <<l>>
  OBVIOUS
<1>1. CASE s = <<>>
  BY <1>1 DEF Calm
<1>2. CASE \E l \in WithOperand \cup {"SYNC_WAIT", "CWAI_WAIT", "FIRQ_PUSHED", "IRQ_PUSHED"} :
             s = <<l>>
  <2>1. PICK l \in WithOperand \cup {"SYNC_WAIT", "CWAI_WAIT", "FIRQ_PUSHED", "IRQ_PUSHED"} :
          s = <<l>>
    BY <1>2
  <2>2. l \notin OwnVector \cup {"NMI_PUSHED"}
    BY SpecialLabels DEF OwnVector
  <2> QED BY <2>1, <2>2 DEF Calm
<1> QED BY <1>1, <1>2 DEF Calm

LEMMA StaysCalm ==
  ASSUME NmiInv, Calm(at, stack), Calm(at, stack)', UNCHANGED <<line, raised, served>>
  PROVE  NmiInv'
<1>1. ~NmiUnderway
  BY CalmIs DEF NmiUnderway, Calm
<1>2. ~NmiUnderway'
  BY CalmIs DEF NmiUnderway, Calm
<1>3. OtherVector'
  BY CalmIs DEF OtherVector, Calm
<1> QED BY <1>1, <1>2, <1>3 DEF NmiInv, NmiTakenOnce, Calm

\* Where StackDiscipline leaves no frame.
LEMMA NoFrame ==
  ASSUME StackDiscipline, at \notin Calls \cup {"PUSH_REGISTERS", "idle"}
  PROVE  stack = <<>>
  BY DEF StackDiscipline

\* The labels that neither serve nor wait for an interrupt.
Plain ==
  Labels \ (OwnVector \cup AfterPush
    \cup {"NMI", "FIRQ", "IRQ", "PUSH_REGISTERS", "INTERRUPT_VECTOR", "MAIN", "SWI2", "SWI3",
          "SWI", "XSWI2", "XFIRQ", "XRES", "idle"})

LEMMA PlainIsCalm ==
  ASSUME StackDiscipline, at \in Plain
  PROVE  Calm(at, stack)
<1>1. at \notin OwnVector \cup {"NMI", "NMI_PUSHED", "INTERRUPT_VECTOR", "PUSH_REGISTERS", "idle"}
  BY DEF Plain, AfterPush
<1>2. CASE at \in Calls
  BY <1>1, <1>2 DEF StackDiscipline, Calm
<1>3. CASE at \notin Calls
  BY <1>1, <1>3, NoFrame DEF Calm
<1> QED BY <1>2, <1>3

\* An action keeps the sum, or moves one of it.
LEMMA Balance ==
  ASSUME NmiInv, raised' = raised, (at = "NMI" => "nmi" \in line)', OtherVector',
         \/ /\ "nmi" \in line' <=> "nmi" \in line
            /\ NmiUnderway' <=> NmiUnderway
            /\ served' = served
         \/ /\ "nmi" \in line /\ "nmi" \notin line'
            /\ ~NmiUnderway /\ NmiUnderway'
            /\ served' = served
         \/ /\ "nmi" \in line' <=> "nmi" \in line
            /\ NmiUnderway /\ ~NmiUnderway'
            /\ served' = served + 1
  PROVE  NmiInv'
  BY DEF NmiInv, NmiTakenOnce

LEMMA VectorsDiffer ==
  /\ \A l \in {"SWI", "SWI2", "SWI3", "XSWI2", "XFIRQ", "XRES", "FIRQ", "IRQ"} :
       VectorOf[l] # VectorOf["NMI"]
  BY DEF VectorOf

LEMMA EndCounts ==
  ASSUME CoreInv, NmiInv, EndAction, UNCHANGED <<raised, served>>
  PROVE  NmiInv'
<1>1. at \in Plain
  <2>1. at \in Labels \cup {"idle"}
    BY DEF CoreInv, ControlOK
  <2>2. at \notin Continuing \cup {"idle", "PUSH_REGISTERS", "INTERRUPT_VECTOR"}
    BY EndActionReturns
  <2> QED BY <2>1, <2>2 DEF Plain, Continuing, OwnVector, AfterPush
<1>2. Calm(at, stack)
  BY <1>1, PlainIsCalm DEF CoreInv, ControlOK
<1>3. Calm(at, stack)'
  BY <1>2, EndActionReturns DEF Return, Goto, Calm, OwnVector
<1> QED BY <1>2, <1>3, EndActionReturns, StaysCalm

\* A jump between two labels that have nothing to do with interrupts, or CWAI.
LEMMA JumpCounts ==
  ASSUME CoreInv, NmiInv, UNCHANGED <<raised, served>>,
         \/ XNC8 \/ XANDCC \/ BSR \/ LBSR \/ JSR \/ PSHS \/ PSHU \/ PULS \/ PULU
         \/ RTS \/ RTI \/ SYNC \/ SYNC_WAIT \/ CWAI
  PROVE  NmiInv'
<1>1. line' = line
  BY DEF XNC8, XANDCC, BSR, LBSR, JSR, PSHS, PSHU, Push, PULS, PULU, Pull, RTS, RTI, SYNC,
         SYNC_WAIT, CWAI
<1>2. at \in {"XNC8", "XANDCC", "BSR", "LBSR", "JSR", "PSHS", "PSHU", "PULS", "PULU", "RTS",
             "RTI", "SYNC", "SYNC_WAIT", "CWAI"}
  BY DEF XNC8, XANDCC, BSR, LBSR, JSR, PSHS, PSHU, Push, PULS, PULU, Pull, RTS, RTI, SYNC,
         SYNC_WAIT, CWAI
<1>3. stack = <<>>
  BY <1>2, NoFrame DEF CoreInv, ControlOK, Calls
<1>4. \/ /\ at' \in {"COM8", "NEG8", "ANDCC", "GOTO_SUBROUTINE", "PUSH_REGISTERS",
                    "PULL_REGISTERS", "SYNC_WAIT", "idle"}
         /\ stack' = stack
      \/ at' = "idle" /\ stack' = <<"SYNC_WAIT">> \o stack
      \/ at' = "PUSH_REGISTERS" /\ stack' = <<"CWAI_WAIT">> \o stack
  BY DEF XNC8, XANDCC, BSR, LBSR, JSR, PSHS, PSHU, Push, PULS, PULU, Pull, RTS, RTI, SYNC,
         SYNC_WAIT, CWAI, Goto, Return, Call, Suspend
<1>5. Calm(at, stack)
  BY <1>2, <1>3 DEF Calm, OwnVector
<1>6. Calm(at, stack)'
  BY <1>3, <1>4 DEF Calm, OwnVector
<1> QED BY <1>1, <1>5, <1>6, StaysCalm

\* Where a dispatch leads: to an addressing label in front of an instruction,
\* or to an instruction.
LEMMA DispatchLeads ==
  ASSUME CoreInv, DISPATCH01 \/ DISPATCH10 \/ DISPATCH11
  PROVE  /\ line' = line
         /\ \/ at' \in Calls /\ \E l \in WithOperand : stack' = <<l>>
            \/ stack' = <<>> /\ at' \in Immediate \cup WithOperand \cup Inherent
<1> DEFINE opcode == Peek(PC(0))
           entry(label) == CASE label = "DISPATCH01" -> Page1(opcode)
                             [] label = "DISPATCH10" -> Page10(opcode)
                             [] label = "DISPATCH11" -> Page11(opcode)
           e == entry(at)
<1>1. at \in {"DISPATCH01", "DISPATCH10", "DISPATCH11"} /\ FetchAndDispatch(at)
  BY DEF DISPATCH01, DISPATCH10, DISPATCH11
<1>2. opcode \in Byte
  BY PeeksTyped DEF CoreInv, DataOK
<1>3. EntryOK(e)
  BY <1>1, <1>2, Page1OK, Page10OK, Page11OK
<1>4. /\ \/ Goto("FREERUN")
         \/ e.addr \in Calls /\ Call(e.addr, e.body)
         \/ e.addr \notin Calls /\ Goto(e.body)
      /\ line' = line
  BY <1>1 DEF FetchAndDispatch
<1> HIDE DEF e
<1>5. stack = <<>>
  BY <1>1, NoFrame DEF CoreInv, ControlOK, Calls
<1>6. CASE Goto("FREERUN")
  BY <1>4, <1>5, <1>6 DEF Goto, Inherent
<1>7. CASE e.addr \in Calls /\ Call(e.addr, e.body)
  <2>1. e.body \in WithOperand
    BY <1>3, <1>7 DEF EntryOK, Calls
  <2>2. at' \in Calls /\ stack' = <<e.body>>
    BY <1>5, <1>7 DEF Call
  <2> QED BY <1>4, <2>1, <2>2
<1>8. CASE e.addr \notin Calls /\ Goto(e.body)
  <2>1. e.body \in Immediate \cup WithOperand \cup Inherent
    BY <1>3, <1>8 DEF EntryOK, WithOperand
  <2> QED BY <1>4, <1>5, <1>8, <2>1 DEF Goto
<1> QED BY <1>4, <1>6, <1>7, <1>8

LEMMA DispatchCounts ==
  ASSUME CoreInv, NmiInv, UNCHANGED <<raised, served>>,
         DISPATCH01 \/ DISPATCH10 \/ DISPATCH11
  PROVE  NmiInv'
<1>1. stack = <<>> /\ at \in {"DISPATCH01", "DISPATCH10", "DISPATCH11"}
  BY NoFrame DEF DISPATCH01, DISPATCH10, DISPATCH11, CoreInv, ControlOK, Calls
<1>2. Calm(at, stack)
  BY <1>1 DEF Calm, OwnVector
<1>3. at' \notin OwnVector \cup {"NMI", "NMI_PUSHED", "INTERRUPT_VECTOR"}
  BY DispatchLeads, SpecialLabels
     DEF Immediate, Inherent, OwnVector, Calls, Alu8Ops, Alu16Ops
<1>4. Calm(at, stack)'
  BY <1>3, DispatchLeads DEF Calm
<1> QED BY <1>2, <1>4, DispatchLeads, StaysCalm

\* The labels that raise, carry or take a vector.
LEMMA MainCounts ==
  ASSUME CoreInv, NmiInv, UNCHANGED <<raised, served>>, MAIN
  PROVE  NmiInv'
<1>1. at = "MAIN" /\ stack = <<>>
  BY NoFrame DEF MAIN, CoreInv, ControlOK, Calls
<1>2. /\ at' \in {"DISPATCH01", "NMI", "FIRQ", "IRQ"} /\ stack' = <<>> /\ line' = line
      /\ at' = "NMI" => "nmi" \in line
  BY <1>1 DEF MAIN, Goto, PendingInterrupt
<1>3. ~NmiUnderway /\ ~NmiUnderway'
  BY <1>1, <1>2 DEF NmiUnderway
<1>4. OtherVector'
  BY <1>2 DEF OtherVector, OwnVector
<1> QED BY <1>2, <1>3, <1>4, Balance

LEMMA SoftwareCounts ==
  ASSUME CoreInv, NmiInv, UNCHANGED <<raised, served>>,
         SharedSoftwareInterrupt \/ SoftwareInterrupt \/ SWI_PUSHED \/ PUSHED
  PROVE  NmiInv'
<1>1. CASE SharedSoftwareInterrupt
  <2>1. /\ at \in {"SWI2", "SWI3"} /\ at' = "SOFTWARE_INTERRUPT" /\ stack' = stack
        /\ ea' = VectorOf[at] /\ line' = line
    BY <1>1 DEF SharedSoftwareInterrupt, Goto
  <2>2. stack = <<>>
    BY <2>1, NoFrame DEF CoreInv, ControlOK, Calls
  <2>3. ~NmiUnderway /\ ~NmiUnderway'
    BY <2>1, <2>2 DEF NmiUnderway
  <2>4. OtherVector'
    BY <2>1, VectorsDiffer DEF OtherVector
  <2> QED BY <2>1, <2>3, <2>4, Balance
<1>2. CASE SoftwareInterrupt
  <2>1. /\ at \in {"SWI", "SOFTWARE_INTERRUPT", "XRES", "XSWI2", "XFIRQ"}
        /\ ea' = (IF at = "SOFTWARE_INTERRUPT" THEN ea ELSE VectorOf[at])
        /\ at' = "PUSH_REGISTERS" /\ line' = line
        /\ stack' = <<IF at = "SWI" THEN "SWI_PUSHED" ELSE "PUSHED">> \o stack
    BY <1>2 DEF SoftwareInterrupt, SoftwareInterrupts, Call
  <2>2. stack = <<>>
    BY <2>1, NoFrame DEF CoreInv, ControlOK, Calls
  <2>3. stack' \in {<<"SWI_PUSHED">>, <<"PUSHED">>}
    BY <2>1, <2>2
  <2>4. ~NmiUnderway /\ ~NmiUnderway'
    BY <2>1, <2>2, <2>3 DEF NmiUnderway
  <2>5. ea' # VectorOf["NMI"]
    BY <2>1, VectorsDiffer DEF NmiInv, OtherVector, OwnVector
  <2> QED BY <2>1, <2>4, <2>5, Balance DEF OtherVector
<1>3. CASE SWI_PUSHED \/ PUSHED
  <2>1. /\ at \in {"SWI_PUSHED", "PUSHED"} /\ at' = "INTERRUPT_VECTOR" /\ stack' = stack
        /\ ea' = ea /\ line' = line
    BY <1>3 DEF SWI_PUSHED, PUSHED, Goto, latches
  <2>2. stack = <<>>
    BY <2>1, NoFrame DEF CoreInv, ControlOK, Calls
  <2>3. ea # VectorOf["NMI"]
    BY <2>1 DEF NmiInv, OtherVector, OwnVector
  <2>4. ~NmiUnderway /\ ~NmiUnderway'
    BY <2>1, <2>2, <2>3 DEF NmiUnderway
  <2>5. OtherVector'
    BY <2>1, <2>3 DEF OtherVector
  <2> QED BY <2>1, <2>4, <2>5, Balance
<1> QED BY <1>1, <1>2, <1>3

LEMMA PushCounts ==
  ASSUME NmiInv, UNCHANGED <<raised, served>>, PUSH_REGISTERS
  PROVE  NmiInv'
<1>1. at = "PUSH_REGISTERS" /\ at' = "idle" /\ UNCHANGED <<stack, line, ea>>
  BY DEF PUSH_REGISTERS, Return, Goto, latches
<1>2. NmiUnderway' <=> NmiUnderway
  BY <1>1 DEF NmiUnderway
<1>3. OtherVector'
  BY <1>1 DEF NmiInv, OtherVector, OwnVector
<1> QED BY <1>1, <1>2, <1>3, Balance

LEMMA VectorCounts ==
  ASSUME CoreInv, NmiInv, UNCHANGED raised, INTERRUPT_VECTOR,
         served' = IF ea = VectorOf["NMI"] THEN served + 1 ELSE served
  PROVE  NmiInv'
<1>1. at = "INTERRUPT_VECTOR" /\ at' = "idle" /\ stack' = stack /\ line' = line
  BY DEF INTERRUPT_VECTOR, Return, Goto
<1>2. stack = <<>>
  BY <1>1, NoFrame DEF CoreInv, ControlOK, Calls
<1>3. /\ NmiUnderway <=> ea = VectorOf["NMI"]
      /\ ~NmiUnderway'
  BY <1>1, <1>2 DEF NmiUnderway
<1>4. OtherVector'
  BY <1>1, <1>2 DEF OtherVector, OwnVector
<1> QED BY <1>1, <1>3, <1>4, Balance

LEMMA CwaiWaitCounts ==
  ASSUME CoreInv, NmiInv, UNCHANGED <<raised, served>>, CWAI_WAIT
  PROVE  NmiInv'
<1>1. at = "CWAI_WAIT" /\ stack = <<>>
  BY NoFrame DEF CWAI_WAIT, CoreInv, ControlOK, Calls
<1>2. CASE PendingInterrupt = "none"
  <2>1. at' = "idle" /\ stack' = <<"CWAI_WAIT">> /\ line' = line
    BY <1>1, <1>2 DEF CWAI_WAIT, Suspend
  <2>2. Calm(at, stack) /\ Calm(at, stack)'
    BY <1>1, <2>1 DEF Calm, OwnVector
  <2> QED BY <2>1, <2>2, StaysCalm
<1>3. CASE PendingInterrupt # "none"
  <2>1. /\ at' = "INTERRUPT_VECTOR" /\ stack' = <<>> /\ line' = line \ {"nmi"}
        /\ ea' = VectorOf[PendingInterrupt]
    BY <1>1, <1>3 DEF CWAI_WAIT, Goto
  <2>2. ea' = VectorOf["NMI"] <=> "nmi" \in line
    BY <1>3, <2>1, VectorsDiffer DEF PendingInterrupt
  <2>3. ~NmiUnderway /\ (NmiUnderway' <=> "nmi" \in line)
    BY <1>1, <2>1, <2>2 DEF NmiUnderway
  <2>4. OtherVector'
    BY <2>1 DEF OtherVector, OwnVector
  <2> QED BY <2>1, <2>3, <2>4, Balance
<1> QED BY <1>2, <1>3

LEMMA InterruptCounts ==
  ASSUME CoreInv, NmiInv, UNCHANGED <<raised, served>>, InterruptEntry \/ InterruptPushed
  PROVE  NmiInv'
<1>1. CASE InterruptEntry
  <2>1. /\ at \in {"NMI", "FIRQ", "IRQ"} /\ at' = "PUSH_REGISTERS"
        /\ stack' = <<PushedOf[at]>> \o stack
        /\ line' = (IF at = "NMI" THEN line \ {"nmi"} ELSE line)
    BY <1>1 DEF InterruptEntry, Interrupts, Call
  <2>2. stack = <<>>
    BY <2>1, NoFrame DEF CoreInv, ControlOK, Calls
  <2>3. stack' = <<PushedOf[at]>>
    BY <2>1, <2>2
  <2>4. /\ PushedOf[at] \in {"NMI_PUSHED", "FIRQ_PUSHED", "IRQ_PUSHED"}
        /\ PushedOf[at] = "NMI_PUSHED" <=> at = "NMI"
    BY <2>1 DEF PushedOf
  <2>5. ~NmiUnderway /\ (NmiUnderway' <=> at = "NMI")
    BY <2>1, <2>2, <2>3, <2>4 DEF NmiUnderway
  <2>6. OtherVector'
    <3>1. stack'[1] \notin OwnVector /\ at' \notin OwnVector
      BY <2>1, <2>3, <2>4 DEF OwnVector
    <3> QED BY <3>1 DEF OtherVector
  <2> QED BY <2>1, <2>5, <2>6, Balance DEF NmiInv
<1>2. CASE InterruptPushed
  <2>1. PICK i \in {"NMI", "FIRQ", "IRQ"} :
          /\ at = PushedOf[i] /\ ea' = VectorOf[i] /\ at' = "INTERRUPT_VECTOR"
          /\ stack' = stack /\ line' = line
    BY <1>2 DEF InterruptPushed, Interrupts, Goto
  <2>2. /\ at \in {"NMI_PUSHED", "FIRQ_PUSHED", "IRQ_PUSHED"}
        /\ at = "NMI_PUSHED" <=> i = "NMI"
    BY <2>1 DEF PushedOf
  <2>3. stack = <<>>
    BY <2>2, NoFrame DEF CoreInv, ControlOK, Calls
  <2>4. ea' = VectorOf["NMI"] <=> i = "NMI"
    BY <2>1, VectorsDiffer
  <2>5. NmiUnderway' <=> NmiUnderway
    BY <2>1, <2>2, <2>3, <2>4 DEF NmiUnderway
  <2>6. OtherVector'
    BY <2>1, <2>3 DEF OtherVector, OwnVector
  <2> QED BY <2>1, <2>5, <2>6, Balance
<1> QED BY <1>1, <1>2

LEMMA StepCounts == CoreInv /\ NmiInv /\ Step => NmiInv'
<1> SUFFICES ASSUME CoreInv, NmiInv, Step PROVE NmiInv'
  OBVIOUS
<1>1. /\ AnyInstruction /\ raised' = raised
      /\ served' = IF at = "INTERRUPT_VECTOR" /\ ea = VectorOf["NMI"] THEN served + 1 ELSE served
  BY DEF Step
<1>2. CASE INTERRUPT_VECTOR
  <2>1. at = "INTERRUPT_VECTOR"
    BY <1>2 DEF INTERRUPT_VECTOR
  <2> QED BY <1>1, <1>2, <2>1, VectorCounts
<1>3. CASE EndAction
  <2>1. UNCHANGED <<raised, served>>
    BY <1>1, <1>3, EndActionReturns
  <2> QED BY <1>3, <2>1, EndCounts
<1>4. CASE \/ XNC8 \/ XANDCC \/ BSR \/ LBSR \/ JSR \/ PSHS \/ PSHU \/ PULS \/ PULU
           \/ RTS \/ RTI \/ SYNC \/ SYNC_WAIT \/ CWAI
  <2>1. at # "INTERRUPT_VECTOR"
    BY <1>4 DEF XNC8, XANDCC, BSR, LBSR, JSR, PSHS, PSHU, Push, PULS, PULU, Pull, RTS, RTI,
                SYNC, SYNC_WAIT, CWAI
  <2> QED BY <1>1, <1>4, <2>1, JumpCounts
<1>5. CASE \/ MAIN \/ DISPATCH01 \/ DISPATCH10 \/ DISPATCH11 \/ PUSH_REGISTERS
           \/ SharedSoftwareInterrupt \/ SoftwareInterrupt \/ SWI_PUSHED \/ PUSHED
           \/ CWAI_WAIT \/ InterruptEntry \/ InterruptPushed
  <2>1. at # "INTERRUPT_VECTOR"
    BY <1>5 DEF MAIN, DISPATCH01, DISPATCH10, DISPATCH11, PUSH_REGISTERS,
                SharedSoftwareInterrupt, SoftwareInterrupt, SoftwareInterrupts, SWI_PUSHED,
                PUSHED, CWAI_WAIT, InterruptEntry, InterruptPushed, Interrupts, PushedOf
  <2>2. UNCHANGED <<raised, served>>
    BY <1>1, <2>1
  <2> QED BY <1>5, <2>2, MainCounts, DispatchCounts, PushCounts, SoftwareCounts,
             CwaiWaitCounts, InterruptCounts
<1> QED BY <1>1, <1>2, <1>3, <1>4, <1>5 DEF AnyInstruction, Instruction, EndAction

LEMMA LinesCount ==
  ASSUME NmiInv, NEW l \in Lines, Raise(l) \/ Lower(l)
  PROVE  NmiInv'
<1>1. UNCHANGED <<at, stack, ea, served>> /\ at = "idle"
  BY DEF Raise, Lower, latches, programVars
<1>2. (NmiUnderway' <=> NmiUnderway) /\ OtherVector'
  BY <1>1 DEF NmiUnderway, NmiInv, OtherVector
<1>3. CASE Raise(l)
  <2>1. /\ l \notin line /\ line' = line \cup {l}
        /\ raised' = [raised EXCEPT ![l] = @ + 1] /\ raised \in [Lines -> Nat]
    BY <1>3 DEF Raise, NmiInv
  <2>2. raised' \in [Lines -> Nat] /\ "nmi" \in Lines
    BY <2>1 DEF Lines
  <2>3. raised'["nmi"] = IF l = "nmi" THEN raised["nmi"] + 1 ELSE raised["nmi"]
    BY <2>1, <2>2
  <2> QED BY <1>1, <1>2, <2>1, <2>2, <2>3 DEF NmiInv, NmiTakenOnce
<1>4. CASE Lower(l)
  <2>1. line' = line \ {l} /\ l # "nmi" /\ raised' = raised
    BY <1>4 DEF Lower, programVars
  <2> QED BY <1>1, <1>2, <2>1, Balance
<1> QED BY <1>3, <1>4

LEMMA ExecuteCounts == CoreInv /\ NmiInv /\ Execute => NmiInv'
<1> SUFFICES ASSUME CoreInv, NmiInv, Execute PROVE NmiInv'
  OBVIOUS
<1>1. /\ at = "idle" /\ UNCHANGED <<line, ea, raised, served>>
      /\ at' = IF stack = <<>> THEN "MAIN" ELSE Head(stack)
      /\ stack' = IF stack = <<>> THEN stack ELSE Tail(stack)
  BY DEF Execute, latches, programVars
<1>2. CASE stack = <<>>
  <2>1. Calm(at, stack) /\ Calm(at, stack)'
    BY <1>1, <1>2 DEF Calm, OwnVector
  <2> QED BY <1>1, <2>1, StaysCalm
<1>3. CASE stack # <<>>
  <2>1. PICK l : stack = <<l>> /\ l \in WithOperand \cup AfterPush \cup {"SYNC_WAIT"}
    BY <1>1, <1>3 DEF CoreInv, ControlOK, StackDiscipline
  <2>2. at' = l /\ stack' = <<>>
    BY <1>1, <1>3, <2>1
  <2>3. l \notin {"NMI", "INTERRUPT_VECTOR"}
    BY <2>1, SpecialLabels DEF AfterPush
  <2>4. NmiUnderway' <=> NmiUnderway
    BY <1>1, <2>1, <2>2, <2>3 DEF NmiUnderway
  <2>5. OtherVector'
    BY <1>1, <2>1, <2>2 DEF NmiInv, OtherVector
  <2> QED BY <1>1, <2>2, <2>3, <2>4, <2>5, Balance
<1> QED BY <1>2, <1>3

LEMMA NmiInitOK == ProgramInit => NmiInv
<1> SUFFICES ASSUME ProgramInit PROVE NmiInv
  OBVIOUS
<1>1. /\ at = "idle" /\ stack = <<>> /\ line = {} /\ served = 0
      /\ raised \in [Lines -> Nat] /\ raised["nmi"] = 0
  BY DEF ProgramInit, Lines
<1> QED BY <1>1 DEF NmiInv, NmiTakenOnce, NmiUnderway, OtherVector, OwnVector

(***************************************************************************)
(* No NMI is lost and none is taken twice, however often it is raised and  *)
(* whatever it interrupts: SYNC, CWAI, another interrupt, or the call of   *)
(* execute_one() that is about to begin.                                   *)
(***************************************************************************)
THEOREM EveryNmiIsTakenOnce == Spec => []NmiTakenOnce
<1>1. CoreInv /\ NmiInv /\ [Next]_vars => NmiInv'
  <2> SUFFICES ASSUME CoreInv, NmiInv, [Next]_vars PROVE NmiInv'
    OBVIOUS
  <2>1. CASE UNCHANGED vars
    BY <2>1 DEF vars, coreVars, latches, programVars, NmiInv, NmiTakenOnce, NmiUnderway,
                OtherVector
  <2>2. CASE Next
    BY <2>2, LinesCount, ExecuteCounts, StepCounts DEF Next
  <2> QED BY <2>1, <2>2
<1>2. NmiInv => NmiTakenOnce
  BY DEF NmiInv
<1> QED BY <1>1, <1>2, NmiInitOK, Inductive, PTL DEF Spec

-----------------------------------------------------------------------------
(***************************************************************************)
(* The frames that RTI will find.  EDescribesFrame follows because a frame *)
(* is pushed with the mask and the E flag that its interrupt has prepared, *)
(* and because nothing moves the vector in m_ea between the push and the   *)
(* INTERRUPT_VECTOR that completes the entry of the history.               *)
(***************************************************************************)
SavedFrame ==
  [kind : {"entire", "fast", "unmarked"},
   context : [reg : [Registers -> Word], cc : SUBSET Flags], vector : Word]

\* Between the push of a frame and the read of its vector.
Ending(a, s) ==
  \/ a \in AfterPush \cup {"INTERRUPT_VECTOR"}
  \/ a = "idle" /\ \E l \in AfterPush : s = <<l>>

\* The same, where the interrupt may be an undocumented one.
EndingShared(a, s) ==
  \/ a \in {"PUSHED", "INTERRUPT_VECTOR"}
  \/ a = "idle" /\ s = <<"PUSHED">>

\* What the push of a frame has been prepared with.
FramePrepared ==
  at = "PUSH_REGISTERS" =>
    /\ stack = <<"FIRQ_PUSHED">> => temp = PartialState /\ "E" \notin cc
    /\ \A l \in AfterPush \ {"FIRQ_PUSHED"} :
         stack = <<l>> => /\ temp = EntireState
                          /\ "E" \in cc \/ (l = "PUSHED" /\ ea \in Undocumented)

FramesMarked ==
  \A k \in DOMAIN saved :
    /\ "E" \in saved[k].context.cc => saved[k].kind = "entire"
    /\ saved[k].kind = "unmarked" =>
         \/ saved[k].vector \in Undocumented
         \/ k = 1 /\ saved[k].vector = 0 /\ ea \in Undocumented /\ EndingShared(at, stack)

FrameInv ==
  /\ saved \in Seq(SavedFrame)
  /\ Ending(at, stack) => saved # <<>> /\ saved[1].vector = 0
  /\ FramePrepared
  /\ FramesMarked

\* Neither pushing the frame of an interrupt nor on the way to its vector.
Quiet(a, s) ==
  /\ ~Ending(a, s)
  /\ a = "PUSH_REGISTERS" => \A l \in AfterPush : s # <<l>>

LEMMA FrameNames ==
  /\ AfterPush \cap (WithOperand \cup {"PUSH_REGISTERS", "INTERRUPT_VECTOR", "idle"}) = {}
  /\ "PUSHED" \in AfterPush /\ "FIRQ_PUSHED" \in AfterPush
  /\ "INTERRUPT_VECTOR" \notin WithOperand
  BY DEF AfterPush, WithOperand, RmwOps, Alu8Ops, Alu16Ops

LEMMA SharedEnds == \A a, s : EndingShared(a, s) => Ending(a, s)
  BY FrameNames DEF EndingShared, Ending

\* What a quiet step leaves or pulls is still marked.
LEMMA FramesStay ==
  ASSUME FrameInv, ~EndingShared(at, stack), Quiet(at, stack)',
         saved' = saved \/ (saved # <<>> /\ saved' = Tail(saved))
  PROVE  FrameInv'
<1>1. /\ saved' \in Seq(SavedFrame)
      /\ \A k \in DOMAIN saved' : \E j \in DOMAIN saved : saved'[k] = saved[j]
  <2>1. CASE saved' = saved
    BY <2>1 DEF FrameInv
  <2>2. CASE saved # <<>> /\ saved' = Tail(saved)
    <3>1. /\ saved' \in Seq(SavedFrame) /\ Len(saved') = Len(saved) - 1
          /\ \A k \in 1..(Len(saved) - 1) : saved'[k] = saved[k + 1]
      BY <2>2 DEF FrameInv
    <3>2. DOMAIN saved' = 1..(Len(saved) - 1) /\ DOMAIN saved = 1..Len(saved)
      BY <3>1 DEF FrameInv
    <3>3. \A k \in DOMAIN saved' : k + 1 \in DOMAIN saved /\ saved'[k] = saved[k + 1]
      BY <3>1, <3>2 DEF FrameInv
    <3> QED BY <3>1, <3>3
  <2> QED BY <2>1, <2>2
<1>2. FramesMarked'
  BY <1>1 DEF FrameInv, FramesMarked
<1>3. FramePrepared'
  BY FrameNames DEF Quiet, FramePrepared
<1> QED BY <1>1, <1>2, <1>3 DEF FrameInv, Quiet

LEMMA EndIsQuiet ==
  ASSUME CoreInv, EndAction
  PROVE  Quiet(at, stack) /\ Quiet(at, stack)'
<1>1. /\ at \notin Continuing \cup {"idle", "PUSH_REGISTERS", "INTERRUPT_VECTOR"}
      /\ at' = "idle" /\ stack' = stack
  BY EndActionReturns DEF Return, Goto
<1>2. \A l \in AfterPush : stack # <<l>>
  <2> SUFFICES ASSUME NEW l \in AfterPush, stack = <<l>> PROVE FALSE
    OBVIOUS
  <2>1. PICK j \in WithOperand : stack = <<j>>
    BY <1>1 DEF CoreInv, ControlOK, StackDiscipline
  <2>2. j = l
    BY <2>1
  <2> QED BY <2>1, <2>2, FrameNames
<1> QED BY <1>1, <1>2, FrameNames DEF Quiet, Ending, Continuing

LEMMA JumpIsQuiet ==
  ASSUME CoreInv,
         \/ MAIN \/ XNC8 \/ XANDCC \/ BSR \/ LBSR \/ JSR \/ PSHS \/ PSHU \/ PULS \/ PULU
         \/ RTS \/ RTI \/ SYNC \/ SYNC_WAIT \/ SharedSoftwareInterrupt
  PROVE  Quiet(at, stack) /\ Quiet(at, stack)'
<1>1. at \in {"MAIN", "XNC8", "XANDCC", "BSR", "LBSR", "JSR", "PSHS", "PSHU", "PULS", "PULU",
             "RTS", "RTI", "SYNC", "SYNC_WAIT", "SWI2", "SWI3"}
  BY DEF MAIN, XNC8, XANDCC, BSR, LBSR, JSR, PSHS, PSHU, Push, PULS, PULU, Pull, RTS, RTI,
         SYNC, SYNC_WAIT, SharedSoftwareInterrupt
<1>2. stack = <<>>
  BY <1>1, NoFrame DEF CoreInv, ControlOK, Calls
<1>3. \/ /\ at' \in {"COM8", "NEG8", "ANDCC", "GOTO_SUBROUTINE", "PUSH_REGISTERS",
                    "PULL_REGISTERS", "SYNC_WAIT", "SOFTWARE_INTERRUPT", "idle",
                    "DISPATCH01", "NMI", "FIRQ", "IRQ"}
         /\ stack' = stack
      \/ at' = "idle" /\ stack' = <<"SYNC_WAIT">> \o stack
  BY DEF MAIN, XNC8, XANDCC, BSR, LBSR, JSR, PSHS, PSHU, Push, PULS, PULU, Pull, RTS, RTI,
         SYNC, SYNC_WAIT, SharedSoftwareInterrupt, Goto, Return, Suspend, PendingInterrupt
<1>4. Quiet(at, stack)
  BY <1>1, <1>2 DEF Quiet, Ending, AfterPush
<1>5. CASE stack' = stack
  <2>1. \A l : stack' # <<l>>
    BY <1>2, <1>5
  <2>2. at' \notin AfterPush \cup {"INTERRUPT_VECTOR"}
    BY <1>3 DEF AfterPush
  <2> QED BY <1>4, <2>1, <2>2 DEF Quiet, Ending
<1>6. CASE at' = "idle" /\ stack' = <<"SYNC_WAIT">> \o stack
  <2>1. stack' = <<"SYNC_WAIT">>
    BY <1>2, <1>6
  <2>2. \A l : stack' = <<l>> => l = "SYNC_WAIT"
    BY <2>1
  <2>3. "SYNC_WAIT" \notin AfterPush /\ at' \notin AfterPush \cup {"INTERRUPT_VECTOR"}
    BY <1>6 DEF AfterPush
  <2> QED BY <1>4, <1>6, <2>2, <2>3 DEF Quiet, Ending
<1> QED BY <1>3, <1>4, <1>5, <1>6

LEMMA DispatchIsQuiet ==
  ASSUME CoreInv, DISPATCH01 \/ DISPATCH10 \/ DISPATCH11
  PROVE  Quiet(at, stack) /\ Quiet(at, stack)'
<1>1. stack = <<>> /\ at \in {"DISPATCH01", "DISPATCH10", "DISPATCH11"}
  BY NoFrame DEF DISPATCH01, DISPATCH10, DISPATCH11, CoreInv, ControlOK, Calls
<1>2. \/ at' \in Calls /\ \E l \in WithOperand : stack' = <<l>>
      \/ stack' = <<>> /\ at' \in Immediate \cup WithOperand \cup Inherent
  BY DispatchLeads
<1>3. Quiet(at, stack)
  BY <1>1 DEF Quiet, Ending, AfterPush
<1>4. at' \notin AfterPush \cup {"INTERRUPT_VECTOR", "idle", "PUSH_REGISTERS"}
  BY <1>2, FrameNames DEF Immediate, Inherent, Calls, AfterPush, Alu8Ops, Alu16Ops, WithOperand,
       RmwOps
<1> QED BY <1>3, <1>4 DEF Quiet, Ending

LEMMA QuietSteps ==
  ASSUME CoreInv, FrameInv, Step,
         \/ EndAction
         \/ MAIN \/ XNC8 \/ XANDCC \/ BSR \/ LBSR \/ JSR \/ PSHS \/ PSHU \/ PULS \/ PULU
         \/ RTS \/ RTI \/ SYNC \/ SYNC_WAIT \/ SharedSoftwareInterrupt
         \/ DISPATCH01 \/ DISPATCH10 \/ DISPATCH11
  PROVE  FrameInv'
<1>1. Quiet(at, stack) /\ Quiet(at, stack)'
  BY EndIsQuiet, JumpIsQuiet, DispatchIsQuiet
<1>2. ~PushesFrame
  <2> SUFFICES ASSUME PushesFrame PROVE FALSE
    OBVIOUS
  <2>1. at = "PUSH_REGISTERS" /\ stack # <<>> /\ Head(stack) \in AfterPush
    BY DEF PushesFrame
  <2>2. PICK l \in AfterPush : stack = <<l>>
    BY <2>1, FrameNames DEF CoreInv, ControlOK, StackDiscipline, Calls
  <2> QED BY <1>1, <2>1, <2>2 DEF Quiet
<1>3. at # "INTERRUPT_VECTOR"
  BY <1>1 DEF Quiet, Ending
<1>4. saved' = saved \/ (saved # <<>> /\ saved' = Tail(saved))
  BY <1>2, <1>3 DEF Step
<1>5. ~EndingShared(at, stack)
  BY <1>1, SharedEnds DEF Quiet
<1> QED BY <1>1, <1>4, <1>5, FramesStay

\* The end of every interrupt is called with its mask and its E flag.
LEMMA CallsPush ==
  ASSUME CoreInv, FrameInv, saved' = saved,
         SoftwareInterrupt \/ CWAI \/ InterruptEntry
  PROVE  FrameInv'
<1>1. at \in SoftwareInterrupts \cup {"CWAI", "NMI", "FIRQ", "IRQ"}
  BY DEF SoftwareInterrupt, CWAI, InterruptEntry, Interrupts
<1>2. stack = <<>>
  BY <1>1, NoFrame DEF CoreInv, ControlOK, Calls, SoftwareInterrupts
<1>3. ~EndingShared(at, stack)
  BY <1>1 DEF EndingShared, SoftwareInterrupts
<1>4. FramesMarked'
  BY <1>3 DEF FrameInv, FramesMarked
<1>5. at' = "PUSH_REGISTERS" /\ \E l : stack' = <<l>>
  BY <1>2 DEF SoftwareInterrupt, CWAI, InterruptEntry, Call
<1>6. ~Ending(at, stack)'
  BY <1>5, FrameNames DEF Ending
<1>7. FramePrepared'
  <2>1. CASE SoftwareInterrupt
    <3>1. /\ stack' = <<IF at = "SWI" THEN "SWI_PUSHED" ELSE "PUSHED">>
          /\ temp' = EntireState
          /\ cc' = (IF at \in DocumentedSwi THEN cc \cup {"E"} ELSE cc)
          /\ ea' = (IF at = "SOFTWARE_INTERRUPT" THEN ea ELSE VectorOf[at])
      BY <1>2, <2>1 DEF SoftwareInterrupt, Call
    <3>2. \A l : stack' = <<l>> => l \in {"SWI_PUSHED", "PUSHED"} /\ (l # "PUSHED" => at = "SWI")
      BY <3>1
    <3>3. at \in {"SWI", "SOFTWARE_INTERRUPT"} => "E" \in cc'
      BY <3>1 DEF DocumentedSwi
    <3>4. at \in {"XRES", "XSWI2", "XFIRQ"} => ea' \in Undocumented
      BY <3>1 DEF Undocumented
    <3>5. at \in {"SWI", "SOFTWARE_INTERRUPT", "XRES", "XSWI2", "XFIRQ"}
      BY <2>1 DEF SoftwareInterrupt, SoftwareInterrupts
    <3> QED BY <3>1, <3>2, <3>3, <3>4, <3>5 DEF FramePrepared
  <2>2. CASE CWAI
    <3>1. stack' = <<"CWAI_WAIT">> /\ temp' = EntireState /\ "E" \in cc'
      BY <1>2, <2>2 DEF CWAI, Call
    <3>2. \A l : stack' = <<l>> => l = "CWAI_WAIT"
      BY <3>1
    <3> QED BY <3>1, <3>2 DEF FramePrepared
  <2>3. CASE InterruptEntry
    <3>1. /\ at \in {"NMI", "FIRQ", "IRQ"} /\ stack' = <<PushedOf[at]>>
          /\ cc' = (IF at = "FIRQ" THEN cc \ {"E"} ELSE cc \cup {"E"})
          /\ temp' = (IF at = "FIRQ" THEN PartialState ELSE EntireState)
      BY <1>2, <2>3 DEF InterruptEntry, Interrupts, Call
    <3>2. \A l : stack' = <<l>> => (l = "FIRQ_PUSHED" <=> at = "FIRQ")
      BY <3>1 DEF PushedOf
    <3> QED BY <3>1, <3>2 DEF FramePrepared
  <2> QED BY <2>1, <2>2, <2>3
<1> QED BY <1>4, <1>6, <1>7 DEF FrameInv

\* The push: the frame is entered, marked by what was prepared.
LEMMA PushEnters ==
  ASSUME CoreInv, FrameInv, Step, PUSH_REGISTERS
  PROVE  FrameInv'
<1>1. at = "PUSH_REGISTERS" /\ at' = "idle" /\ UNCHANGED <<stack, ea>>
  BY DEF PUSH_REGISTERS, Return, Goto, latches
<1>2. ~EndingShared(at, stack)
  BY <1>1 DEF EndingShared
<1>3. FramePrepared'
  BY <1>1 DEF FramePrepared
<1>4. CASE stack = <<>>
  <2>1. saved' = saved
    BY <1>1, <1>4 DEF Step, PushesFrame, PullsFrame
  <2>2. Quiet(at, stack)'
    BY <1>1, <1>4 DEF Quiet, Ending, AfterPush
  <2> QED BY <1>2, <2>1, <2>2, FramesStay
<1>5. CASE stack # <<>>
  <2>1. PICK l \in AfterPush : stack = <<l>>
    BY <1>1, <1>5, FrameNames DEF CoreInv, ControlOK, StackDiscipline, Calls
  <2> DEFINE f == [kind |-> KindNow, context |-> ContextNow, vector |-> 0]
  <2>2. saved' = <<f>> \o saved
    BY <1>1, <1>5, <2>1 DEF Step, PushesFrame
  <2>3. f \in SavedFrame
    <3>1. KindNow \in {"entire", "fast", "unmarked"} /\ 0 \in Word
      BY WordIs DEF KindNow
    <3>2. ContextNow \in [reg : [Registers -> Word], cc : SUBSET Flags]
      BY DEF ContextNow, CoreInv, DataOK, RegOK
    <3> QED BY <3>1, <3>2 DEF SavedFrame
  <2>4. /\ f.vector = 0
        /\ "E" \in f.context.cc => f.kind = "entire"
        /\ f.kind = "unmarked" => ea \in Undocumented /\ stack = <<"PUSHED">>
    <3>1. f.context.cc = cc /\ f.kind = KindNow /\ f.vector = 0
      BY DEF ContextNow
    <3>2. CASE l = "FIRQ_PUSHED"
      <4>1. temp = PartialState /\ "E" \notin cc
        BY <1>1, <2>1, <3>2 DEF FrameInv, FramePrepared
      <4> QED BY <3>1, <4>1 DEF KindNow
    <3>3. CASE l # "FIRQ_PUSHED"
      <4>1. temp = EntireState /\ ("E" \in cc \/ (l = "PUSHED" /\ ea \in Undocumented))
        BY <1>1, <2>1, <3>3 DEF FrameInv, FramePrepared
      <4>2. EntireState # PartialState
        BY DEF EntireState, PartialState
      <4> QED BY <2>1, <3>1, <4>1, <4>2 DEF KindNow
    <3> QED BY <3>2, <3>3
  <2> HIDE DEF f
  <2>5. /\ saved' \in Seq(SavedFrame) /\ saved' # <<>> /\ saved'[1] = f
        /\ \A k \in DOMAIN saved' : k # 1 => k - 1 \in DOMAIN saved /\ saved'[k] = saved[k - 1]
    <3>1. saved \in Seq(SavedFrame) /\ <<f>> \in Seq(SavedFrame)
      BY <2>3 DEF FrameInv
    <3>2. /\ saved' \in Seq(SavedFrame) /\ Len(saved') = 1 + Len(saved)
          /\ \A k \in 1..Len(saved') : saved'[k] = IF k <= 1 THEN f ELSE saved[k - 1]
      BY <2>2, <3>1
    <3>3. Len(saved) \in Nat /\ DOMAIN saved = 1..Len(saved) /\ DOMAIN saved' = 1..Len(saved')
      BY <3>1, <3>2
    <3> QED BY <3>2, <3>3
  <2>6. FramesMarked'
    <3> SUFFICES ASSUME NEW k \in DOMAIN saved'
                 PROVE  /\ "E" \in saved'[k].context.cc => saved'[k].kind = "entire"
                        /\ saved'[k].kind = "unmarked" =>
                             \/ saved'[k].vector \in Undocumented
                             \/ /\ k = 1 /\ saved'[k].vector = 0 /\ ea \in Undocumented
                                /\ EndingShared(at', stack')
      BY <1>1 DEF FramesMarked
    <3>1. CASE k = 1
      BY <1>1, <2>4, <2>5, <3>1 DEF EndingShared
    <3>2. CASE k # 1
      BY <1>2, <2>5, <3>2 DEF FrameInv, FramesMarked
    <3> QED BY <3>1, <3>2
  <2> QED BY <1>3, <2>4, <2>5, <2>6 DEF FrameInv
<1> QED BY <1>4, <1>5

\* The code behind the push: the vector is the one that the push waited for.
LEMMA VectorComes ==
  ASSUME CoreInv, FrameInv, saved' = saved,
         SWI_PUSHED \/ PUSHED \/ CWAI_WAIT \/ InterruptPushed
  PROVE  FrameInv'
<1>1. at \in AfterPush /\ stack = <<>>
  <2>1. at \in AfterPush
    BY DEF SWI_PUSHED, PUSHED, CWAI_WAIT, InterruptPushed, Interrupts, PushedOf, AfterPush
  <2> QED BY <2>1, NoFrame DEF CoreInv, ControlOK, AfterPush, Calls
<1>2. saved # <<>> /\ saved[1].vector = 0
  BY <1>1 DEF FrameInv, Ending
<1>3. \/ at' = "INTERRUPT_VECTOR" /\ stack' = <<>>
      \/ at' = "idle" /\ stack' = <<"CWAI_WAIT">>
  BY <1>1 DEF SWI_PUSHED, PUSHED, CWAI_WAIT, InterruptPushed, Goto, Suspend
<1>4. FramePrepared'
  BY <1>3 DEF FramePrepared
<1>5. FramesMarked'
  <2>1. CASE PUSHED
    <3>1. at' = "INTERRUPT_VECTOR" /\ ea' = ea
      BY <2>1 DEF PUSHED, Goto, latches
    <3> QED BY <3>1 DEF FrameInv, FramesMarked, EndingShared
  <2>2. CASE at # "PUSHED"
    <3>1. ~EndingShared(at, stack)
      BY <1>1, <2>2, FrameNames DEF EndingShared
    <3> QED BY <3>1 DEF FrameInv, FramesMarked
  <2>3. at = "PUSHED" => PUSHED
    BY DEF SWI_PUSHED, CWAI_WAIT, InterruptPushed, Interrupts, PushedOf
  <2> QED BY <2>1, <2>2, <2>3
<1> QED BY <1>2, <1>4, <1>5 DEF FrameInv

LEMMA VectorEnters ==
  ASSUME CoreInv, FrameInv, Step, INTERRUPT_VECTOR
  PROVE  FrameInv'
<1>1. at = "INTERRUPT_VECTOR" /\ at' = "idle" /\ stack' = stack
  BY DEF INTERRUPT_VECTOR, Return, Goto
<1>2. stack = <<>>
  BY <1>1, NoFrame DEF CoreInv, ControlOK, Calls
<1>3. saved' = [saved EXCEPT ![1].vector = ea]
  BY <1>1 DEF Step, PushesFrame, PullsFrame
<1>4. saved \in Seq(SavedFrame) /\ saved # <<>> /\ saved[1].vector = 0
  BY <1>1 DEF FrameInv, Ending
<1>5. ea \in Word
  BY DEF CoreInv, DataOK
<1>6. 1 \in DOMAIN saved /\ saved[1] \in SavedFrame /\ DOMAIN saved = 1..Len(saved)
  BY <1>4
<1> DEFINE f == [saved[1] EXCEPT !.vector = ea]
<1>7. f \in SavedFrame /\ f.vector = ea /\ f.kind = saved[1].kind /\ f.context = saved[1].context
  BY <1>5, <1>6 DEF SavedFrame
<1>8. /\ saved' = [saved EXCEPT ![1] = f]
      /\ DOMAIN saved' = DOMAIN saved
  BY <1>3, <1>6
<1> HIDE DEF f
<1>9. saved' \in Seq(SavedFrame) /\ saved'[1] = f
      /\ \A k \in DOMAIN saved : k # 1 => saved'[k] = saved[k]
  BY <1>4, <1>6, <1>7, <1>8
<1>10. FramesMarked'
  <2>1. 0 \notin Undocumented
    BY DEF Undocumented, VectorOf
  <2>2. FramesMarked
    BY DEF FrameInv
  <2>3. f.kind = "unmarked" => ea \in Undocumented
    BY <1>4, <1>6, <1>7, <2>1, <2>2 DEF FramesMarked
  <2>4. "E" \in f.context.cc => f.kind = "entire"
    BY <1>6, <1>7, <2>2 DEF FramesMarked
  <2>5. \A k \in DOMAIN saved : k # 1 =>
          /\ "E" \in saved[k].context.cc => saved[k].kind = "entire"
          /\ saved[k].kind = "unmarked" => saved[k].vector \in Undocumented
    BY <2>2 DEF FramesMarked
  <2> QED BY <1>7, <1>8, <1>9, <2>3, <2>4, <2>5 DEF FramesMarked
<1>11. FramePrepared' /\ ~Ending(at, stack)'
  BY <1>1, <1>2 DEF FramePrepared, Ending, AfterPush
<1> QED BY <1>9, <1>10, <1>11 DEF FrameInv

LEMMA StepMarks == CoreInv /\ FrameInv /\ Step => FrameInv'
<1> SUFFICES ASSUME CoreInv, FrameInv, Step PROVE FrameInv'
  OBVIOUS
<1>1. AnyInstruction
  BY DEF Step
<1>2. CASE \/ SoftwareInterrupt \/ CWAI \/ InterruptEntry
           \/ SWI_PUSHED \/ PUSHED \/ CWAI_WAIT \/ InterruptPushed
  <2>1. at \notin {"PUSH_REGISTERS", "PULL_REGISTERS", "INTERRUPT_VECTOR"}
    BY <1>2 DEF SoftwareInterrupt, SoftwareInterrupts, CWAI, InterruptEntry, Interrupts,
                SWI_PUSHED, PUSHED, CWAI_WAIT, InterruptPushed, PushedOf
  <2>2. saved' = saved
    BY <2>1 DEF Step, PushesFrame, PullsFrame
  <2> QED BY <1>2, <2>2, CallsPush, VectorComes
<1>3. CASE PUSH_REGISTERS
  BY <1>3, PushEnters
<1>4. CASE INTERRUPT_VECTOR
  BY <1>4, VectorEnters
<1>5. CASE ~(\/ SoftwareInterrupt \/ CWAI \/ InterruptEntry \/ SWI_PUSHED \/ PUSHED
            \/ CWAI_WAIT \/ InterruptPushed \/ PUSH_REGISTERS \/ INTERRUPT_VECTOR)
  BY <1>1, <1>5, QuietSteps DEF AnyInstruction, Instruction, EndAction
<1> QED BY <1>2, <1>3, <1>4, <1>5

LEMMA FrameOthers ==
  ASSUME CoreInv, FrameInv, (\E l \in Lines : Raise(l) \/ Lower(l)) \/ Execute
  PROVE  FrameInv'
<1>1. at = "idle" /\ UNCHANGED <<saved, ea, temp, cc>>
  BY DEF Raise, Lower, Execute, latches, programVars
<1>2. CASE UNCHANGED <<at, stack>>
  BY <1>1, <1>2 DEF FrameInv, FramePrepared, FramesMarked
<1>3. CASE Execute /\ stack = <<>>
  <2>1. at' = "MAIN" /\ stack' = <<>>
    BY <1>3 DEF Execute
  <2>2. Quiet(at, stack)' /\ ~EndingShared(at, stack)
    BY <1>3, <2>1 DEF Quiet, Ending, EndingShared, AfterPush, Execute
  <2> QED BY <1>1, <2>2, FramesStay
<1>4. CASE Execute /\ stack # <<>>
  <2>1. PICK l \in WithOperand \cup AfterPush \cup {"SYNC_WAIT"} : stack = <<l>>
    BY <1>1, <1>4 DEF CoreInv, ControlOK, StackDiscipline
  <2>2. at' = l /\ stack' = <<>>
    BY <1>4, <2>1 DEF Execute
  <2>3. CASE l \in AfterPush
    <3>1. Ending(at, stack) /\ (EndingShared(at, stack) => EndingShared(at, stack)')
      BY <1>1, <2>1, <2>2, <2>3 DEF Ending, EndingShared
    <3>2. FramePrepared'
      BY <2>2, <2>3, FrameNames DEF FramePrepared
    <3>3. FramesMarked'
      BY <1>1, <3>1 DEF FrameInv, FramesMarked
    <3> QED BY <1>1, <3>1, <3>2, <3>3 DEF FrameInv
  <2>4. CASE l \notin AfterPush
    <3>1. ~EndingShared(at, stack)
      BY <1>1, <2>1, <2>4, FrameNames DEF EndingShared
    <3>2. Quiet(at, stack)'
      BY <2>1, <2>2, <2>4, FrameNames DEF Quiet, Ending
    <3> QED BY <1>1, <3>1, <3>2, FramesStay
  <2> QED BY <2>3, <2>4
<1>5. \/ UNCHANGED <<at, stack>> \/ Execute
  BY DEF Raise, Lower
<1> QED BY <1>2, <1>3, <1>4, <1>5

LEMMA FramesInvariant == Spec => []FrameInv
<1>1. ProgramInit => FrameInv
  <2> SUFFICES ASSUME ProgramInit PROVE FrameInv
    OBVIOUS
  <2>1. at = "idle" /\ stack = <<>> /\ saved = <<>>
    BY DEF ProgramInit
  <2>2. /\ saved \in Seq(SavedFrame) /\ DOMAIN saved = {} /\ \A l : stack # <<l>>
    BY <2>1
  <2>3. ~Ending(at, stack)
    BY <2>1, <2>2, FrameNames DEF Ending
  <2> QED BY <2>1, <2>2, <2>3 DEF FrameInv, FramePrepared, FramesMarked
<1>2. CoreInv /\ FrameInv /\ [Next]_vars => FrameInv'
  <2> SUFFICES ASSUME CoreInv, FrameInv, [Next]_vars PROVE FrameInv'
    OBVIOUS
  <2>1. CASE UNCHANGED vars
    BY <2>1 DEF vars, coreVars, latches, programVars, FrameInv, FramePrepared, FramesMarked
  <2>2. CASE Next
    BY <2>2, FrameOthers, StepMarks DEF Next
  <2> QED BY <2>1, <2>2
<1> QED BY <1>1, <1>2, Inductive, PTL DEF Spec

(***************************************************************************)
(* For every program and every movement of the lines, the E flag in a      *)
(* frame says whether the entire state was pushed, so that RTI pulls what  *)
(* the interrupt has pushed; only frames of XSWI2, XFIRQ and XRES may be   *)
(* marked wrongly.                                                         *)
(***************************************************************************)
THEOREM FramesAreMarked == Spec => []EDescribesFrame
<1>1. FrameInv => EDescribesFrame
  BY DEF FrameInv, FramesMarked, EDescribesFrame
<1> QED BY <1>1, FramesInvariant, PTL

-----------------------------------------------------------------------------
(***************************************************************************)
(* What RTI restores.  A program that keeps its frames gets its context    *)
(* back: the bytes that were pushed are the bytes that are pulled, in the  *)
(* same order and from the same places, and the E flag among them selects  *)
(* how many.  Only the program itself can break this, by writing over a    *)
(* frame or by moving S; the two assumptions below say that it does not.   *)
(***************************************************************************)
\* How many bytes of the frame f hold registers, its lowest address, the
\* address of its i-th byte, and all its addresses.
Held(f) == IF f.kind = "entire" THEN 12 ELSE 3
Bottom(f) == ToWord(f.context.reg["s"] - Held(f))
Place(f, i) == ToWord(Bottom(f) + i - 1)
Places(f) == {Place(f, i) : i \in 1..Held(f)}

\* How the registers of a context lie in its frame.
EntireAt(c, m) ==
  /\ m[1] = CCByte(c.cc) /\ m[2] = c.reg["a"] /\ m[3] = c.reg["b"] /\ m[4] = c.reg["dp"]
  /\ m[5] = Hi(c.reg["x"]) /\ m[6] = Lo(c.reg["x"])
  /\ m[7] = Hi(c.reg["y"]) /\ m[8] = Lo(c.reg["y"])
  /\ m[9] = Hi(c.reg["u"]) /\ m[10] = Lo(c.reg["u"])
  /\ m[11] = Hi(c.reg["pc"]) /\ m[12] = Lo(c.reg["pc"])
FastAt(c, m) ==
  m[1] = CCByte(c.cc) /\ m[2] = Hi(c.reg["pc"]) /\ m[3] = Lo(c.reg["pc"])

\* Of an unmarked frame RTI cannot know how much was pushed.
Marked(f) == f.kind # "unmarked"

\* The frame is in memory, and its E flag tells what it holds.
Intact(f) ==
  LET m == [i \in 1..Held(f) |-> Peek(Place(f, i))]
  IN  /\ f.kind = "entire" => EntireAt(f.context, m)
      /\ f.kind = "fast" => FastAt(f.context, m)
      /\ "E" \in f.context.cc <=> f.kind = "entire"

\* What RTI leaves for the pull of the registers.
Returning(f) ==
  /\ reg["s"] = ToWord(Bottom(f) + 1)
  /\ cc = f.context.cc
  /\ temp = IF f.kind = "entire" THEN 254 ELSE 128

ResumeInv ==
  /\ \A k \in DOMAIN saved : Marked(saved[k]) => Intact(saved[k])
  /\ at = "PUSH_REGISTERS" /\ stack # <<>> => regop = "s"
  /\ returning =>
       /\ at = "PULL_REGISTERS" /\ regop = "s"
       /\ saved # <<>> /\ Marked(saved[1]) => Returning(saved[1])

\* No step writes over a frame that is to be returned to, and RTI is only
\* executed with S where the push has left it.
FramesKept ==
  \A k \in DOMAIN saved : Marked(saved[k]) => \A a \in Places(saved[k]) : Peek(a)' = Peek(a)
ReturnsToFrame ==
  at = "RTI" /\ saved # <<>> /\ Marked(saved[1]) => reg["s"] = Bottom(saved[1])

\* Every flag in the byte that is stacked.
LEMMA StackedFlags ==
  \A f : \A g \in Flags : Has(CCByte(f), CCMask[g]) <=> g \in f
<1> SUFFICES ASSUME NEW f, NEW g \in Flags PROVE Has(CCByte(f), CCMask[g]) <=> g \in f
  OBVIOUS
<1> DEFINE b(h) == IF h \in f THEN 1 ELSE 0
<1>1. \A h : b(h) \in {0, 1} /\ (b(h) = 1 <=> h \in f)
  OBVIOUS
<1>2. CCByte(f) = b("C") + 2 * b("V") + 4 * b("Z") + 8 * b("N")
                  + 16 * b("I") + 32 * b("H") + 64 * b("F") + 128 * b("E")
  BY DEF CCByte, CCMask
<1> HIDE DEF b
<1>3. PICK c \in {0, 1}, v \in {0, 1}, z \in {0, 1}, n \in {0, 1},
           i \in {0, 1}, h \in {0, 1}, m \in {0, 1}, e \in {0, 1} :
        /\ c = b("C") /\ v = b("V") /\ z = b("Z") /\ n = b("N")
        /\ i = b("I") /\ h = b("H") /\ m = b("F") /\ e = b("E")
  BY <1>1
<1>4. PICK byte \in Int :
        /\ byte = CCByte(f)
        /\ byte = c + 2 * v + 4 * z + 8 * n + 16 * i + 32 * h + 64 * m + 128 * e
  BY <1>2, <1>3
<1>5. /\ byte % 2 = c /\ (byte \div 2) % 2 = v /\ (byte \div 4) % 2 = z
      /\ (byte \div 8) % 2 = n /\ (byte \div 16) % 2 = i /\ (byte \div 32) % 2 = h
      /\ (byte \div 64) % 2 = m /\ (byte \div 128) % 2 = e
  <2>1. /\ c \in 0..1 /\ v \in 0..1 /\ z \in 0..1 /\ n \in 0..1
        /\ i \in 0..1 /\ h \in 0..1 /\ m \in 0..1 /\ e \in 0..1
    OBVIOUS
  <2>2. byte % 2 = c
    BY <1>4
  <2>3. byte \div 2 = v + 2 * (z + 2 * n + 4 * i + 8 * h + 16 * m + 32 * e)
    BY <1>4
  <2>4. byte \div 4 = z + 2 * (n + 2 * i + 4 * h + 8 * m + 16 * e)
    BY <1>4
  <2>5. byte \div 8 = n + 2 * (i + 2 * h + 4 * m + 8 * e)
    BY <1>4
  <2>6. byte \div 16 = i + 2 * (h + 2 * m + 4 * e)
    BY <1>4
  <2>7. byte \div 32 = h + 2 * (m + 2 * e)
    BY <1>4
  <2>8. byte \div 64 = m + 2 * e
    BY <1>4
  <2>9. byte \div 128 = e
    BY <1>4
  <2>10. \A x \in {0, 1} : \A y \in Int : (x + 2 * y) % 2 = x
    OBVIOUS
  <2>11. (byte \div 2) % 2 = v
    BY <2>3, <2>10
  <2>12. (byte \div 4) % 2 = z
    BY <2>4, <2>10
  <2>13. (byte \div 8) % 2 = n
    BY <2>5, <2>10
  <2>14. (byte \div 16) % 2 = i
    BY <2>6, <2>10
  <2>15. (byte \div 32) % 2 = h
    BY <2>7, <2>10
  <2>16. (byte \div 64) % 2 = m
    BY <2>8, <2>10
  <2>17. (byte \div 128) % 2 = e
    BY <2>9
  <2> QED BY <2>2, <2>11, <2>12, <2>13, <2>14, <2>15, <2>16, <2>17
<1>6. (byte \div CCMask[g]) % 2 = b(g)
  <2>1. byte \div 1 = byte
    OBVIOUS
  <2>2. g \in {"C", "V", "Z", "N", "I", "H", "F", "E"}
    BY DEF Flags
  <2> QED BY <1>3, <1>5, <2>1, <2>2 DEF CCMask
<1> QED BY <1>1, <1>4, <1>6 DEF Has, Bit

LEMMA FlagsReturn == \A f \in SUBSET Flags : CCSet(CCByte(f)) = f
<1> SUFFICES ASSUME NEW f \in SUBSET Flags PROVE CCSet(CCByte(f)) = f
  OBVIOUS
<1>1. \A g \in Flags : g \in CCSet(CCByte(f)) <=> g \in f
  BY StackedFlags DEF CCSet
<1>2. CCSet(CCByte(f)) \subseteq Flags
  BY DEF CCSet
<1> QED BY <1>1, <1>2

LEMMA WordReturns == \A w \in Word : Pair(Hi(w), Lo(w)) = w
  BY WordIs DEF Pair, Hi, Lo

LEMMA AddressesAdd ==
  \A w \in Int : \A k \in Int : ToWord(ToWord(w) + k) = ToWord(w + k)
  BY DEF ToWord

LEMMA StackReturns ==
  \A w \in Word : \A k \in Int : ToWord(ToWord(w - k) + k) = w
<1> SUFFICES ASSUME NEW w \in Word, NEW k \in Int PROVE ToWord(ToWord(w - k) + k) = w
  OBVIOUS
<1>1. w \in Int /\ 0 <= w /\ w <= 65535 /\ w - k \in Int
  BY WordIs
<1>2. ToWord(ToWord(w - k) + k) = ToWord(w - k + k)
  BY <1>1, AddressesAdd
<1>3. w - k + k = w
  BY <1>1
<1>4. ToWord(w) = w
  BY <1>1 DEF ToWord
<1> QED BY <1>2, <1>3, <1>4

\* The four single bytes a frame starts with, and one more word behind a
\* sequence of bytes.
LEMMA FourBytes ==
  \A v \in Byte, w \in Byte, y \in Byte, z \in Byte :
    LET p == ((<<v>> \o <<w>>) \o <<y>>) \o <<z>>
    IN  /\ p \in Seq(Byte) /\ Len(p) = 4
        /\ p[1] = v /\ p[2] = w /\ p[3] = y /\ p[4] = z
  OBVIOUS

LEMMA BytesBehind ==
  \A p \in Seq(Byte) : \A h \in Byte : \A l \in Byte : \A q :
    q = p \o <<h, l>> => /\ q \in Seq(Byte) /\ Len(q) = Len(p) + 2
                         /\ q[Len(p) + 1] = h /\ q[Len(p) + 2] = l
                         /\ \A i \in 1..Len(p) : q[i] = p[i]
  OBVIOUS

LEMMA ReturnOffsets ==
  /\ Offset(254, 2) = 0 /\ Offset(254, 4) = 1 /\ Offset(254, 8) = 2 /\ Offset(254, 16) = 3
  /\ Offset(254, 32) = 5 /\ Offset(254, 64) = 7 /\ Offset(254, 128) = 9
  /\ Offset(128, 128) = 0
<1>1. \A k \in {1, 2, 4, 8, 16, 32, 64} : ~Has(128, k)
  BY DEF Has, Bit
<1>2. \A k \in {2, 4, 8, 16, 32, 64} : Has(254, k)
  BY DEF Has, Bit
<1>3. ~Has(254, 1)
  BY DEF Has, Bit
<1>4. Offset(128, 128) = 0
  BY <1>1 DEF Offset
<1>5. Offset(254, 2) = 0 /\ Offset(254, 4) = 1 /\ Offset(254, 8) = 2 /\ Offset(254, 16) = 3
  BY <1>2, <1>3 DEF Offset
<1>6. Offset(254, 32) = 5 /\ Offset(254, 64) = 7 /\ Offset(254, 128) = 9
  BY <1>2, <1>3 DEF Offset
<1> QED BY <1>4, <1>5, <1>6

\* What the two masks of an interrupt push.
LEMMA EntireFrame ==
  ASSUME DataOK, regop = "s"
  PROVE  EntireAt(ContextNow, Frame(255)) /\ Len(Frame(255)) = 12
<1>1. \A k \in {1, 2, 4, 8, 16, 32, 64, 128} : Has(255, k)
  BY DEF Has, Bit
<1>2. OtherStack = "u"
  BY DEF OtherStack
<1>3. Frame(255) =
        (((((((<<CCByte(cc)>> \o <<reg["a"]>>) \o <<reg["b"]>>) \o <<reg["dp"]>>)
            \o <<Hi(reg["x"]), Lo(reg["x"])>>) \o <<Hi(reg["y"]), Lo(reg["y"])>>)
          \o <<Hi(reg["u"]), Lo(reg["u"])>>) \o <<Hi(reg["pc"]), Lo(reg["pc"])>>)
  BY <1>1, <1>2 DEF Frame
<1>4. PICK b1 \in Byte, b2 \in Byte, b3 \in Byte, b4 \in Byte,
           b5 \in Byte, b6 \in Byte, b7 \in Byte, b8 \in Byte,
           b9 \in Byte, b10 \in Byte, b11 \in Byte, b12 \in Byte :
        /\ b1 = CCByte(cc) /\ b2 = reg["a"] /\ b3 = reg["b"] /\ b4 = reg["dp"]
        /\ b5 = Hi(reg["x"]) /\ b6 = Lo(reg["x"]) /\ b7 = Hi(reg["y"]) /\ b8 = Lo(reg["y"])
        /\ b9 = Hi(reg["u"]) /\ b10 = Lo(reg["u"])
        /\ b11 = Hi(reg["pc"]) /\ b12 = Lo(reg["pc"])
  <2>1. /\ CCByte(cc) \in Byte /\ reg["a"] \in Byte /\ reg["b"] \in Byte /\ reg["dp"] \in Byte
        /\ reg["x"] \in Word /\ reg["y"] \in Word /\ reg["u"] \in Word /\ reg["pc"] \in Word
    BY CCByteTyped, RegTyped DEF DataOK
  <2> QED BY <2>1, HalvesTyped
<1> DEFINE p4 == ((<<b1>> \o <<b2>>) \o <<b3>>) \o <<b4>>
           p5 == p4 \o <<b5, b6>>
           p6 == p5 \o <<b7, b8>>
           p7 == p6 \o <<b9, b10>>
           p8 == p7 \o <<b11, b12>>
<1>5. Frame(255) = p8
  BY <1>3, <1>4
<1>30. /\ b1 \in Byte /\ b2 \in Byte /\ b3 \in Byte /\ b4 \in Byte
       /\ b5 \in Byte /\ b6 \in Byte /\ b7 \in Byte /\ b8 \in Byte
       /\ b9 \in Byte /\ b10 \in Byte /\ b11 \in Byte /\ b12 \in Byte
  BY <1>4
<1>16. /\ p4 \in Seq(Byte) /\ Len(p4) = 4
       /\ p4[1] = b1 /\ p4[2] = b2 /\ p4[3] = b3 /\ p4[4] = b4
  BY <1>30, FourBytes
<1>10. p5 = p4 \o <<b5, b6>>
  OBVIOUS
<1>11. p6 = p5 \o <<b7, b8>>
  OBVIOUS
<1>12. p7 = p6 \o <<b9, b10>>
  OBVIOUS
<1>13. p8 = p7 \o <<b11, b12>>
  OBVIOUS
<1> HIDE DEF p4, p5, p6, p7, p8
<1>17. /\ p5 \in Seq(Byte) /\ Len(p5) = 6
      /\ p5[5] = b5 /\ p5[6] = b6
      /\ \A i \in 1..4 : p5[i] = p4[i]
  <2>1. p4 \in Seq(Byte) /\ b5 \in Byte /\ b6 \in Byte
    BY <1>30, <1>16
  <2>2. /\ p5 \in Seq(Byte) /\ Len(p5) = Len(p4) + 2
        /\ p5[Len(p4) + 1] = b5 /\ p5[Len(p4) + 2] = b6
        /\ \A i \in 1..Len(p4) : p5[i] = p4[i]
    BY <2>1, <1>10, BytesBehind
  <2>3. Len(p4) = 4
    BY <1>16
  <2> QED BY <2>2, <2>3
<1>18. /\ p6 \in Seq(Byte) /\ Len(p6) = 8
      /\ p6[7] = b7 /\ p6[8] = b8
      /\ \A i \in 1..6 : p6[i] = p5[i]
  <2>1. p5 \in Seq(Byte) /\ b7 \in Byte /\ b8 \in Byte
    BY <1>30, <1>17
  <2>2. /\ p6 \in Seq(Byte) /\ Len(p6) = Len(p5) + 2
        /\ p6[Len(p5) + 1] = b7 /\ p6[Len(p5) + 2] = b8
        /\ \A i \in 1..Len(p5) : p6[i] = p5[i]
    BY <2>1, <1>11, BytesBehind
  <2>3. Len(p5) = 6
    BY <1>17
  <2> QED BY <2>2, <2>3
<1>19. /\ p7 \in Seq(Byte) /\ Len(p7) = 10
      /\ p7[9] = b9 /\ p7[10] = b10
      /\ \A i \in 1..8 : p7[i] = p6[i]
  <2>1. p6 \in Seq(Byte) /\ b9 \in Byte /\ b10 \in Byte
    BY <1>30, <1>18
  <2>2. /\ p7 \in Seq(Byte) /\ Len(p7) = Len(p6) + 2
        /\ p7[Len(p6) + 1] = b9 /\ p7[Len(p6) + 2] = b10
        /\ \A i \in 1..Len(p6) : p7[i] = p6[i]
    BY <2>1, <1>12, BytesBehind
  <2>3. Len(p6) = 8
    BY <1>18
  <2> QED BY <2>2, <2>3
<1>20. /\ p8 \in Seq(Byte) /\ Len(p8) = 12
      /\ p8[11] = b11 /\ p8[12] = b12
      /\ \A i \in 1..10 : p8[i] = p7[i]
  <2>1. p7 \in Seq(Byte) /\ b11 \in Byte /\ b12 \in Byte
    BY <1>30, <1>19
  <2>2. /\ p8 \in Seq(Byte) /\ Len(p8) = Len(p7) + 2
        /\ p8[Len(p7) + 1] = b11 /\ p8[Len(p7) + 2] = b12
        /\ \A i \in 1..Len(p7) : p8[i] = p7[i]
    BY <2>1, <1>13, BytesBehind
  <2>3. Len(p7) = 10
    BY <1>19
  <2> QED BY <2>2, <2>3
<1>22. \A i \in 1..6 : p8[i] = p5[i]
  BY <1>18, <1>19, <1>20
<1>23. /\ p8[1] = b1 /\ p8[2] = b2 /\ p8[3] = b3 /\ p8[4] = b4
       /\ p8[5] = b5 /\ p8[6] = b6
  BY <1>16, <1>17, <1>22
<1>24. p8[7] = b7 /\ p8[8] = b8 /\ p8[9] = b9 /\ p8[10] = b10
  BY <1>18, <1>19, <1>20
<1>25. ContextNow.reg = reg /\ ContextNow.cc = cc
  BY DEF ContextNow
<1> QED BY <1>4, <1>5, <1>20, <1>23, <1>24, <1>25 DEF EntireAt

LEMMA FastFrame ==
  ASSUME DataOK, regop = "s"
  PROVE  FastAt(ContextNow, Frame(129)) /\ Len(Frame(129)) = 3
<1>1. /\ \A k \in {2, 4, 8, 16, 32, 64} : ~Has(129, k)
      /\ Has(129, 1) /\ Has(129, 128)
  BY DEF Has, Bit
<1>2. PICK b1 \in Byte, b2 \in Byte, b3 \in Byte :
        b1 = CCByte(cc) /\ b2 = Hi(reg["pc"]) /\ b3 = Lo(reg["pc"])
  <2>1. CCByte(cc) \in Byte /\ reg["pc"] \in Word
    BY CCByteTyped, RegTyped DEF DataOK
  <2> QED BY <2>1, HalvesTyped
<1> DEFINE p == <<b1>>
           q == p \o <<b2, b3>>
<1>8. b1 \in Byte /\ b2 \in Byte /\ b3 \in Byte
  BY <1>2
<1>3. p \in Seq(Byte) /\ Len(p) = 1 /\ p[1] = b1
  OBVIOUS
<1>4. Frame(129) = q
  <2>1. \A r \in Seq(Byte) : r \o <<>> = r
    OBVIOUS
  <2>2. Frame(129) = ((((((p \o <<>>) \o <<>>) \o <<>>) \o <<>>) \o <<>>) \o <<>>)
                       \o <<b2, b3>>
    BY <1>1, <1>2 DEF Frame
  <2> QED BY <1>3, <2>1, <2>2
<1> HIDE DEF p
<1>5. q = p \o <<b2, b3>>
  OBVIOUS
<1> HIDE DEF q
<1>7. Len(q) = 3 /\ q[1] = b1 /\ q[2] = b2 /\ q[3] = b3
  <2>1. p \in Seq(Byte) /\ b2 \in Byte /\ b3 \in Byte
    BY <1>3, <1>8
  <2>2. /\ q \in Seq(Byte) /\ Len(q) = Len(p) + 2
        /\ q[Len(p) + 1] = b2 /\ q[Len(p) + 2] = b3
        /\ \A i \in 1..Len(p) : q[i] = p[i]
    BY <2>1, <1>5, BytesBehind
  <2> QED BY <1>3, <2>2
<1>6. ContextNow.reg = reg /\ ContextNow.cc = cc
  BY DEF ContextNow
<1> QED BY <1>2, <1>4, <1>6, <1>7 DEF FastAt

LEMMA HeldIs == \A f : Held(f) \in {3, 12} /\ Held(f) \in Nat
  BY DEF Held

LEMMA PlaceTyped ==
  ASSUME NEW f \in SavedFrame, NEW i \in Int
  PROVE  Bottom(f) \in Word /\ Place(f, i) \in Word
<1>1. f.context.reg["s"] \in Word
  BY DEF SavedFrame, Registers, Reg16
<1>2. f.context.reg["s"] - Held(f) \in Int
  BY <1>1, HeldIs, WordIs
<1>3. Bottom(f) \in Word
  BY <1>2, ToWordTyped DEF Bottom
<1>4. Bottom(f) + i - 1 \in Int
  BY <1>3, WordIs
<1> QED BY <1>3, <1>4, ToWordTyped DEF Place

\* A frame whose bytes are left alone stays intact.
LEMMA StaysIntact ==
  ASSUME NEW f, NEW g, f.kind = g.kind, f.context = g.context, Intact(f),
         \A a \in Places(f) : Peek(a)' = Peek(a)
  PROVE  Intact(g)'
<1>1. Held(f) = Held(g) /\ Bottom(f) = Bottom(g)
  BY DEF Held, Bottom
<1>2. \A i \in 1..Held(f) : Place(f, i) = Place(g, i) /\ Place(f, i) \in Places(f)
  BY <1>1 DEF Place, Places
<1> DEFINE m == [i \in 1..Held(f) |-> Peek(Place(f, i))]
           n == [i \in 1..Held(g) |-> Peek(Place(g, i))']
<1>3. m = n
  BY <1>1, <1>2
<1>4. /\ f.kind = "entire" => EntireAt(f.context, m)
      /\ f.kind = "fast" => FastAt(f.context, m)
      /\ "E" \in f.context.cc <=> f.kind = "entire"
  BY DEF Intact
<1> HIDE DEF m
<1>5. /\ g.kind = "entire" => EntireAt(g.context, n)
      /\ g.kind = "fast" => FastAt(g.context, n)
      /\ "E" \in g.context.cc <=> g.kind = "entire"
  BY <1>3, <1>4
<1> QED BY <1>5 DEF Intact

LEMMA PushPrepared ==
  ASSUME CoreInv, FrameInv, ResumeInv, PushesFrame
  PROVE  /\ regop = "s"
         /\ KindNow = "entire" => temp = 255 /\ "E" \in cc
         /\ KindNow = "fast" => temp = 129 /\ "E" \notin cc
         /\ KindNow \in {"entire", "fast", "unmarked"}
<1>1. at = "PUSH_REGISTERS" /\ stack # <<>>
  BY DEF PushesFrame
<1>2. PICK l \in AfterPush : stack = <<l>>
  BY <1>1, FrameNames DEF CoreInv, ControlOK, StackDiscipline, Calls
<1>3. regop = "s"
  BY <1>1 DEF ResumeInv
<1>4. CASE l = "FIRQ_PUSHED"
  <2>1. temp = PartialState /\ "E" \notin cc
    BY <1>1, <1>2, <1>4 DEF FrameInv, FramePrepared
  <2> QED BY <1>3, <2>1 DEF KindNow, PartialState
<1>5. CASE l # "FIRQ_PUSHED"
  <2>1. temp = EntireState
    BY <1>1, <1>2, <1>5 DEF FrameInv, FramePrepared
  <2> QED BY <1>3, <2>1 DEF KindNow, PartialState, EntireState
<1> QED BY <1>4, <1>5

\* What the push stores, from the bottom of the frame.
LEMMA PushStores ==
  ASSUME CoreInv, PUSH_REGISTERS, regop = "s", NEW n \in {3, 12}, Len(Frame(temp)) = n,
         NEW sp, sp = ToWord(reg["s"] - n)
  PROVE  \A k \in 1..n : Peek(ToWord(sp + k - 1))' = Frame(temp)[k]
<1>1. DataOK
  BY DEF CoreInv
<1>2. reg["s"] - n \in Int
  BY <1>1, RegTyped, WordIs DEF DataOK
<1>3. sp \in Word
  BY <1>2, ToWordTyped
<1>4. PICK frame : frame = Frame(temp)
  OBVIOUS
<1>5. frame \in Seq(Byte) /\ Len(frame) = n /\ Len(frame) <= 65536
  <2>1. frame \in Seq(Byte) /\ Len(frame) = n
    BY <1>1, <1>4, FrameTyped
  <2> QED BY <2>1
<1>6. mem' = Stored(sp, frame)
  <2>1. mem' = Stored(ToWord(reg[regop] - Len(Frame(temp))), Frame(temp))
    BY DEF PUSH_REGISTERS
  <2> QED BY <1>4, <2>1
<1>7. \A k \in 1..Len(frame) : Peek(ToWord(sp + k - 1))' = frame[k]
  BY <1>3, <1>5, <1>6, PeekStored
<1> QED BY <1>4, <1>5, <1>7

LEMMA PushIsIntact ==
  ASSUME CoreInv, FrameInv, ResumeInv, PushesFrame, PUSH_REGISTERS,
         NEW f, f.kind = KindNow, f.context = ContextNow, Marked(f)
  PROVE  Intact(f)'
<1>1. DataOK /\ f.context.reg = reg /\ f.context.cc = cc
  BY DEF CoreInv, ContextNow
<1>2. regop = "s" /\ f.kind \in {"entire", "fast"}
  BY PushPrepared DEF Marked
<1> DEFINE m == [i \in 1..Held(f) |-> Peek(Place(f, i))']
<1>3. CASE f.kind = "entire"
  <2>1. temp = 255 /\ "E" \in cc /\ Held(f) = 12
    BY <1>3, PushPrepared DEF Held
  <2>2. EntireAt(ContextNow, Frame(temp)) /\ Len(Frame(temp)) = 12
    BY <1>1, <1>2, <2>1, EntireFrame
  <2>3. Bottom(f) = ToWord(reg["s"] - 12)
    BY <1>1, <2>1 DEF Bottom
  <2>4. \A k \in 1..12 : Peek(ToWord(Bottom(f) + k - 1))' = Frame(temp)[k]
    BY <1>2, <2>2, <2>3, PushStores
  <2>7. \A k \in 1..12 : m[k] = Frame(temp)[k]
    BY <2>1, <2>4 DEF Place
  <2> HIDE DEF m
  <2>5. EntireAt(f.context, m)
    <3>1. EntireAt(f.context, Frame(temp))
      BY <2>2
    <3> QED BY <2>7, <3>1 DEF EntireAt
  <2>6. EntireAt(f.context, [i \in 1..Held(f) |-> Peek(Place(f, i))'])
    BY <2>5 DEF m
  <2> QED BY <1>1, <1>3, <2>1, <2>6 DEF Intact
<1>4. CASE f.kind = "fast"
  <2>1. temp = 129 /\ "E" \notin cc /\ Held(f) = 3
    BY <1>4, PushPrepared DEF Held
  <2>2. FastAt(ContextNow, Frame(temp)) /\ Len(Frame(temp)) = 3
    BY <1>1, <1>2, <2>1, FastFrame
  <2>3. Bottom(f) = ToWord(reg["s"] - 3)
    BY <1>1, <2>1 DEF Bottom
  <2>4. \A k \in 1..3 : Peek(ToWord(Bottom(f) + k - 1))' = Frame(temp)[k]
    BY <1>2, <2>2, <2>3, PushStores
  <2>7. \A k \in 1..3 : m[k] = Frame(temp)[k]
    BY <2>1, <2>4 DEF Place
  <2> HIDE DEF m
  <2>5. FastAt(f.context, m)
    <3>1. FastAt(f.context, Frame(temp))
      BY <2>2
    <3> QED BY <2>7, <3>1 DEF FastAt
  <2>6. FastAt(f.context, [i \in 1..Held(f) |-> Peek(Place(f, i))'])
    BY <2>5 DEF m
  <2> QED BY <1>1, <1>4, <2>1, <2>6 DEF Intact
<1> QED BY <1>2, <1>3, <1>4

\* RTI finds CC, and with it the mask for the rest of the frame.
LEMMA RtiFinds ==
  ASSUME CoreInv, FrameInv, ResumeInv, RTI, ReturnsToFrame,
         NEW f \in SavedFrame, saved # <<>>, f = saved[1], Marked(f)
  PROVE  Returning(f)'
<1>1. /\ at = "RTI" /\ cc' = CCSet(Peek(reg["s"]))
      /\ reg' = [reg EXCEPT !["s"] = ToWord(reg["s"] + 1)]
      /\ temp' = (IF "E" \in cc' THEN EntireState ELSE PartialState) - 1
  BY DEF RTI
<1>2. 1 \in DOMAIN saved /\ Intact(f)
  BY DEF FrameInv, ResumeInv
<1>3. reg["s"] = Bottom(f)
  BY <1>1 DEF ReturnsToFrame
<1>4. reg'["s"] = ToWord(Bottom(f) + 1)
  <2>1. "s" \in DOMAIN reg
    BY DEF CoreInv, DataOK, RegOK, Registers, Reg16
  <2> QED BY <1>1, <1>3, <2>1
<1>5. Peek(reg["s"]) = CCByte(f.context.cc)
  <2>1. f.kind \in {"entire", "fast"}
    BY DEF Marked, SavedFrame
  <2>2. Peek(Place(f, 1)) = CCByte(f.context.cc)
    <3> DEFINE m == [i \in 1..Held(f) |-> Peek(Place(f, i))]
    <3>1. m[1] = Peek(Place(f, 1))
      BY HeldIs
    <3>2. EntireAt(f.context, m) \/ FastAt(f.context, m)
      BY <1>2, <2>1 DEF Intact
    <3> HIDE DEF m
    <3> QED BY <3>1, <3>2 DEF EntireAt, FastAt
  <2>3. Place(f, 1) = Bottom(f)
    <3>1. Bottom(f) \in Word
      BY PlaceTyped
    <3> QED BY <3>1, WordIs DEF Place, ToWord
  <2> QED BY <1>3, <2>2, <2>3
<1>6. cc' = f.context.cc
  BY <1>1, <1>5, FlagsReturn DEF SavedFrame
<1>7. temp' = IF f.kind = "entire" THEN 254 ELSE 128
  BY <1>1, <1>2, <1>6 DEF Intact, EntireState, PartialState
<1> QED BY <1>4, <1>6, <1>7 DEF Returning

\* The registers behind a pull from S, one by one.
LEMMA Pulled ==
  ASSUME RegOK(reg), regop = "s", PULL_REGISTERS
  PROVE  LET sp(k) == ToWord(reg["s"] + k)
             byte(m, old) == IF Has(temp, m) THEN Peek(sp(Offset(temp, m))) ELSE old
             word(m, old) == IF Has(temp, m)
                             THEN Pair(Peek(sp(Offset(temp, m))), Peek(sp(Offset(temp, m) + 1)))
                             ELSE old
         IN  /\ reg'["a"] = byte(2, reg["a"]) /\ reg'["b"] = byte(4, reg["b"])
             /\ reg'["dp"] = byte(8, reg["dp"]) /\ reg'["x"] = word(16, reg["x"])
             /\ reg'["y"] = word(32, reg["y"]) /\ reg'["u"] = word(64, reg["u"])
             /\ reg'["pc"] = word(128, reg["pc"]) /\ reg'["s"] = sp(Offset(temp, 256))
             /\ cc' = IF Has(temp, 1) THEN CCSet(Peek(sp(0))) ELSE cc
<1> DEFINE sp(k) == ToWord(reg["s"] + k)
           byte(m, old) == IF Has(temp, m) THEN Peek(sp(Offset(temp, m))) ELSE old
           word(m, old) == IF Has(temp, m)
                           THEN Pair(Peek(sp(Offset(temp, m))), Peek(sp(Offset(temp, m) + 1)))
                           ELSE old
           a  == byte(2, reg["a"])    b == byte(4, reg["b"])
           dp == byte(8, reg["dp"])   x == word(16, reg["x"])
           y  == word(32, reg["y"])   u == word(64, reg["u"])
           pc == word(128, reg["pc"]) s == sp(Offset(temp, 256))
<1>1. OtherStack = "u"
  BY DEF OtherStack
<1>2. reg' = [reg EXCEPT !["a"] = a, !["b"] = b, !["dp"] = dp, !["x"] = x, !["y"] = y,
                         !["u"] = u, !["pc"] = pc, !["s"] = s]
  BY <1>1 DEF PULL_REGISTERS, RegOK, Registers, Reg8, Reg16
<1>3. cc' = IF Has(temp, 1) THEN CCSet(Peek(sp(0))) ELSE cc
  BY DEF PULL_REGISTERS
<1>4. DOMAIN reg = {"a", "b", "dp", "pc", "s", "u", "x", "y"}
  BY DEF RegOK, Registers, Reg8, Reg16
<1> HIDE DEF a, b, dp, x, y, u, pc, s
<1>5. /\ reg'["a"] = a /\ reg'["b"] = b /\ reg'["dp"] = dp /\ reg'["x"] = x /\ reg'["y"] = y
      /\ reg'["u"] = u /\ reg'["pc"] = pc /\ reg'["s"] = s
  BY <1>2, <1>4
<1> QED BY <1>3, <1>5 DEF a, b, dp, x, y, u, pc, s

\* The place of a byte of the frame, seen from S behind the pull of CC.
LEMMA PullPlaces ==
  ASSUME NEW f \in SavedFrame, NEW k \in Int, reg["s"] = ToWord(Bottom(f) + 1)
  PROVE  ToWord(reg["s"] + k) = Place(f, k + 2)
<1>1. Bottom(f) \in Int
  BY PlaceTyped, WordIs
<1>2. ToWord(ToWord(Bottom(f) + 1) + k) = ToWord(Bottom(f) + 1 + k)
  BY <1>1, AddressesAdd
<1>3. Bottom(f) + 1 + k = Bottom(f) + (k + 2) - 1
  BY <1>1
<1> QED BY <1>2, <1>3 DEF Place

\* S behind the pull of the whole frame.
LEMMA PullEnds ==
  ASSUME NEW f \in SavedFrame, reg["s"] = ToWord(Bottom(f) + 1)
  PROVE  ToWord(reg["s"] + (Held(f) - 1)) = f.context.reg["s"]
<1>1. f.context.reg["s"] \in Word /\ Held(f) \in Int /\ Bottom(f) \in Int
  BY HeldIs, PlaceTyped, WordIs DEF SavedFrame, Registers, Reg16
<1>2. ToWord(reg["s"] + (Held(f) - 1)) = ToWord(Bottom(f) + 1 + (Held(f) - 1))
  BY <1>1, AddressesAdd
<1>3. Bottom(f) + 1 + (Held(f) - 1) = Bottom(f) + Held(f)
  BY <1>1
<1>4. ToWord(Bottom(f) + Held(f)) = f.context.reg["s"]
  BY <1>1, StackReturns DEF Bottom
<1> QED BY <1>2, <1>3, <1>4

LEMMA PullsEntire ==
  ASSUME CoreInv, PULL_REGISTERS, regop = "s",
         NEW f \in SavedFrame, f.kind = "entire", Intact(f), Returning(f)
  PROVE  ContextNow' = f.context
<1> DEFINE m == [i \in 1..Held(f) |-> Peek(Place(f, i))]
           c == f.context
<1>1. /\ Held(f) = 12 /\ temp = 254 /\ cc = c.cc /\ reg["s"] = ToWord(Bottom(f) + 1)
      /\ EntireAt(c, m)
  BY DEF Held, Returning, Intact
<1>2. RegOK(reg) /\ c.reg \in [Registers -> Word]
  BY DEF CoreInv, DataOK, SavedFrame
<1>3. \A k \in 0..10 : Peek(ToWord(reg["s"] + k)) = m[k + 2]
  <2>1. \A k \in 0..10 : ToWord(reg["s"] + k) = Place(f, k + 2)
    BY <1>1, PullPlaces
  <2> QED BY <1>1, <2>1
<1> HIDE DEF m, c
<1>4. \A k \in {2, 4, 8, 16, 32, 64, 128} : Has(254, k)
  BY DEF Has, Bit
<1>5. ~Has(254, 1)
  BY DEF Has, Bit
<1>6. /\ reg'["a"] = Peek(ToWord(reg["s"] + 0)) /\ reg'["b"] = Peek(ToWord(reg["s"] + 1))
      /\ reg'["dp"] = Peek(ToWord(reg["s"] + 2))
      /\ reg'["x"] = Pair(Peek(ToWord(reg["s"] + 3)), Peek(ToWord(reg["s"] + 4)))
      /\ reg'["y"] = Pair(Peek(ToWord(reg["s"] + 5)), Peek(ToWord(reg["s"] + 6)))
      /\ reg'["u"] = Pair(Peek(ToWord(reg["s"] + 7)), Peek(ToWord(reg["s"] + 8)))
      /\ reg'["pc"] = Pair(Peek(ToWord(reg["s"] + 9)), Peek(ToWord(reg["s"] + 10)))
      /\ reg'["s"] = ToWord(reg["s"] + 11) /\ cc' = cc
  BY <1>1, <1>2, <1>4, <1>5, Pulled, ReturnOffsets, FullOffsets
<1>7. /\ reg'["a"] = m[2] /\ reg'["b"] = m[3] /\ reg'["dp"] = m[4]
      /\ reg'["x"] = Pair(m[5], m[6]) /\ reg'["y"] = Pair(m[7], m[8])
      /\ reg'["u"] = Pair(m[9], m[10]) /\ reg'["pc"] = Pair(m[11], m[12])
  BY <1>3, <1>6
<1>8. /\ c.reg["x"] \in Word /\ c.reg["y"] \in Word /\ c.reg["u"] \in Word /\ c.reg["pc"] \in Word
  BY <1>2 DEF Registers, Reg16
<1>9. /\ reg'["a"] = c.reg["a"] /\ reg'["b"] = c.reg["b"] /\ reg'["dp"] = c.reg["dp"]
      /\ reg'["x"] = c.reg["x"] /\ reg'["y"] = c.reg["y"] /\ reg'["u"] = c.reg["u"]
      /\ reg'["pc"] = c.reg["pc"]
  BY <1>1, <1>7, <1>8, WordReturns DEF EntireAt
<1>10. reg'["s"] = c.reg["s"]
  BY <1>1, <1>6, PullEnds DEF c
<1>11. reg' \in [Registers -> Word]
  BY PullRegistersOK DEF CoreInv, DataOK, RegOK
<1>12. \A n \in Registers : reg'[n] = c.reg[n]
  BY <1>9, <1>10 DEF Registers, Reg8, Reg16
<1>13. reg' = c.reg
  BY <1>2, <1>11, <1>12
<1>14. c = [reg |-> c.reg, cc |-> c.cc]
  BY DEF SavedFrame, c
<1> QED BY <1>1, <1>6, <1>13, <1>14 DEF ContextNow, c

LEMMA PullsFast ==
  ASSUME CoreInv, PULL_REGISTERS, regop = "s",
         NEW f \in SavedFrame, f.kind = "fast", Intact(f), Returning(f)
  PROVE  FastPartSaved(ContextNow', f.context)
<1> DEFINE m == [i \in 1..Held(f) |-> Peek(Place(f, i))]
           c == f.context
<1>1. /\ Held(f) = 3 /\ temp = 128 /\ cc = c.cc /\ reg["s"] = ToWord(Bottom(f) + 1)
      /\ FastAt(c, m)
  BY DEF Held, Returning, Intact
<1>2. RegOK(reg) /\ c.reg["pc"] \in Word
  BY DEF CoreInv, DataOK, SavedFrame, Registers, Reg16
<1>3. \A k \in 0..1 : Peek(ToWord(reg["s"] + k)) = m[k + 2]
  <2>1. \A k \in 0..1 : ToWord(reg["s"] + k) = Place(f, k + 2)
    BY <1>1, PullPlaces
  <2> QED BY <1>1, <2>1
<1> HIDE DEF m, c
<1>4. Has(128, 128) /\ ~Has(128, 1)
  BY DEF Has, Bit
<1>5. /\ reg'["pc"] = Pair(Peek(ToWord(reg["s"] + 0)), Peek(ToWord(reg["s"] + 1)))
      /\ reg'["s"] = ToWord(reg["s"] + 2) /\ cc' = cc
  BY <1>1, <1>2, <1>4, Pulled, ReturnOffsets, FullOffsets
<1>6. reg'["pc"] = Pair(m[2], m[3])
  BY <1>3, <1>5
<1>7. reg'["pc"] = c.reg["pc"]
  BY <1>1, <1>2, <1>6, WordReturns DEF FastAt
<1>8. reg'["s"] = c.reg["s"]
  BY <1>1, <1>5, PullEnds DEF c
<1>9. ContextNow'.reg = reg' /\ ContextNow'.cc = cc'
  BY DEF ContextNow
<1> QED BY <1>1, <1>5, <1>7, <1>8, <1>9 DEF FastPartSaved, c

\* The labels of the frames have one action each.
LEMMA FrameLabels ==
  ASSUME AnyInstruction
  PROVE  /\ at = "PUSH_REGISTERS" => PUSH_REGISTERS
         /\ at = "PULL_REGISTERS" => PULL_REGISTERS
         /\ at = "RTI" => RTI
<1>1. CASE EndAction
  <2>1. PULL_REGISTERS \/ at \notin {"PUSH_REGISTERS", "PULL_REGISTERS", "RTI"}
    BY <1>1 DEF EndAction, RmwOps, Alu8Ops, Alu16Ops,
         DIRECT, EXTENDED, INDEXED, ReadModifyWrite, TST8, JMP,
         Accumulate8, Accumulate16, ST8, ST16, XST8, XST16, LEA_xy, LEA_us, NOP, DAA, SEX,
         ABX, MUL, ORCC, ANDCC, X18, FREERUN, EXG, TFR, BRANCH, LBRANCH, GOTO_SUBROUTINE
  <2> QED BY <2>1 DEF PULL_REGISTERS
<1>2. CASE \/ MAIN \/ DISPATCH01 \/ DISPATCH10 \/ DISPATCH11 \/ XNC8 \/ XANDCC \/ BSR \/ LBSR
           \/ JSR \/ PSHS \/ PSHU \/ PULS \/ PULU \/ RTS \/ SYNC \/ SYNC_WAIT
           \/ SharedSoftwareInterrupt
  BY <1>2 DEF MAIN, DISPATCH01, DISPATCH10, DISPATCH11, XNC8, XANDCC, BSR, LBSR, JSR,
       PSHS, PSHU, Push, PULS, PULU, Pull, RTS, SYNC, SYNC_WAIT, SharedSoftwareInterrupt
<1>3. CASE \/ SoftwareInterrupt \/ SWI_PUSHED \/ PUSHED \/ INTERRUPT_VECTOR \/ CWAI \/ CWAI_WAIT
           \/ InterruptEntry \/ InterruptPushed
  BY <1>3 DEF SoftwareInterrupt, SoftwareInterrupts, SWI_PUSHED, PUSHED, INTERRUPT_VECTOR, CWAI,
       CWAI_WAIT, InterruptEntry, InterruptPushed, Interrupts, PushedOf
<1>4. CASE PUSH_REGISTERS \/ RTI
  BY <1>4 DEF PUSH_REGISTERS, RTI
<1> QED BY <1>1, <1>2, <1>3, <1>4 DEF AnyInstruction, Instruction, EndAction

\* A frame is pushed from S.
LEMMA PushesFromS ==
  ASSUME CoreInv, CoreInv', ResumeInv, AnyInstruction, at' = "PUSH_REGISTERS", stack' # <<>>
  PROVE  regop' = "s"
<1>1. PICK l \in AfterPush : stack' = <<l>>
  BY FrameNames DEF CoreInv, ControlOK, StackDiscipline, Calls
<1>2. CASE \/ EndAction
           \/ MAIN \/ XNC8 \/ XANDCC \/ BSR \/ LBSR \/ JSR \/ PSHS \/ PSHU \/ PULS \/ PULU
           \/ RTS \/ RTI \/ SYNC \/ SYNC_WAIT \/ SharedSoftwareInterrupt
           \/ DISPATCH01 \/ DISPATCH10 \/ DISPATCH11
  <2>1. Quiet(at, stack)'
    BY <1>2, EndIsQuiet, JumpIsQuiet, DispatchIsQuiet
  <2> QED BY <1>1, <2>1 DEF Quiet
<1>3. CASE SoftwareInterrupt \/ CWAI \/ InterruptEntry
  BY <1>3 DEF SoftwareInterrupt, CWAI, InterruptEntry
<1>4. CASE \/ SWI_PUSHED \/ PUSHED \/ INTERRUPT_VECTOR \/ CWAI_WAIT \/ InterruptPushed
           \/ PUSH_REGISTERS
  <2>1. at' \in {"INTERRUPT_VECTOR", "idle"}
    BY <1>4 DEF SWI_PUSHED, PUSHED, INTERRUPT_VECTOR, CWAI_WAIT, InterruptPushed,
         PUSH_REGISTERS, Goto, Return, Suspend
  <2> QED BY <2>1
<1> QED BY <1>2, <1>3, <1>4 DEF AnyInstruction, Instruction, EndAction

\* Frames that are kept, dropped or given their vector.
LEMMA OldFramesStay ==
  ASSUME ResumeInv, FramesKept,
         \A k \in DOMAIN saved' : \E j \in DOMAIN saved :
           saved'[k].kind = saved[j].kind /\ saved'[k].context = saved[j].context
  PROVE  \A k \in DOMAIN saved' : Marked(saved'[k]) => Intact(saved[k])'
<1> SUFFICES ASSUME NEW k \in DOMAIN saved', Marked(saved'[k]) PROVE Intact(saved[k])'
  OBVIOUS
<1>1. PICK j \in DOMAIN saved :
        saved'[k].kind = saved[j].kind /\ saved'[k].context = saved[j].context
  OBVIOUS
<1>2. PICK f : f = saved[j]
  OBVIOUS
<1>3. PICK g : g = saved'[k]
  OBVIOUS
<1>4. f.kind = g.kind /\ f.context = g.context /\ Marked(f)
  BY <1>1, <1>2, <1>3 DEF Marked
<1>5. Intact(f)
  BY <1>2, <1>4 DEF ResumeInv
<1>6. \A a \in Places(f) : Peek(a)' = Peek(a)
  BY <1>2, <1>4 DEF FramesKept
<1>7. Intact(g)'
  BY <1>4, <1>5, <1>6, StaysIntact
<1> QED BY <1>3, <1>7

\* How the history moves.
LEMMA HistoryMoves ==
  ASSUME CoreInv, FrameInv, Step
  PROVE  \/ /\ PushesFrame
            /\ saved' = <<[kind |-> KindNow, context |-> ContextNow, vector |-> 0]>> \o saved
         \/ ~PushesFrame /\ PullsFrame /\ saved # <<>> /\ saved' = Tail(saved)
         \/ /\ ~PushesFrame /\ (PullsFrame => saved = <<>>)
            /\ DOMAIN saved' = DOMAIN saved
            /\ \A k \in DOMAIN saved :
                 saved'[k].kind = saved[k].kind /\ saved'[k].context = saved[k].context
<1>1. CASE at # "INTERRUPT_VECTOR"
  BY <1>1 DEF Step
<1>2. CASE at = "INTERRUPT_VECTOR"
  <2>1. saved' = [saved EXCEPT ![1].vector = ea] /\ ~PushesFrame /\ ~PullsFrame
    BY <1>2 DEF Step, PushesFrame, PullsFrame
  <2>2. saved \in Seq(SavedFrame)
    BY DEF FrameInv
  <2>3. DOMAIN saved' = DOMAIN saved
    BY <2>1, <2>2
  <2>4. ASSUME NEW k \in DOMAIN saved
        PROVE  saved'[k].kind = saved[k].kind /\ saved'[k].context = saved[k].context
    <3>1. saved[k] \in SavedFrame
      BY <2>2
    <3> QED BY <2>1, <2>2, <3>1 DEF SavedFrame
  <2> QED BY <2>1, <2>3, <2>4
<1> QED BY <1>1, <1>2

FrameNow == [kind |-> KindNow, context |-> ContextNow, vector |-> 0]

LEMMA FrameNowTyped == CoreInv => FrameNow \in SavedFrame
<1> SUFFICES ASSUME CoreInv PROVE FrameNow \in SavedFrame
  OBVIOUS
<1>1. KindNow \in {"entire", "fast", "unmarked"} /\ 0 \in Word
  BY WordIs DEF KindNow
<1>2. ContextNow \in [reg : [Registers -> Word], cc : SUBSET Flags]
  BY DEF ContextNow, CoreInv, DataOK, RegOK
<1> QED BY <1>1, <1>2 DEF SavedFrame, FrameNow

\* The frames behind a push: the new one, and the old ones behind it.
LEMMA PushedFrames ==
  ASSUME NEW f \in SavedFrame, NEW s \in Seq(SavedFrame), NEW t, t = <<f>> \o s
  PROVE  /\ t \in Seq(SavedFrame) /\ Len(t) = Len(s) + 1 /\ t[1] = f
         /\ \A k \in DOMAIN t : k # 1 => k - 1 \in DOMAIN s /\ t[k] = s[k - 1]
<1>1. s \in Seq(SavedFrame) /\ <<f>> \in Seq(SavedFrame)
  OBVIOUS
<1>2. /\ t \in Seq(SavedFrame) /\ Len(t) = 1 + Len(s)
      /\ \A k \in 1..Len(t) : t[k] = IF k <= 1 THEN f ELSE s[k - 1]
  BY <1>1
<1>3. Len(s) \in Nat /\ DOMAIN s = 1..Len(s) /\ DOMAIN t = 1..Len(t)
  BY <1>1, <1>2
<1> QED BY <1>2, <1>3

LEMMA TailFrames ==
  ASSUME NEW s \in Seq(SavedFrame), s # <<>>, NEW t, t = Tail(s)
  PROVE  /\ t \in Seq(SavedFrame) /\ Len(t) = Len(s) - 1
         /\ \A k \in DOMAIN t : k + 1 \in DOMAIN s /\ t[k] = s[k + 1]
<1>1. /\ t \in Seq(SavedFrame) /\ Len(t) = Len(s) - 1
      /\ \A k \in 1..(Len(s) - 1) : t[k] = s[k + 1]
  OBVIOUS
<1>2. DOMAIN t = 1..(Len(s) - 1) /\ DOMAIN s = 1..Len(s)
  BY <1>1
<1> QED BY <1>1, <1>2

LEMMA FramesIntact ==
  ASSUME CoreInv, FrameInv, ResumeInv, FramesKept, Step
  PROVE  \A k \in DOMAIN saved' : Marked(saved'[k]) => Intact(saved[k])'
<1>1. CASE PushesFrame /\ saved' = <<FrameNow>> \o saved
  <2>1. PUSH_REGISTERS
    BY <1>1, FrameLabels DEF Step, PushesFrame
  <2>2. PICK f \in SavedFrame : f = FrameNow
    BY FrameNowTyped
  <2>3. f.kind = KindNow /\ f.context = ContextNow
    BY <2>2 DEF FrameNow
  <2>4. saved' = <<f>> \o saved /\ saved \in Seq(SavedFrame)
    BY <1>1, <2>2 DEF FrameInv
  <2>5. /\ saved'[1] = f
        /\ \A k \in DOMAIN saved' : k # 1 => k - 1 \in DOMAIN saved /\ saved'[k] = saved[k - 1]
    BY <2>4, PushedFrames
  <2>6. Marked(f) => Intact(f)'
    BY <1>1, <2>1, <2>3, PushIsIntact
  <2> SUFFICES ASSUME NEW k \in DOMAIN saved', Marked(saved'[k]) PROVE Intact(saved[k])'
    OBVIOUS
  <2>7. CASE k = 1
    BY <2>5, <2>6, <2>7
  <2>8. CASE k # 1
    <3>1. PICK j \in DOMAIN saved : saved'[k] = saved[j]
      BY <2>5, <2>8
    <3>2. PICK g : g = saved[j]
      OBVIOUS
    <3>3. Marked(g) /\ Intact(g)
      BY <3>1, <3>2 DEF ResumeInv
    <3>4. \A a \in Places(g) : Peek(a)' = Peek(a)
      BY <3>2, <3>3 DEF FramesKept
    <3>5. Intact(g)'
      BY <3>3, <3>4, StaysIntact
    <3> QED BY <3>1, <3>2, <3>5
  <2> QED BY <2>7, <2>8
<1>2. CASE saved # <<>> /\ saved' = Tail(saved)
  <2>1. \A k \in DOMAIN saved' : k + 1 \in DOMAIN saved /\ saved'[k] = saved[k + 1]
    BY <1>2, TailFrames DEF FrameInv
  <2> QED BY <2>1, OldFramesStay
<1>3. CASE /\ DOMAIN saved' = DOMAIN saved
           /\ \A k \in DOMAIN saved :
                saved'[k].kind = saved[k].kind /\ saved'[k].context = saved[k].context
  BY <1>3, OldFramesStay
<1> QED BY <1>1, <1>2, <1>3, HistoryMoves DEF FrameNow

LEMMA StepResumes ==
  ASSUME CoreInv, CoreInv', FrameInv, ResumeInv, FramesKept, ReturnsToFrame, Step
  PROVE  ResumeInv'
<1>1. \A k \in DOMAIN saved' : Marked(saved'[k]) => Intact(saved[k])'
  BY FramesIntact
<1>2. at' = "PUSH_REGISTERS" /\ stack' # <<>> => regop' = "s"
  BY PushesFromS DEF Step
<1>3. CASE returning'
  <2>1. at = "RTI" /\ RTI
    BY <1>3, FrameLabels DEF Step
  <2>2. at' = "PULL_REGISTERS" /\ regop' = "s"
    BY <2>1 DEF RTI, Goto
  <2>3. saved' = saved
    BY <2>1 DEF Step, PushesFrame, PullsFrame
  <2>4. ASSUME saved # <<>>, Marked(saved[1]) PROVE Returning(saved[1])'
    <3>1. saved[1] \in SavedFrame
      BY <2>4 DEF FrameInv
    <3>2. PICK f \in SavedFrame : f = saved[1]
      BY <3>1
    <3>3. Marked(f)
      BY <2>4, <3>2
    <3>4. Returning(f)'
      BY <2>1, <2>4, <3>2, <3>3, RtiFinds
    <3> QED BY <2>3, <3>2, <3>4
  <2> QED BY <1>1, <1>2, <2>2, <2>3, <2>4 DEF ResumeInv, Marked
<1>4. CASE ~returning'
  BY <1>1, <1>2, <1>4 DEF ResumeInv
<1> QED BY <1>3, <1>4

LEMMA OthersResume ==
  ASSUME CoreInv, CoreInv', ResumeInv, (\E l \in Lines : Raise(l) \/ Lower(l)) \/ Execute
  PROVE  ResumeInv'
<1>1. at = "idle" /\ UNCHANGED <<saved, mem, reg, cc, regop, temp, returning>>
  BY DEF Raise, Lower, Execute, latches, programVars
<1>2. ~returning'
  BY <1>1 DEF ResumeInv
<1>3. \A k \in DOMAIN saved' : Marked(saved'[k]) => Intact(saved[k])'
  BY <1>1 DEF ResumeInv, Intact, Peek
<1>4. ~(at' = "PUSH_REGISTERS" /\ stack' # <<>>)
  <2>1. at' = "idle" \/ Execute
    BY DEF Raise, Lower
  <2>2. CASE Execute
    <3> SUFFICES ASSUME at' = "PUSH_REGISTERS", stack' # <<>> PROVE FALSE
      OBVIOUS
    <3>1. stack # <<>> /\ at' = Head(stack)
      BY <2>2 DEF Execute
    <3>2. PICK l \in WithOperand \cup AfterPush \cup {"SYNC_WAIT"} : stack = <<l>>
      BY <1>1, <3>1 DEF CoreInv, ControlOK, StackDiscipline
    <3>3. l = "PUSH_REGISTERS"
      BY <3>1, <3>2
    <3> QED BY <3>2, <3>3, FrameNames DEF AfterPush, WithOperand, RmwOps, Alu8Ops, Alu16Ops
  <2> QED BY <2>1, <2>2
<1> QED BY <1>2, <1>3, <1>4 DEF ResumeInv

LEMMA NextResumes ==
  CoreInv /\ CoreInv' /\ FrameInv /\ ResumeInv /\ [FramesKept]_vars /\ ReturnsToFrame
    /\ [Next]_vars => ResumeInv'
<1> SUFFICES ASSUME CoreInv, CoreInv', FrameInv, ResumeInv, [FramesKept]_vars, ReturnsToFrame,
                    [Next]_vars
             PROVE  ResumeInv'
  OBVIOUS
<1>1. CASE UNCHANGED vars
  BY <1>1 DEF vars, coreVars, latches, programVars, ResumeInv, Intact, Peek, Returning
<1>2. CASE FramesKept /\ Next
  BY <1>2, StepResumes, OthersResume DEF Next
<1> QED BY <1>1, <1>2

\* The history as the abstract specification has it.
Abstract(s) == [k \in DOMAIN s |-> [kind |-> s[k].kind, context |-> s[k].context]]
AbstractFrame ==
  [kind : {"entire", "fast", "unmarked"},
   context : [reg : [Registers -> Word], cc : SUBSET Flags]]

LEMMA AbstractTyped ==
  ASSUME NEW s \in Seq(SavedFrame)
  PROVE  /\ Abstract(s) \in Seq(AbstractFrame) /\ Len(Abstract(s)) = Len(s)
         /\ DOMAIN s = 1..Len(s)
         /\ \A k \in 1..Len(s) :
              Abstract(s)[k] = [kind |-> s[k].kind, context |-> s[k].context]
<1>1. DOMAIN s = 1..Len(s) /\ Len(s) \in Nat
  OBVIOUS
<1>2. Abstract(s) = [k \in 1..Len(s) |-> [kind |-> s[k].kind, context |-> s[k].context]]
  BY <1>1 DEF Abstract
<1>3. \A k \in 1..Len(s) : [kind |-> s[k].kind, context |-> s[k].context] \in AbstractFrame
  <2> SUFFICES ASSUME NEW k \in 1..Len(s)
               PROVE  [kind |-> s[k].kind, context |-> s[k].context] \in AbstractFrame
    OBVIOUS
  <2>1. s[k] \in SavedFrame
    BY <1>1
  <2> QED BY <2>1 DEF SavedFrame, AbstractFrame
<1> QED BY <1>1, <1>2, <1>3

LEMMA AbstractPush ==
  ASSUME NEW s \in Seq(SavedFrame), NEW f \in SavedFrame
  PROVE  Abstract(<<f>> \o s) = <<[kind |-> f.kind, context |-> f.context]>> \o Abstract(s)
<1>1. PICK t : t = <<f>> \o s
  OBVIOUS
<1>2. PICK g \in AbstractFrame : g = [kind |-> f.kind, context |-> f.context]
  BY DEF SavedFrame, AbstractFrame
<1>3. PICK u : u = <<g>> \o Abstract(s)
  OBVIOUS
<1>4. /\ t \in Seq(SavedFrame) /\ Len(t) = Len(s) + 1 /\ t[1] = f
      /\ \A k \in DOMAIN t : k # 1 => k - 1 \in DOMAIN s /\ t[k] = s[k - 1]
  BY <1>1, PushedFrames
<1>5. /\ u \in Seq(AbstractFrame) /\ Len(u) = 1 + Len(s)
      /\ \A k \in 1..Len(u) : u[k] = IF k <= 1 THEN g ELSE Abstract(s)[k - 1]
  <2>1. <<g>> \in Seq(AbstractFrame) /\ Abstract(s) \in Seq(AbstractFrame)
        /\ Len(Abstract(s)) = Len(s)
    BY AbstractTyped
  <2> QED BY <1>3, <2>1
<1>6. Abstract(t) \in Seq(AbstractFrame) /\ Len(Abstract(t)) = Len(u)
  BY <1>4, <1>5, AbstractTyped
<1>7. ASSUME NEW k \in 1..Len(u) PROVE Abstract(t)[k] = u[k]
  <2>1. k \in DOMAIN t /\ Abstract(t)[k] = [kind |-> t[k].kind, context |-> t[k].context]
    BY <1>4, <1>5, AbstractTyped
  <2>2. CASE k = 1
    BY <1>2, <1>4, <1>5, <2>1, <2>2
  <2>3. CASE k # 1
    <3>1. k - 1 \in DOMAIN s /\ t[k] = s[k - 1] /\ k - 1 \in 1..Len(s)
      BY <1>4, <2>1, <2>3, AbstractTyped
    <3>2. u[k] = Abstract(s)[k - 1]
      BY <1>5, <2>3
    <3>3. Abstract(s)[k - 1] = [kind |-> s[k - 1].kind, context |-> s[k - 1].context]
      BY <3>1, AbstractTyped
    <3> QED BY <2>1, <3>1, <3>2, <3>3
  <2> QED BY <2>2, <2>3
<1>8. Abstract(t) = u
  BY <1>5, <1>6, <1>7, SeqEqual
<1> QED BY <1>1, <1>2, <1>3, <1>8

LEMMA AbstractPull ==
  ASSUME NEW s \in Seq(SavedFrame), s # <<>>
  PROVE  /\ Abstract(Tail(s)) = Tail(Abstract(s)) /\ Abstract(s) # <<>>
         /\ Head(Abstract(s)) = [kind |-> s[1].kind, context |-> s[1].context]
<1>1. PICK t : t = Tail(s)
  OBVIOUS
<1>2. PICK w : w = Abstract(s)
  OBVIOUS
<1>3. w \in Seq(AbstractFrame) /\ Len(w) = Len(s) /\ Len(s) \in Nat \ {0} /\ w # <<>>
  BY <1>2, AbstractTyped
<1>4. /\ t \in Seq(SavedFrame) /\ Len(t) = Len(s) - 1
      /\ \A k \in DOMAIN t : k + 1 \in DOMAIN s /\ t[k] = s[k + 1]
  BY <1>1, TailFrames
<1>5. /\ Tail(w) \in Seq(AbstractFrame) /\ Len(Tail(w)) = Len(w) - 1
      /\ \A k \in 1..(Len(w) - 1) : Tail(w)[k] = w[k + 1]
  BY <1>3
<1>6. Abstract(t) \in Seq(AbstractFrame) /\ Len(Abstract(t)) = Len(Tail(w))
  BY <1>3, <1>4, <1>5, AbstractTyped
<1>7. ASSUME NEW k \in 1..Len(Abstract(t)) PROVE Abstract(t)[k] = Tail(w)[k]
  <2>1. k \in 1..Len(t) /\ k \in DOMAIN t /\ k \in 1..(Len(w) - 1)
    BY <1>3, <1>4, <1>5, <1>6, AbstractTyped
  <2>2. Abstract(t)[k] = [kind |-> t[k].kind, context |-> t[k].context]
    BY <1>4, <2>1, AbstractTyped
  <2>3. k + 1 \in 1..Len(s) /\ t[k] = s[k + 1]
    BY <1>4, <2>1, AbstractTyped
  <2>4. w[k + 1] = [kind |-> s[k + 1].kind, context |-> s[k + 1].context]
    BY <1>2, <2>3, AbstractTyped
  <2> QED BY <1>5, <2>1, <2>2, <2>3, <2>4
<1>8. Abstract(t) = Tail(w)
  BY <1>5, <1>6, <1>7, SeqEqual
<1>9. Head(w) = [kind |-> s[1].kind, context |-> s[1].context]
  <2>1. 1 \in 1..Len(s)
    BY <1>3
  <2>2. Abstract(s)[1] = [kind |-> s[1].kind, context |-> s[1].context]
    BY <2>1, AbstractTyped
  <2>3. Head(w) = w[1]
    BY <1>3
  <2> QED BY <1>2, <2>2, <2>3
<1> QED BY <1>1, <1>2, <1>3, <1>8, <1>9

LEMMA ContextTyped == CoreInv => ContextNow \in [reg : [Registers -> Word], cc : SUBSET Flags]
  BY DEF ContextNow, CoreInv, DataOK, RegOK

\* A pull behind an RTI is the return of the abstract specification.
LEMMA PullResumes ==
  ASSUME CoreInv, CoreInv', FrameInv, ResumeInv, PULL_REGISTERS, returning,
         saved # <<>>, saved' = Tail(saved)
  PROVE  Restored!Resume
<1>1. saved \in Seq(SavedFrame)
  BY DEF FrameInv
<1>2. PICK f \in SavedFrame : f = saved[1]
  BY <1>1
<1>3. /\ Abstract(saved)' = Tail(Abstract(saved)) /\ Abstract(saved) # <<>>
      /\ Head(Abstract(saved)) = [kind |-> f.kind, context |-> f.context]
  BY <1>1, <1>2, AbstractPull
<1>4. ContextNow' \in [reg : [Registers -> Word], cc : SUBSET Flags]
  BY DEF ContextNow, CoreInv, DataOK, RegOK
<1>5. regop = "s" /\ (Marked(f) => Returning(f) /\ Intact(f))
  BY <1>1, <1>2 DEF ResumeInv
<1>6. f.kind = "entire" => ContextNow' = f.context
  BY <1>5, PullsEntire DEF Marked
<1>7. f.kind = "fast" => FastPartSaved(ContextNow', f.context)
  BY <1>5, PullsFast DEF Marked
<1>8. f.kind \in {"entire", "fast", "unmarked"}
  BY DEF SavedFrame
<1>9. PICK d : d = ContextNow'
  OBVIOUS
<1>10. PICK h : h = Head(Abstract(saved))
  OBVIOUS
<1>11. (CASE h.kind = "entire"   -> d = h.context
          [] h.kind = "fast"     -> FastPartSaved(d, h.context)
          [] h.kind = "unmarked" -> TRUE)
  <2>1. h.kind = f.kind /\ h.context = f.context
    BY <1>3, <1>10
  <2> QED BY <1>6, <1>7, <1>8, <1>9, <2>1
<1>12. (CASE Head(Abstract(saved)).kind = "entire" ->
               ContextNow' = Head(Abstract(saved)).context
          [] Head(Abstract(saved)).kind = "fast" ->
               FastPartSaved(ContextNow', Head(Abstract(saved)).context)
          [] Head(Abstract(saved)).kind = "unmarked" -> TRUE)
  BY <1>9, <1>10, <1>11
<1> QED BY <1>3, <1>4, <1>12, Zenon DEF Restored!Resume, Abstract

LEMMA StepRestores ==
  ASSUME CoreInv, CoreInv', FrameInv, ResumeInv, Step
  PROVE  Restored!Next
<1>1. saved \in Seq(SavedFrame)
  BY DEF FrameInv
<1>2. ContextNow' \in [reg : [Registers -> Word], cc : SUBSET Flags]
  BY DEF ContextNow, CoreInv, DataOK, RegOK
<1>3. CASE PushesFrame /\ saved' = <<FrameNow>> \o saved
  <2>1. FrameNow \in SavedFrame /\ FrameNow.kind = KindNow /\ FrameNow.context = ContextNow
    BY FrameNowTyped DEF FrameNow
  <2>2. Abstract(<<FrameNow>> \o saved) =
          <<[kind |-> FrameNow.kind, context |-> FrameNow.context]>> \o Abstract(saved)
    BY <1>1, <2>1, AbstractPush
  <2>3. Abstract(saved)' = <<[kind |-> KindNow, context |-> ContextNow]>> \o Abstract(saved)
    BY <1>3, <2>1, <2>2 DEF Abstract
  <2>4. KindNow \in Restored!Kinds
    BY DEF KindNow, Restored!Kinds
  <2>5. PICK kind \in Restored!Kinds : kind = KindNow
    BY <2>4
  <2>6. Abstract(saved)' = <<[kind |-> kind, context |-> ContextNow]>> \o Abstract(saved)
    BY <2>3, <2>5
  <2>7. \E k \in Restored!Kinds : Restored!Interrupt(k)
    <3>1. WITNESS kind \in Restored!Kinds
    <3> QED BY <1>2, <2>6, Zenon DEF Restored!Interrupt, Abstract
  <2> QED BY <2>7 DEF Restored!Next
<1>4. CASE PullsFrame /\ saved # <<>> /\ saved' = Tail(saved)
  <2>1. PULL_REGISTERS /\ returning
    BY <1>4, FrameLabels DEF Step, PullsFrame
  <2>2. Restored!Resume
    BY <1>4, <2>1, PullResumes
  <2> QED BY <2>2 DEF Restored!Next
<1>5. CASE /\ DOMAIN saved' = DOMAIN saved
           /\ \A k \in DOMAIN saved :
                saved'[k].kind = saved[k].kind /\ saved'[k].context = saved[k].context
  <2>1. Abstract(saved)' = Abstract(saved)
    BY <1>5 DEF Abstract
  <2>2. Restored!Compute
    BY <1>2, <2>1 DEF Restored!Compute, Abstract
  <2> QED BY <2>2 DEF Restored!Next
<1> QED BY <1>3, <1>4, <1>5, HistoryMoves DEF FrameNow

LEMMA ResumeInvariant ==
  Spec /\ [][FramesKept]_vars /\ []ReturnsToFrame => []ResumeInv
<1>1. ProgramInit => ResumeInv
  <2> SUFFICES ASSUME ProgramInit PROVE ResumeInv
    OBVIOUS
  <2>1. saved = <<>> /\ at = "idle" /\ returning = FALSE
    BY DEF ProgramInit
  <2> QED BY <2>1 DEF ResumeInv
<1> QED BY <1>1, Inductive, FramesInvariant, NextResumes, PTL DEF Spec

(***************************************************************************)
(* Refinement of ContextStack: for every memory, every program that keeps  *)
(* its frames and every movement of the lines, RTI brings back the context *)
(* that was saved last, all of it behind an entire frame and PC, S and CC  *)
(* behind that of a FIRQ, however the interrupts are nested.               *)
(***************************************************************************)
THEOREM InterruptsAreTransparent ==
  Spec /\ [][FramesKept]_vars /\ []ReturnsToFrame => Transparent
<1>1. ProgramInit => Restored!Init
  <2> SUFFICES ASSUME ProgramInit PROVE Restored!Init
    OBVIOUS
  <2>1. CoreInv /\ saved = <<>>
    BY ProgramInitOK DEF ProgramInit
  <2>2. ContextNow \in [reg : [Registers -> Word], cc : SUBSET Flags]
    BY <2>1, ContextTyped
  <2>3. Abstract(saved) = <<>>
    BY <2>1 DEF Abstract
  <2> QED BY <2>2, <2>3 DEF Restored!Init, Abstract
<1>2. CoreInv /\ CoreInv' /\ FrameInv /\ ResumeInv /\ [Next]_vars
        => [Restored!Next]_(Restored!vars)
  <2> SUFFICES ASSUME CoreInv, CoreInv', FrameInv, ResumeInv, [Next]_vars
               PROVE  Restored!Next \/ UNCHANGED Restored!vars
    OBVIOUS
  <2>1. CASE Step
    BY <2>1, StepRestores
  <2>2. CASE (\E l \in Lines : Raise(l) \/ Lower(l)) \/ Execute \/ UNCHANGED vars
    <3>1. UNCHANGED <<reg, cc, saved>>
      BY <2>2 DEF Raise, Lower, Execute, vars, coreVars, programVars
    <3> QED BY <3>1 DEF Restored!vars, ContextNow
  <2> QED BY <2>1, <2>2 DEF Next
<1>3. Spec => []CoreInv /\ []FrameInv
  BY Inductive, FramesInvariant
<1> QED BY <1>1, <1>2, <1>3, ResumeInvariant, PTL DEF Spec, Transparent, Restored!Spec

-----------------------------------------------------------------------------
(***************************************************************************)
(* The nesting of handlers.  A frame records by its vector which handler   *)
(* runs above it; what the handler masks is either in CC, or in the CC of  *)
(* the frame above, from where RTI brings it back.                         *)
(***************************************************************************)
Masks(vector) ==
  CASE Rank(vector) = 1 -> {"I"}
    [] Rank(vector) = 2 -> {"I", "F"}
    [] OTHER -> {}

\* The vectors of the newest frame and of the one below it.
Newest == IF saved = <<>> THEN 0 ELSE saved[1].vector
Second == IF Len(saved) < 2 THEN 0 ELSE saved[2].vector

\* What a handler may not do: clear the flags that mask it, XFIRQ, which takes
\* the vector of FIRQ without masking anything, and software interrupts of no
\* higher rank.
MasksKept == at # "RTI" => Masks(Newest) \cap cc \subseteq cc'
CallsUpward ==
  at \in SoftwareInterrupts =>
    /\ at # "XFIRQ"
    /\ at = "SWI" => Rank(Newest) # 2
    /\ at # "SWI" => Rank(Newest) \notin {1, 2}

\* The handler of v can be interrupted by what is served at label l.
Above(l, v) ==
  /\ l \in {"IRQ", "IRQ_PUSHED", "PUSHED"} => Rank(v) \notin {1, 2}
  /\ l \in {"FIRQ", "FIRQ_PUSHED", "SWI_PUSHED"} => Rank(v) # 2

\* The vectors that the ends of the software interrupts pass on.
SharedVectors == {VectorOf["SWI2"], VectorOf["SWI3"], VectorOf["XRES"]}
Brings(l) ==
  /\ l = "PUSHED" => ea \in SharedVectors
  /\ l = "SWI_PUSHED" => ea = VectorOf["SWI"]

\* The frames that have their vectors.
Nested ==
  /\ \A k \in DOMAIN saved : saved[k].vector = 0 => k = 1 /\ Ending(at, stack)
  /\ \A k \in DOMAIN saved : Rank(saved[k].vector) # 0 => Marked(saved[k])
  /\ NestedByPriority
  /\ \A k \in 1..(Len(saved) - 1) : Masks(saved[k + 1].vector) \subseteq saved[k].context.cc
  /\ ~returning => Masks(Newest) \subseteq cc

\* The frame that is pushed, and has been pushed, for its vector.
Arriving ==
  /\ at \in Interrupts => Above(at, Newest)
  /\ at = "SOFTWARE_INTERRUPT" => ea \in SharedVectors
  /\ \A l \in AfterPush :
       /\ at = "PUSH_REGISTERS" /\ stack = <<l>> => Above(l, Newest)
       /\ at = l \/ (at = "idle" /\ stack = <<l>>) => Above(l, Second)
       /\ at = l \/ stack = <<l>> => Brings(l)
  /\ at = "CWAI_WAIT" \/ (at = "idle" /\ stack = <<"CWAI_WAIT">>) => Masks(Second) \subseteq cc
  /\ at = "INTERRUPT_VECTOR" =>
       /\ ea # 0 /\ Masks(ea) \subseteq cc
       /\ Rank(Second) \in {1, 2} => Rank(ea) > Rank(Second)
       /\ Rank(ea) # 0 => Marked(saved[1])

NestInv == Nested /\ Arriving

LEMMA RanksAre ==
  /\ \A v : /\ Rank(v) \in {0, 1, 2, 3} /\ Masks(v) \subseteq {"I", "F"}
            /\ Rank(v) \notin {1, 2} => Masks(v) = {}
            /\ "I" \notin Masks(v) => Rank(v) \notin {1, 2}
            /\ "F" \notin Masks(v) => Rank(v) # 2
            /\ "F" \in Masks(v) => Rank(v) = 2
  /\ Rank(0) = 0 /\ Rank(VectorOf["IRQ"]) = 1 /\ Rank(VectorOf["FIRQ"]) = 2
  /\ Rank(VectorOf["SWI"]) = 2 /\ Rank(VectorOf["NMI"]) = 3
  /\ \A v \in SharedVectors : Rank(v) = 0 /\ v # 0
  /\ \A l \in {"IRQ", "FIRQ", "SWI", "NMI"} : VectorOf[l] # 0
<1>1. \A v : /\ Rank(v) \in {0, 1, 2, 3} /\ Masks(v) \subseteq {"I", "F"}
             /\ Rank(v) \notin {1, 2} => Masks(v) = {}
             /\ "I" \notin Masks(v) => Rank(v) \notin {1, 2}
             /\ "F" \notin Masks(v) => Rank(v) # 2
             /\ "F" \in Masks(v) => Rank(v) = 2
  <2>1. \A v : Rank(v) \in {0, 1, 2, 3}
    BY DEF Rank
  <2> QED BY <2>1 DEF Masks
<1>2. /\ Rank(0) = 0 /\ Rank(VectorOf["IRQ"]) = 1 /\ Rank(VectorOf["FIRQ"]) = 2
      /\ Rank(VectorOf["SWI"]) = 2 /\ Rank(VectorOf["NMI"]) = 3
  BY DEF Rank, VectorOf
<1>3. \A v \in SharedVectors : Rank(v) = 0 /\ v # 0
  BY DEF Rank, VectorOf, SharedVectors
<1>4. \A l \in {"IRQ", "FIRQ", "SWI", "NMI"} : VectorOf[l] # 0
  BY DEF VectorOf
<1> QED BY <1>1, <1>2, <1>3, <1>4

\* Frames that stay, while no mask is lost.
LEMMA NestedStays ==
  ASSUME Nested, saved' = saved,
         Ending(at, stack) => Ending(at, stack)',
         ~returning' => Masks(Newest) \subseteq cc'
  PROVE  Nested'
<1>1. Newest' = Newest
  BY DEF Newest
<1> QED BY <1>1 DEF Nested, NestedByPriority

\* What MasksKept says between two steps that do not return from an interrupt.
LEMMA MasksStay ==
  ASSUME ResumeInv, Nested, MasksKept, Step, returning => saved = <<>>
  PROVE  ~returning' => Masks(Newest) \subseteq cc'
<1> SUFFICES ASSUME ~returning' PROVE Masks(Newest) \subseteq cc'
  OBVIOUS
<1>1. at # "RTI"
  BY DEF Step
<1>2. Masks(Newest) \subseteq cc
  <2>1. CASE returning
    <3>1. Newest = 0
      BY <2>1 DEF Newest
    <3> QED BY <3>1, RanksAre
  <2>2. CASE ~returning
    BY <2>2 DEF Nested
  <2> QED BY <2>1, <2>2
<1> QED BY <1>1, <1>2 DEF MasksKept

\* No interrupt is on its way.
LEMMA QuietArrives ==
  ASSUME CoreInv', Quiet(at, stack)', at' \notin Interrupts \cup {"SOFTWARE_INTERRUPT"}
  PROVE  Arriving'
<1>1. /\ at' \notin AfterPush \cup {"INTERRUPT_VECTOR"}
      /\ \A l \in AfterPush : at' = "idle" => stack' # <<l>>
      /\ \A l \in AfterPush : at' = "PUSH_REGISTERS" => stack' # <<l>>
  BY DEF Quiet, Ending
<1>2. \A l \in AfterPush : stack' # <<l>>
  <2> SUFFICES ASSUME NEW l \in AfterPush, stack' = <<l>> PROVE FALSE
    OBVIOUS
  <2>1. at' \notin {"idle", "PUSH_REGISTERS"}
    BY <1>1
  <2>2. PICK j \in WithOperand \cup {"SYNC_WAIT"} : stack' = <<j>>
    BY <2>1 DEF CoreInv, ControlOK, StackDiscipline
  <2>3. j = l
    BY <2>2
  <2> QED BY <2>2, <2>3, FrameNames DEF AfterPush
<1>3. "CWAI_WAIT" \in AfterPush
  BY DEF AfterPush
<1> QED BY <1>1, <1>2, <1>3 DEF Arriving

\* Behind a quiet step that leaves the frames.
LEMMA QuietNests ==
  ASSUME CoreInv', ResumeInv, NestInv, MasksKept, Step,
         returning => saved = <<>>, saved' = saved,
         Quiet(at, stack)', ~Ending(at, stack),
         at' \notin Interrupts \cup {"SOFTWARE_INTERRUPT"}
  PROVE  NestInv'
<1>1. Nested'
  BY MasksStay, NestedStays DEF NestInv
<1> QED BY <1>1, QuietArrives DEF NestInv

\* The return from an interrupt brings back the masks of the handler below.
LEMMA PullNests ==
  ASSUME CoreInv, CoreInv', FrameInv, ResumeInv, NestInv, PULL_REGISTERS, returning,
         saved # <<>>, saved' = Tail(saved)
  PROVE  NestInv'
<1>1. /\ saved \in Seq(SavedFrame) /\ Nested
      /\ at = "PULL_REGISTERS" /\ at' = "idle" /\ stack' = stack
  BY DEF FrameInv, NestInv, PULL_REGISTERS, Return, Goto
<1>2. /\ saved' \in Seq(SavedFrame) /\ Len(saved') = Len(saved) - 1
      /\ \A k \in DOMAIN saved' : k + 1 \in DOMAIN saved /\ saved'[k] = saved[k + 1]
  BY <1>1, TailFrames
<1>3. /\ DOMAIN saved = 1..Len(saved) /\ DOMAIN saved' = 1..(Len(saved) - 1)
      /\ Len(saved) \in Nat \ {0} /\ 1 \in DOMAIN saved
  BY <1>1, <1>2
<1>4. EndAction
  BY DEF EndAction
<1>5. Quiet(at, stack) /\ Quiet(at, stack)'
  BY <1>4, EndIsQuiet
<1>6. \A k \in DOMAIN saved : saved[k].vector # 0
  BY <1>1, <1>5 DEF Nested, Quiet
<1>7. Masks(Newest') \subseteq cc'
  <2>1. CASE Len(saved) = 1
    <3>1. saved' = <<>>
      BY <1>2, <2>1
    <3>2. Newest' = 0
      BY <3>1 DEF Newest
    <3> QED BY <3>2, RanksAre
  <2>2. CASE Len(saved) # 1
    <3>1. 1 \in 1..(Len(saved) - 1) /\ 1 \in DOMAIN saved' /\ saved' # <<>>
      <4>1. 1 \in 1..(Len(saved) - 1)
        BY <1>3, <2>2
      <4>2. Len(saved') # 0
        BY <1>2, <1>3, <2>2
      <4> QED BY <1>2, <1>3, <4>1, <4>2
    <3>2. Newest' = saved[1 + 1].vector
      BY <1>2, <3>1 DEF Newest
    <3>3. CASE Marked(saved[1])
      <4>1. PICK f \in SavedFrame : f = saved[1]
        BY <1>1, <1>3
      <4>2. regop = "s" /\ Marked(f) /\ Intact(f) /\ Returning(f)
        BY <1>3, <3>3, <4>1 DEF ResumeInv
      <4>3. f.kind \in {"entire", "fast"}
        BY <4>2 DEF SavedFrame, Marked
      <4>4. f.kind = "entire" => ContextNow' = f.context
        BY <4>2, PullsEntire
      <4>5. f.kind = "fast" => FastPartSaved(ContextNow', f.context)
        BY <4>2, PullsFast
      <4>6. ContextNow'.cc = cc'
        BY DEF ContextNow
      <4>7. cc' = f.context.cc
        BY <4>3, <4>4, <4>5, <4>6 DEF FastPartSaved
      <4>8. Masks(saved[1 + 1].vector) \subseteq saved[1].context.cc
        BY <1>1, <3>1 DEF Nested
      <4> QED BY <3>2, <4>1, <4>7, <4>8
    <3>4. CASE ~Marked(saved[1])
      <4>1. Rank(saved[1].vector) = 0
        BY <1>1, <1>3, <3>4 DEF Nested
      <4>2. ~(Rank(saved[1 + 1].vector) \in {1, 2})
        <5>1. Rank(saved[1 + 1].vector) \in {1, 2} /\ saved[1].vector # 0 =>
                Rank(saved[1].vector) > Rank(saved[1 + 1].vector)
          BY <1>1, <3>1 DEF Nested, NestedByPriority
        <5> QED BY <1>3, <1>6, <4>1, <5>1
      <4> QED BY <3>2, <4>2, RanksAre
    <3> QED BY <3>3, <3>4
  <2> QED BY <2>1, <2>2
<1>8. NestedByPriority'
  <2> SUFFICES ASSUME NEW k \in 1..(Len(saved') - 1)
               PROVE  Rank(saved'[k + 1].vector) \in {1, 2} /\ saved'[k].vector # 0 =>
                        Rank(saved'[k].vector) > Rank(saved'[k + 1].vector)
    BY DEF NestedByPriority
  <2>1. k \in DOMAIN saved' /\ k + 1 \in DOMAIN saved' /\ k + 1 \in 1..(Len(saved) - 1)
    BY <1>2, <1>3
  <2>2. saved'[k] = saved[k + 1] /\ saved'[k + 1] = saved[(k + 1) + 1]
    BY <1>2, <2>1
  <2> QED BY <1>1, <2>1, <2>2 DEF Nested, NestedByPriority
<1>9. \A k \in 1..(Len(saved') - 1) : Masks(saved'[k + 1].vector) \subseteq saved'[k].context.cc
  <2> SUFFICES ASSUME NEW k \in 1..(Len(saved') - 1)
               PROVE  Masks(saved'[k + 1].vector) \subseteq saved'[k].context.cc
    OBVIOUS
  <2>1. k \in DOMAIN saved' /\ k + 1 \in DOMAIN saved' /\ k + 1 \in 1..(Len(saved) - 1)
    BY <1>2, <1>3
  <2>2. saved'[k] = saved[k + 1] /\ saved'[k + 1] = saved[(k + 1) + 1]
    BY <1>2, <2>1
  <2> QED BY <1>1, <2>1, <2>2 DEF Nested
<1>10. \A k \in DOMAIN saved' :
         saved'[k].vector # 0 /\ (Rank(saved'[k].vector) # 0 => Marked(saved'[k]))
  BY <1>1, <1>2, <1>6 DEF Nested
<1>11. Nested'
  BY <1>7, <1>8, <1>9, <1>10 DEF Nested
<1>12. Arriving'
  BY <1>1, <1>5, QuietArrives DEF Interrupts
<1> QED BY <1>11, <1>12 DEF NestInv

\* The push: the frame below is the one that was the newest.
LEMMA PushNests ==
  ASSUME CoreInv, FrameInv, ResumeInv, NestInv, Step, PUSH_REGISTERS,
         NEW l \in AfterPush, stack = <<l>>
  PROVE  NestInv'
<1>1. /\ at = "PUSH_REGISTERS" /\ at' = "idle" /\ UNCHANGED <<stack, ea, cc>>
      /\ saved \in Seq(SavedFrame) /\ Nested /\ Arriving
  BY DEF PUSH_REGISTERS, Return, Goto, latches, FrameInv, NestInv
<1>2. ~returning /\ ~returning'
  BY <1>1 DEF ResumeInv, Step
<1>3. PICK f \in SavedFrame : f = FrameNow
  BY FrameNowTyped
<1>4. f.vector = 0 /\ f.context.cc = cc
  BY <1>3 DEF FrameNow, ContextNow
<1>5. saved' = <<f>> \o saved
  BY <1>1, <1>3 DEF Step, PushesFrame, FrameNow
<1>6. /\ saved' \in Seq(SavedFrame) /\ Len(saved') = Len(saved) + 1 /\ saved'[1] = f
      /\ \A k \in DOMAIN saved' : k # 1 => k - 1 \in DOMAIN saved /\ saved'[k] = saved[k - 1]
  BY <1>1, <1>5, PushedFrames
<1>7. /\ DOMAIN saved = 1..Len(saved) /\ DOMAIN saved' = 1..(Len(saved) + 1)
      /\ Len(saved) \in Nat
  BY <1>1, <1>6
<1>8. saved' # <<>> /\ Newest' = 0
  <2>1. saved' # <<>>
    BY <1>6, <1>7
  <2> QED BY <1>4, <1>6, <2>1 DEF Newest
<1>9. Second' = Newest
  <2>1. CASE saved = <<>>
    BY <1>6, <2>1 DEF Newest, Second
  <2>2. CASE saved # <<>>
    <3>1. Len(saved) # 0 /\ 2 \in DOMAIN saved' /\ ~(Len(saved') < 2)
      BY <1>1, <1>6, <1>7, <2>2
    <3>2. saved'[2] = saved[2 - 1]
      BY <1>6, <3>1
    <3> QED BY <2>2, <3>1, <3>2 DEF Newest, Second
  <2> QED BY <2>1, <2>2
<1>10. Ending(at, stack)' /\ ~Ending(at, stack)
  BY <1>1, FrameNames DEF Ending
<1>11. \A k \in DOMAIN saved : saved[k].vector # 0
  BY <1>1, <1>10 DEF Nested
<1>12. Masks(Newest) \subseteq cc
  BY <1>1, <1>2 DEF Nested
<1>13. /\ \A k \in DOMAIN saved' : saved'[k].vector = 0 => k = 1
       /\ \A k \in DOMAIN saved' : Rank(saved'[k].vector) # 0 => Marked(saved'[k])
  <2> SUFFICES ASSUME NEW k \in DOMAIN saved'
               PROVE  /\ saved'[k].vector = 0 => k = 1
                      /\ Rank(saved'[k].vector) # 0 => Marked(saved'[k])
    OBVIOUS
  <2>1. CASE k = 1
    BY <1>4, <1>6, <2>1, RanksAre
  <2>2. CASE k # 1
    BY <1>1, <1>6, <1>11, <2>2 DEF Nested
  <2> QED BY <2>1, <2>2
<1>14. /\ NestedByPriority'
       /\ \A k \in 1..(Len(saved') - 1) :
            Masks(saved'[k + 1].vector) \subseteq saved'[k].context.cc
  <2> SUFFICES ASSUME NEW k \in 1..(Len(saved') - 1)
               PROVE  /\ Rank(saved'[k + 1].vector) \in {1, 2} /\ saved'[k].vector # 0 =>
                           Rank(saved'[k].vector) > Rank(saved'[k + 1].vector)
                      /\ Masks(saved'[k + 1].vector) \subseteq saved'[k].context.cc
    BY DEF NestedByPriority
  <2>1. CASE k = 1
    <3>1. 2 \in DOMAIN saved' /\ saved # <<>>
      BY <1>6, <1>7, <2>1
    <3>2. saved'[2] = saved[2 - 1]
      BY <1>6, <3>1
    <3>3. saved'[k + 1].vector = Newest
      BY <2>1, <3>1, <3>2 DEF Newest
    <3> QED BY <1>4, <1>6, <1>12, <2>1, <3>3
  <2>2. CASE k # 1
    <3>1. k \in DOMAIN saved' /\ k + 1 \in DOMAIN saved' /\ k + 1 # 1
      BY <1>6, <1>7
    <3>2. saved'[k] = saved[k - 1] /\ saved'[k + 1] = saved[(k + 1) - 1]
      BY <1>6, <2>2, <3>1
    <3>3. k - 1 \in 1..(Len(saved) - 1) /\ (k + 1) - 1 = (k - 1) + 1
      BY <1>6, <1>7, <2>2
    <3>4. PICK j \in 1..(Len(saved) - 1) : saved'[k] = saved[j] /\ saved'[k + 1] = saved[j + 1]
      BY <3>2, <3>3
    <3> QED BY <1>1, <3>4 DEF Nested, NestedByPriority
  <2> QED BY <2>1, <2>2
<1>15. Nested'
  BY <1>8, <1>10, <1>13, <1>14, RanksAre DEF Nested
<1>16. Above(l, Newest) /\ Brings(l) /\ Brings(l)'
  BY <1>1 DEF Arriving, Brings
<1>17. \A j \in AfterPush : stack' = <<j>> => j = l
  BY <1>1
<1>18. at' \notin Interrupts \cup AfterPush \cup {"SOFTWARE_INTERRUPT", "INTERRUPT_VECTOR",
                                               "PUSH_REGISTERS"}
  BY <1>1, FrameNames DEF Interrupts
<1>19. "CWAI_WAIT" \in AfterPush
  BY DEF AfterPush
<1>20. Arriving'
  BY <1>1, <1>9, <1>12, <1>16, <1>17, <1>18, <1>19 DEF Arriving
<1> QED BY <1>15, <1>20 DEF NestInv

\* An interrupt is served that the newest handler does not mask.
LEMMA MainNests ==
  ASSUME CoreInv, CoreInv', ResumeInv, NestInv, MasksKept, Step, MAIN
  PROVE  NestInv'
<1>1. at = "MAIN" /\ stack' = stack /\ cc' = cc /\ saved' = saved /\ Nested
  BY DEF MAIN, Goto, Step, PushesFrame, PullsFrame, NestInv
<1>2. stack = <<>> /\ ~returning
  BY <1>1, NoFrame DEF CoreInv, ControlOK, Calls, ResumeInv
<1>3. Quiet(at, stack) /\ Quiet(at, stack)'
  BY JumpIsQuiet
<1>4. Nested'
  BY <1>1, <1>2, <1>3, MasksStay, NestedStays DEF Quiet
<1>5. Masks(Newest) \subseteq cc /\ Newest' = Newest
  BY <1>1, <1>2 DEF Nested, Newest
<1>6. /\ at' \in {"DISPATCH01", "NMI", "FIRQ", "IRQ"}
      /\ at' = "FIRQ" => "F" \notin cc
      /\ at' = "IRQ" => "I" \notin cc
  BY <1>1 DEF MAIN, Goto, PendingInterrupt
<1>7. CASE at' = "DISPATCH01"
  <2>1. at' \notin Interrupts \cup {"SOFTWARE_INTERRUPT"}
    BY <1>7 DEF Interrupts
  <2> QED BY <1>3, <1>4, <2>1, QuietArrives DEF NestInv
<1>8. CASE at' \in {"NMI", "FIRQ", "IRQ"}
  <2>1. Above(at', Newest)
    <3>1. at' = "IRQ" => Rank(Newest) \notin {1, 2}
      BY <1>5, <1>6, RanksAre
    <3>2. at' = "FIRQ" => Rank(Newest) # 2
      BY <1>5, <1>6, RanksAre
    <3> QED BY <1>8, <3>1, <3>2 DEF Above
  <2>2. at' \notin AfterPush \cup {"SOFTWARE_INTERRUPT", "INTERRUPT_VECTOR",
                                   "PUSH_REGISTERS", "idle", "PUSHED", "CWAI_WAIT"}
    BY <1>8 DEF AfterPush
  <2>3. \A j : stack' # <<j>>
    BY <1>1, <1>2
  <2> QED BY <1>4, <1>5, <2>1, <2>2, <2>3 DEF NestInv, Arriving
<1> QED BY <1>6, <1>7, <1>8

\* A frame is about to be pushed, above what it may interrupt.
LEMMA CallsNest ==
  ASSUME CoreInv, CoreInv', ResumeInv, NestInv, MasksKept, CallsUpward, Step,
         SoftwareInterrupt \/ CWAI \/ InterruptEntry
  PROVE  NestInv'
<1>1. /\ at \in SoftwareInterrupts \cup {"CWAI", "NMI", "FIRQ", "IRQ"}
      /\ Nested /\ Arriving
  BY DEF SoftwareInterrupt, CWAI, InterruptEntry, Interrupts, NestInv
<1>2. stack = <<>> /\ ~returning
  BY <1>1, NoFrame DEF CoreInv, ControlOK, Calls, SoftwareInterrupts, ResumeInv
<1>3. saved' = saved
  BY <1>1 DEF Step, PushesFrame, PullsFrame, SoftwareInterrupts
<1>4. ~Ending(at, stack)
  BY <1>1 DEF Ending, AfterPush, SoftwareInterrupts
<1>5. Nested'
  BY <1>1, <1>2, <1>3, <1>4, MasksStay, NestedStays
<1>6. Newest' = Newest
  BY <1>3 DEF Newest
<1>7. PICK l \in AfterPush :
        /\ at' = "PUSH_REGISTERS" /\ stack' = <<l>>
        /\ Above(l, Newest) /\ Brings(l)'
  <2>1. CASE SoftwareInterrupt /\ at = "SWI"
    <3>1. /\ at' = "PUSH_REGISTERS" /\ stack' = <<"SWI_PUSHED">>
          /\ ea' = VectorOf["SWI"]
      BY <1>2, <2>1 DEF SoftwareInterrupt, Call
    <3>2. Above("SWI_PUSHED", Newest)
      BY <2>1 DEF CallsUpward, SoftwareInterrupts, Above
    <3> QED BY <3>1, <3>2 DEF AfterPush, Brings
  <2>2. CASE SoftwareInterrupt /\ at # "SWI"
    <3>1. /\ at' = "PUSH_REGISTERS" /\ stack' = <<"PUSHED">>
          /\ ea' = (IF at = "SOFTWARE_INTERRUPT" THEN ea ELSE VectorOf[at])
          /\ at \in {"SOFTWARE_INTERRUPT", "XRES", "XSWI2", "XFIRQ"}
      BY <1>2, <2>2 DEF SoftwareInterrupt, SoftwareInterrupts, Call
    <3>2. at # "XFIRQ" /\ Above("PUSHED", Newest)
      BY <2>2, <3>1 DEF CallsUpward, SoftwareInterrupts, Above
    <3>3. ea' \in SharedVectors
      BY <1>1, <3>1, <3>2 DEF Arriving, SharedVectors, VectorOf
    <3> QED BY <3>1, <3>2, <3>3 DEF AfterPush, Brings
  <2>3. CASE CWAI
    <3>1. at' = "PUSH_REGISTERS" /\ stack' = <<"CWAI_WAIT">>
      BY <1>2, <2>3 DEF CWAI, Call
    <3> QED BY <3>1 DEF AfterPush, Above, Brings
  <2>4. CASE InterruptEntry
    <3>1. /\ at' = "PUSH_REGISTERS" /\ stack' = <<PushedOf[at]>>
          /\ at \in {"NMI", "FIRQ", "IRQ"}
      BY <1>2, <2>4 DEF InterruptEntry, Interrupts, Call
    <3>2. Above(at, Newest)
      BY <1>1, <3>1 DEF Arriving, Interrupts
    <3>3. /\ PushedOf[at] \in AfterPush \ {"PUSHED", "SWI_PUSHED"}
          /\ Above(PushedOf[at], Newest)
      BY <3>1, <3>2 DEF PushedOf, AfterPush, Above
    <3>4. PICK l \in AfterPush \ {"PUSHED", "SWI_PUSHED"} : l = PushedOf[at]
      BY <3>3
    <3>5. Above(l, Newest) /\ Brings(l)'
      BY <3>3, <3>4 DEF Brings
    <3> QED BY <3>1, <3>4, <3>5
  <2> QED BY <2>1, <2>2, <2>3, <2>4
<1>8. \A j : stack' = <<j>> => j = l
  BY <1>7
<1>9. at' \notin Interrupts \cup AfterPush \cup {"SOFTWARE_INTERRUPT", "INTERRUPT_VECTOR",
                                              "idle", "PUSHED", "CWAI_WAIT"}
  BY <1>7, FrameNames DEF Interrupts, AfterPush
<1>10. Arriving'
  BY <1>6, <1>7, <1>8, <1>9 DEF Arriving
<1> QED BY <1>5, <1>10 DEF NestInv

\* What CWAI takes outranks the handler that waits in it.
LEMMA WaitOutranks ==
  ASSUME Masks(Second) \subseteq cc, PendingInterrupt # "none"
  PROVE  /\ PendingInterrupt \in {"NMI", "FIRQ", "IRQ"}
         /\ Rank(Second) \in {1, 2} => Rank(VectorOf[PendingInterrupt]) > Rank(Second)
<1>1. /\ PendingInterrupt \in {"NMI", "FIRQ", "IRQ"}
      /\ PendingInterrupt = "FIRQ" => "F" \notin cc
      /\ PendingInterrupt = "IRQ" => "I" \notin cc
  BY DEF PendingInterrupt
<1>2. PendingInterrupt = "FIRQ" => Rank(Second) # 2
  BY <1>1, RanksAre
<1>3. PendingInterrupt = "IRQ" => Rank(Second) \notin {1, 2}
  BY <1>1, RanksAre
<1>4. CASE PendingInterrupt = "NMI"
  BY <1>4, RanksAre
<1>5. CASE PendingInterrupt = "FIRQ"
  BY <1>2, <1>5, RanksAre
<1>6. CASE PendingInterrupt = "IRQ"
  BY <1>3, <1>6
<1> QED BY <1>1, <1>4, <1>5, <1>6

\* The vector that comes is of a higher rank than the handler below.
LEMMA ArrivalsNest ==
  ASSUME CoreInv, CoreInv', FrameInv, ResumeInv, NestInv, MasksKept, Step,
         SWI_PUSHED \/ PUSHED \/ CWAI_WAIT \/ InterruptPushed
  PROVE  NestInv'
<1>1. at \in AfterPush /\ stack = <<>> /\ Nested /\ Arriving
  <2>1. at \in AfterPush
    BY DEF SWI_PUSHED, PUSHED, CWAI_WAIT, InterruptPushed, Interrupts, PushedOf, AfterPush
  <2> QED BY <2>1, NoFrame DEF CoreInv, ControlOK, AfterPush, Calls, NestInv
<1>2. saved # <<>> /\ saved[1].vector = 0 /\ 1 \in DOMAIN saved
  BY <1>1 DEF FrameInv, Ending
<1>3. saved' = saved /\ ~returning
  BY <1>1 DEF Step, PushesFrame, PullsFrame, ResumeInv, AfterPush
<1>4. Second' = Second
  BY <1>3 DEF Second
<1>5. CASE CWAI_WAIT /\ PendingInterrupt = "none"
  <2>1. at = "CWAI_WAIT" /\ at' = "idle" /\ stack' = <<"CWAI_WAIT">> /\ cc' = cc
    BY <1>1, <1>5 DEF CWAI_WAIT, Suspend
  <2>2. Ending(at, stack)'
    BY <2>1 DEF Ending, AfterPush
  <2>3. Nested'
    BY <1>1, <1>3, <2>2, MasksStay, NestedStays
  <2>4. Masks(Second) \subseteq cc
    BY <1>1, <2>1 DEF Arriving
  <2>5. \A j : stack' = <<j>> => j = "CWAI_WAIT"
    BY <2>1
  <2>6. at' \notin Interrupts \cup AfterPush \cup {"SOFTWARE_INTERRUPT", "INTERRUPT_VECTOR",
                                                "PUSH_REGISTERS", "PUSHED", "CWAI_WAIT"}
    BY <2>1 DEF Interrupts, AfterPush
  <2>7. Arriving'
    BY <1>4, <2>1, <2>4, <2>5, <2>6 DEF Arriving, Above, Brings
  <2> QED BY <2>3, <2>7 DEF NestInv
<1>6. CASE ~(CWAI_WAIT /\ PendingInterrupt = "none")
  <2>1. at' = "INTERRUPT_VECTOR" /\ stack' = <<>>
    BY <1>1, <1>6 DEF SWI_PUSHED, PUSHED, CWAI_WAIT, InterruptPushed, Goto
  <2>2. Ending(at, stack)'
    BY <2>1 DEF Ending
  <2>3. Nested'
    BY <1>1, <1>3, <2>2, MasksStay, NestedStays
  <2>4. at # "PUSHED" => Marked(saved[1])
    <3> SUFFICES ASSUME at # "PUSHED", ~Marked(saved[1]) PROVE FALSE
      OBVIOUS
    <3>1. saved[1].vector \in Undocumented \/ EndingShared(at, stack)
      BY <1>2 DEF FrameInv, FramesMarked, Marked
    <3>2. 0 \notin Undocumented
      BY DEF Undocumented, VectorOf
    <3> QED BY <1>1, <1>2, <3>1, <3>2, FrameNames DEF EndingShared
  <2>5. /\ ea' # 0 /\ Masks(ea') \subseteq cc'
        /\ Rank(Second) \in {1, 2} => Rank(ea') > Rank(Second)
        /\ Rank(ea') # 0 => Marked(saved[1])
    <3>1. CASE PUSHED
      <4>1. at = "PUSHED" /\ ea' = ea
        BY <3>1 DEF PUSHED, latches
      <4>2. ea \in SharedVectors /\ Above("PUSHED", Second)
        BY <1>1, <4>1 DEF Arriving, Brings
      <4>3. Rank(ea) = 0 /\ ea # 0 /\ Masks(ea) = {} /\ Rank(Second) \notin {1, 2}
        BY <4>2, RanksAre DEF Above
      <4> QED BY <4>1, <4>3
    <3>2. CASE SWI_PUSHED
      <4>1. at = "SWI_PUSHED" /\ cc' = cc \cup {"I", "F"} /\ ea' = ea
        BY <3>2 DEF SWI_PUSHED, latches
      <4>2. Above("SWI_PUSHED", Second) /\ ea = VectorOf["SWI"]
        BY <1>1, <4>1 DEF Arriving, Brings
      <4>3. Rank(ea) = 2 /\ ea # 0 /\ Masks(ea) \subseteq {"I", "F"} /\ Rank(Second) # 2
        BY <4>2, RanksAre DEF Above
      <4> QED BY <2>4, <4>1, <4>3
    <3>3. CASE InterruptPushed
      <4>1. PICK i \in {"NMI", "FIRQ", "IRQ"} :
              /\ at = PushedOf[i] /\ ea' = VectorOf[i]
              /\ cc' = cc \cup {"I"} \cup When("F", i # "IRQ")
        BY <3>3 DEF InterruptPushed, Interrupts
      <4>2. Above(at, Second) /\ at # "PUSHED"
        BY <1>1, <4>1 DEF Arriving, PushedOf
      <4>3. CASE i = "NMI"
        BY <2>4, <4>1, <4>2, <4>3, RanksAre
      <4>4. CASE i = "FIRQ"
        <5>1. Rank(Second) # 2
          BY <4>1, <4>2, <4>4 DEF Above, PushedOf
        <5>2. cc' = cc \cup {"I", "F"}
          BY <4>1, <4>4 DEF When
        <5> QED BY <2>4, <4>1, <4>2, <4>4, <5>1, <5>2, RanksAre
      <4>5. CASE i = "IRQ"
        <5>1. Rank(Second) \notin {1, 2}
          BY <4>1, <4>2, <4>5 DEF Above, PushedOf
        <5>2. "I" \in cc' /\ Rank(ea') = 1
          BY <4>1, <4>5, RanksAre
        <5>3. Masks(ea') = {"I"}
          BY <5>2 DEF Masks
        <5> QED BY <2>4, <4>1, <4>2, <4>5, <5>1, <5>2, <5>3, RanksAre
      <4> QED BY <4>3, <4>4, <4>5
    <3>4. CASE CWAI_WAIT
      <4>1. /\ at = "CWAI_WAIT" /\ PendingInterrupt # "none"
            /\ ea' = VectorOf[PendingInterrupt]
            /\ cc' = cc \cup {"I"} \cup When("F", PendingInterrupt # "IRQ")
        BY <1>6, <3>4 DEF CWAI_WAIT
      <4>2. Masks(Second) \subseteq cc
        BY <1>1, <4>1 DEF Arriving
      <4>3. PICK i \in {"NMI", "FIRQ", "IRQ"} :
              i = PendingInterrupt /\ (Rank(Second) \in {1, 2} => Rank(VectorOf[i]) > Rank(Second))
        BY <4>1, <4>2, WaitOutranks
      <4>4. ea' # 0
        BY <4>1, <4>3, RanksAre
      <4>5. Masks(ea') \subseteq cc'
        <5>1. CASE i = "NMI"
          BY <4>1, <4>3, <5>1, RanksAre
        <5>2. CASE i = "FIRQ"
          <6>1. cc' = cc \cup {"I", "F"}
            BY <4>1, <4>3, <5>2 DEF When
          <6> QED BY <6>1, RanksAre
        <5>3. CASE i = "IRQ"
          <6>1. "I" \in cc' /\ Rank(ea') = 1
            BY <4>1, <4>3, <5>3, RanksAre
          <6> QED BY <6>1 DEF Masks
        <5> QED BY <5>1, <5>2, <5>3
      <4> QED BY <2>4, <4>1, <4>3, <4>4, <4>5
    <3> QED BY <3>1, <3>2, <3>3, <3>4
  <2>6. \A j : stack' # <<j>>
    BY <2>1
  <2>7. at' \notin Interrupts \cup AfterPush \cup {"SOFTWARE_INTERRUPT", "PUSH_REGISTERS",
                                                "idle", "PUSHED", "CWAI_WAIT"}
    BY <2>1, FrameNames DEF Interrupts, AfterPush
  <2>8. Arriving'
    BY <1>3, <1>4, <2>5, <2>6, <2>7 DEF Arriving
  <2> QED BY <2>3, <2>8 DEF NestInv
<1> QED BY <1>5, <1>6

\* The frame gets its vector, and the handler begins with its masks set.
LEMMA VectorNests ==
  ASSUME CoreInv, CoreInv', FrameInv, ResumeInv, NestInv, Step, INTERRUPT_VECTOR
  PROVE  NestInv'
<1>1. /\ at = "INTERRUPT_VECTOR" /\ at' = "idle" /\ stack' = stack /\ cc' = cc
      /\ Nested /\ Arriving
  BY DEF INTERRUPT_VECTOR, Return, Goto, NestInv
<1>2. stack = <<>>
  BY <1>1, NoFrame DEF CoreInv, ControlOK, Calls
<1>3. saved' = [saved EXCEPT ![1].vector = ea]
  BY <1>1 DEF Step, PushesFrame, PullsFrame
<1>4. saved \in Seq(SavedFrame) /\ saved # <<>>
  BY <1>1 DEF FrameInv, Ending
<1>5. 1 \in DOMAIN saved /\ saved[1] \in SavedFrame /\ DOMAIN saved = 1..Len(saved)
      /\ Len(saved) \in Nat
  BY <1>4
<1> DEFINE f == [saved[1] EXCEPT !.vector = ea]
<1>6. f.vector = ea /\ f.kind = saved[1].kind /\ f.context = saved[1].context
  BY <1>5 DEF SavedFrame
<1>7. saved' = [saved EXCEPT ![1] = f] /\ DOMAIN saved' = DOMAIN saved
  BY <1>3, <1>5
<1> HIDE DEF f
<1>8. saved'[1] = f /\ \A k \in DOMAIN saved : k # 1 => saved'[k] = saved[k]
  BY <1>5, <1>7
<1>9. Len(saved') = Len(saved) /\ saved' # <<>>
  <2>1. saved' \in Seq(SavedFrame)
    BY StepMarks DEF FrameInv
  <2>2. Len(saved') \in Nat /\ 1..Len(saved') = 1..Len(saved) /\ Len(saved) # 0
    BY <1>4, <1>5, <1>7, <2>1
  <2> QED BY <1>5, <2>1, <2>2
<1>10. /\ ea # 0 /\ Masks(ea) \subseteq cc
       /\ Rank(Second) \in {1, 2} => Rank(ea) > Rank(Second)
       /\ Rank(ea) # 0 => Marked(saved[1])
  BY <1>1 DEF Arriving
<1>11. /\ \A k \in DOMAIN saved' : saved'[k].vector # 0
       /\ \A k \in DOMAIN saved' : Rank(saved'[k].vector) # 0 => Marked(saved'[k])
  <2> SUFFICES ASSUME NEW k \in DOMAIN saved'
               PROVE  /\ saved'[k].vector # 0
                      /\ Rank(saved'[k].vector) # 0 => Marked(saved'[k])
    OBVIOUS
  <2>1. CASE k = 1
    BY <1>6, <1>8, <1>10, <2>1 DEF Marked
  <2>2. CASE k # 1
    BY <1>1, <1>7, <1>8, <2>2 DEF Nested
  <2> QED BY <2>1, <2>2
<1>12. /\ NestedByPriority'
       /\ \A k \in 1..(Len(saved') - 1) :
            Masks(saved'[k + 1].vector) \subseteq saved'[k].context.cc
  <2> SUFFICES ASSUME NEW k \in 1..(Len(saved') - 1)
               PROVE  /\ Rank(saved'[k + 1].vector) \in {1, 2} /\ saved'[k].vector # 0 =>
                           Rank(saved'[k].vector) > Rank(saved'[k + 1].vector)
                      /\ Masks(saved'[k + 1].vector) \subseteq saved'[k].context.cc
    BY DEF NestedByPriority
  <2>1. /\ k \in 1..(Len(saved) - 1) /\ k \in DOMAIN saved
        /\ k + 1 \in DOMAIN saved /\ k + 1 # 1
    BY <1>5, <1>9
  <2>2. saved'[k + 1] = saved[k + 1] /\ saved'[k].context = saved[k].context
    BY <1>6, <1>8, <2>1
  <2>3. Masks(saved'[k + 1].vector) \subseteq saved'[k].context.cc
    BY <1>1, <2>1, <2>2 DEF Nested
  <2>4. CASE k = 1
    <3>1. ~(Len(saved) < 2)
      BY <1>5, <2>1, <2>4
    <3>2. saved'[k + 1].vector = Second /\ saved'[k].vector = ea
      BY <1>6, <1>8, <2>2, <2>4, <3>1 DEF Second
    <3> QED BY <1>10, <2>3, <3>2
  <2>5. CASE k # 1
    <3>1. saved'[k] = saved[k]
      BY <1>8, <2>1, <2>5
    <3> QED BY <1>1, <2>1, <2>2, <2>3, <3>1 DEF Nested, NestedByPriority
  <2> QED BY <2>4, <2>5
<1>13. Newest' = ea
  BY <1>6, <1>8, <1>9 DEF Newest
<1>14. Nested'
  BY <1>1, <1>10, <1>11, <1>12, <1>13 DEF Nested
<1>15. Quiet(at, stack)'
  BY <1>1, <1>2, FrameNames DEF Quiet, Ending
<1>16. Arriving'
  BY <1>1, <1>15, QuietArrives DEF Interrupts
<1> QED BY <1>14, <1>16 DEF NestInv

\* The label behind a quiet step is not one of an interrupt.
LEMMA QuietLabels ==
  ASSUME CoreInv,
         \/ EndAction
         \/ XNC8 \/ XANDCC \/ BSR \/ LBSR \/ JSR \/ PSHS \/ PSHU \/ PULS \/ PULU
         \/ RTS \/ RTI \/ SYNC \/ SYNC_WAIT
         \/ DISPATCH01 \/ DISPATCH10 \/ DISPATCH11
  PROVE  at' \notin Interrupts \cup {"SOFTWARE_INTERRUPT"}
<1>1. CASE EndAction
  <2>1. at' = "idle"
    BY <1>1, EndActionReturns DEF Return, Goto
  <2> QED BY <2>1 DEF Interrupts
<1>2. CASE \/ XNC8 \/ XANDCC \/ BSR \/ LBSR \/ JSR \/ PSHS \/ PSHU \/ PULS \/ PULU
           \/ RTS \/ RTI \/ SYNC \/ SYNC_WAIT
  <2>1. at' \in {"COM8", "NEG8", "ANDCC", "GOTO_SUBROUTINE", "PUSH_REGISTERS",
                 "PULL_REGISTERS", "SYNC_WAIT", "idle"}
    BY <1>2 DEF XNC8, XANDCC, BSR, LBSR, JSR, PSHS, PSHU, Push, PULS, PULU, Pull, RTS, RTI,
         SYNC, SYNC_WAIT, Goto, Return, Suspend
  <2> QED BY <2>1 DEF Interrupts
<1>3. CASE DISPATCH01 \/ DISPATCH10 \/ DISPATCH11
  <2>1. \/ at' \in Calls
        \/ at' \in Immediate \cup WithOperand \cup Inherent
    BY <1>3, DispatchLeads
  <2> QED BY <2>1 DEF Interrupts, Immediate, Inherent, Calls, Alu8Ops, Alu16Ops, WithOperand,
                      RmwOps
<1> QED BY <1>1, <1>2, <1>3

LEMMA SharedNests ==
  ASSUME CoreInv, CoreInv', ResumeInv, NestInv, MasksKept, Step, SharedSoftwareInterrupt
  PROVE  NestInv'
<1>1. /\ at \in {"SWI2", "SWI3"} /\ at' = "SOFTWARE_INTERRUPT" /\ stack' = stack
      /\ ea' = VectorOf[at] /\ Nested
  BY DEF SharedSoftwareInterrupt, Goto, NestInv
<1>2. stack = <<>> /\ ~returning /\ saved' = saved
  BY <1>1, NoFrame DEF CoreInv, ControlOK, Calls, ResumeInv, Step, PushesFrame, PullsFrame
<1>3. ~Ending(at, stack)
  BY <1>1 DEF Ending, AfterPush
<1>4. Nested'
  BY <1>1, <1>2, <1>3, MasksStay, NestedStays
<1>5. \A j : stack' # <<j>>
  BY <1>1, <1>2
<1>6. at' \notin Interrupts \cup AfterPush \cup {"PUSH_REGISTERS", "INTERRUPT_VECTOR",
                                              "idle", "CWAI_WAIT"}
  BY <1>1 DEF Interrupts, AfterPush
<1>7. ea' \in SharedVectors
  BY <1>1 DEF SharedVectors
<1>8. Arriving'
  BY <1>5, <1>6, <1>7 DEF Arriving
<1> QED BY <1>4, <1>8 DEF NestInv

LEMMA StepNests ==
  ASSUME CoreInv, CoreInv', FrameInv, ResumeInv, NestInv, MasksKept, CallsUpward, Step
  PROVE  NestInv'
<1>1. CASE MAIN
  BY <1>1, MainNests
<1>2. CASE SharedSoftwareInterrupt
  BY <1>2, SharedNests
<1>3. CASE SoftwareInterrupt \/ CWAI \/ InterruptEntry
  BY <1>3, CallsNest
<1>4. CASE SWI_PUSHED \/ PUSHED \/ CWAI_WAIT \/ InterruptPushed
  BY <1>4, ArrivalsNest
<1>5. CASE INTERRUPT_VECTOR
  BY <1>5, VectorNests
<1>6. CASE PUSH_REGISTERS
  <2>1. at = "PUSH_REGISTERS" /\ at' = "idle" /\ stack' = stack
    BY <1>6 DEF PUSH_REGISTERS, Return, Goto
  <2>2. CASE stack = <<>>
    <3>1. saved' = saved /\ ~returning
      BY <2>1, <2>2 DEF Step, PushesFrame, PullsFrame, ResumeInv
    <3>2. Quiet(at, stack)' /\ ~Ending(at, stack)
      BY <2>1, <2>2, FrameNames DEF Quiet, Ending
    <3>3. at' \notin Interrupts \cup {"SOFTWARE_INTERRUPT"}
      BY <2>1 DEF Interrupts
    <3> QED BY <3>1, <3>2, <3>3, QuietNests
  <2>3. CASE stack # <<>>
    <3>1. PICK l \in AfterPush : stack = <<l>>
      BY <2>1, <2>3, FrameNames DEF CoreInv, ControlOK, StackDiscipline, Calls
    <3> QED BY <1>6, <3>1, PushNests
  <2> QED BY <2>2, <2>3
<1>7. CASE \/ EndAction
           \/ XNC8 \/ XANDCC \/ BSR \/ LBSR \/ JSR \/ PSHS \/ PSHU \/ PULS \/ PULU
           \/ RTS \/ RTI \/ SYNC \/ SYNC_WAIT
           \/ DISPATCH01 \/ DISPATCH10 \/ DISPATCH11
  <2>1. Quiet(at, stack) /\ Quiet(at, stack)'
    BY <1>7, EndIsQuiet, JumpIsQuiet, DispatchIsQuiet
  <2>2. at' \notin Interrupts \cup {"SOFTWARE_INTERRUPT"}
    BY <1>7, QuietLabels
  <2>3. ~PushesFrame /\ at # "INTERRUPT_VECTOR"
    <3>1. at # "INTERRUPT_VECTOR"
      BY <2>1 DEF Quiet, Ending
    <3>2. ASSUME PushesFrame PROVE FALSE
      <4>1. at = "PUSH_REGISTERS" /\ stack # <<>> /\ Head(stack) \in AfterPush
        BY <3>2 DEF PushesFrame
      <4>2. PICK l \in AfterPush : stack = <<l>>
        BY <4>1, FrameNames DEF CoreInv, ControlOK, StackDiscipline, Calls
      <4> QED BY <2>1, <4>1, <4>2 DEF Quiet
    <3> QED BY <3>1, <3>2
  <2>4. CASE PullsFrame /\ saved # <<>>
    <3>1. PULL_REGISTERS /\ returning /\ saved' = Tail(saved)
      BY <2>3, <2>4, FrameLabels DEF Step, PullsFrame
    <3> QED BY <2>4, <3>1, PullNests
  <2>5. CASE ~(PullsFrame /\ saved # <<>>)
    <3>1. saved' = saved
      BY <2>3, <2>5 DEF Step
    <3>2. returning => saved = <<>>
      BY <2>5 DEF ResumeInv, PullsFrame
    <3> QED BY <2>1, <2>2, <3>1, <3>2, QuietNests DEF Quiet
  <2> QED BY <2>4, <2>5
<1> QED BY <1>1, <1>2, <1>3, <1>4, <1>5, <1>6, <1>7
        DEF Step, AnyInstruction, Instruction, EndAction

LEMMA OthersNest ==
  ASSUME CoreInv, CoreInv', ResumeInv, NestInv,
         (\E l \in Lines : Raise(l) \/ Lower(l)) \/ Execute
  PROVE  NestInv'
<1>1. at = "idle" /\ UNCHANGED <<saved, ea, cc, returning>> /\ Nested /\ Arriving
  BY DEF Raise, Lower, Execute, latches, programVars, NestInv
<1>2. Newest' = Newest /\ Second' = Second
  BY <1>1 DEF Newest, Second
<1>3. CASE UNCHANGED <<at, stack>>
  BY <1>1, <1>2, <1>3 DEF NestInv, Nested, NestedByPriority, Arriving, Brings
<1>4. CASE Execute
  <2>1. Masks(Newest) \subseteq cc \/ returning
    BY <1>1 DEF Nested
  <2>2. CASE stack = <<>>
    <3>1. at' = "MAIN" /\ stack' = <<>>
      BY <1>4, <2>2 DEF Execute
    <3>2. Quiet(at, stack)' /\ ~Ending(at, stack)
      BY <1>1, <2>2, <3>1 DEF Quiet, Ending, AfterPush
    <3>3. Nested'
      BY <1>1, <2>1, <3>2, NestedStays
    <3>4. Arriving'
      BY <3>1, <3>2, QuietArrives DEF Interrupts
    <3> QED BY <3>3, <3>4 DEF NestInv
  <2>3. CASE stack # <<>>
    <3>1. PICK l \in WithOperand \cup AfterPush \cup {"SYNC_WAIT"} : stack = <<l>>
      BY <1>1, <2>3 DEF CoreInv, ControlOK, StackDiscipline
    <3>2. at' = l /\ stack' = <<>>
      BY <1>4, <3>1 DEF Execute
    <3>3. \A j : stack' # <<j>>
      BY <3>2
    <3>4. CASE l \in AfterPush
      <4>1. Ending(at, stack)'
        BY <3>2, <3>4 DEF Ending
      <4>2. Nested'
        BY <1>1, <2>1, <4>1, NestedStays
      <4>3. at' \notin Interrupts \cup {"PUSH_REGISTERS", "INTERRUPT_VECTOR", "idle",
                                        "SOFTWARE_INTERRUPT"}
        BY <3>2, <3>4 DEF Interrupts, AfterPush
      <4>4. Above(l, Second) /\ Brings(l)' /\ (l = "CWAI_WAIT" => Masks(Second) \subseteq cc)
        BY <1>1, <3>1, <3>4 DEF Arriving, Brings
      <4>5. Arriving'
        BY <1>1, <1>2, <3>2, <3>3, <4>3, <4>4 DEF Arriving
      <4> QED BY <4>2, <4>5 DEF NestInv
    <3>5. CASE l \notin AfterPush
      <4>1. ~Ending(at, stack)
        BY <1>1, <3>1, <3>5, FrameNames DEF Ending
      <4>2. Nested'
        BY <1>1, <2>1, <4>1, NestedStays
      <4>3. Quiet(at, stack)'
        BY <3>1, <3>2, <3>3, <3>5, FrameNames DEF Quiet, Ending
      <4>4. at' \notin Interrupts \cup {"SOFTWARE_INTERRUPT"}
        BY <3>1, <3>2, <3>5 DEF Interrupts, WithOperand, RmwOps, Alu8Ops, Alu16Ops
      <4> QED BY <4>2, <4>3, <4>4, QuietArrives DEF NestInv
    <3> QED BY <3>4, <3>5
  <2> QED BY <2>2, <2>3
<1>5. UNCHANGED <<at, stack>> \/ Execute
  BY DEF Raise, Lower
<1> QED BY <1>3, <1>4, <1>5

LEMMA NextNests ==
  CoreInv /\ CoreInv' /\ FrameInv /\ ResumeInv /\ NestInv /\ [MasksKept]_vars /\ CallsUpward
    /\ [Next]_vars => NestInv'
<1> SUFFICES ASSUME CoreInv, CoreInv', FrameInv, ResumeInv, NestInv, [MasksKept]_vars,
                    CallsUpward, [Next]_vars
             PROVE  NestInv'
  OBVIOUS
<1>1. CASE UNCHANGED vars
  <2>1. UNCHANGED <<at, stack, saved, ea, cc, returning>>
    BY <1>1 DEF vars, coreVars, latches, programVars
  <2>2. Newest' = Newest /\ Second' = Second
    BY <2>1 DEF Newest, Second
  <2> QED BY <2>1, <2>2 DEF NestInv, Nested, NestedByPriority, Arriving, Brings
<1>2. CASE MasksKept /\ Next
  BY <1>2, StepNests, OthersNest DEF Next
<1> QED BY <1>1, <1>2

(***************************************************************************)
(* Handlers are nested by priority: for every program whose handlers keep  *)
(* their masks and the frames, return with S at the frame and make no      *)
(* software interrupt of a lower rank, an IRQ handler is interrupted by    *)
(* FIRQ, NMI and SWI, and a FIRQ or SWI handler by NMI only, whatever the  *)
(* lines do, also when the interrupt was awaited by CWAI.                  *)
(***************************************************************************)
THEOREM HandlersNestByPriority ==
  Spec /\ [][FramesKept /\ MasksKept]_vars /\ [](ReturnsToFrame /\ CallsUpward)
    => []NestedByPriority
<1>1. ProgramInit => NestInv
  <2> SUFFICES ASSUME ProgramInit PROVE NestInv
    OBVIOUS
  <2>1. saved = <<>> /\ at = "idle" /\ stack = <<>>
    BY DEF ProgramInit
  <2>2. DOMAIN saved = {} /\ 1..(Len(saved) - 1) = {} /\ Newest = 0 /\ \A j : stack # <<j>>
    BY <2>1 DEF Newest
  <2>3. Nested
    BY <2>2, RanksAre DEF Nested, NestedByPriority
  <2>4. at \notin Interrupts \cup AfterPush \cup {"SOFTWARE_INTERRUPT", "INTERRUPT_VECTOR",
                                               "PUSH_REGISTERS", "CWAI_WAIT"}
    BY <2>1, FrameNames DEF Interrupts
  <2>5. Arriving
    BY <2>2, <2>4 DEF Arriving
  <2> QED BY <2>3, <2>5 DEF NestInv
<1>2. Spec => []CoreInv /\ []FrameInv
  BY Inductive, FramesInvariant
<1>3. Spec /\ [][FramesKept]_vars /\ []ReturnsToFrame => []ResumeInv
  BY ResumeInvariant
<1>4. [FramesKept /\ MasksKept]_vars => [FramesKept]_vars /\ [MasksKept]_vars
  OBVIOUS
<1>5. NestInv => NestedByPriority
  BY DEF NestInv, Nested
<1>6. ReturnsToFrame /\ CallsUpward => ReturnsToFrame
  OBVIOUS
<1> QED BY <1>1, <1>2, <1>3, <1>4, <1>5, NextNests, PTL DEF Spec
=============================================================================
