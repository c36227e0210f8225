---------------------------- MODULE M6809Listing ----------------------------
(***************************************************************************)
(* The control flow of m6809.lst and base6x09.lst: which label goes to, or *)
(* calls, which, and the numbers that m6809make.py gives to the places     *)
(* where execute_one() can be entered.                                     *)
(***************************************************************************)
EXTENDS M6809Dispatch, Sequences

Entries ==
  [DISPATCH01 |-> {Page1(o) : o \in Byte},
   DISPATCH10 |-> {Page10(o) : o \in Byte},
   DISPATCH11 |-> {Page11(o) : o \in Byte}]

\* An entry without an operand in memory, or with one: "goto" and "%".
DispatchJumps(l) == {e.body : e \in {f \in Entries[l] : f.addr \notin Calls}}
DispatchCalls(l) == {<<e.addr, e.body>> : e \in {f \in Entries[l] : f.addr \in Calls}}

JumpsOf ==
  [l \in Labels |->
     CASE l \in DOMAIN Entries -> DispatchJumps(l)
       [] l = "MAIN" -> {"DISPATCH01", "NMI", "FIRQ", "IRQ"}
       [] l = "XNC8" -> {"COM8", "NEG8"}
       [] l = "XANDCC" -> {"ANDCC"}
       [] l \in {"BSR", "LBSR", "JSR"} -> {"GOTO_SUBROUTINE"}
       [] l \in {"PSHS", "PSHU"} -> {"PUSH_REGISTERS"}
       [] l \in {"PULS", "PULU", "RTS", "RTI"} -> {"PULL_REGISTERS"}
       [] l \in {"SWI2", "SWI3"} -> {"SOFTWARE_INTERRUPT"}
       [] l = "SYNC" -> {"SYNC_WAIT"}
       [] l \in AfterPush -> {"INTERRUPT_VECTOR"}
       [] OTHER -> {}]

\* The code behind the "%PUSH_REGISTERS;" of a label.
Behind ==
  [SWI |-> "SWI_PUSHED", SOFTWARE_INTERRUPT |-> "PUSHED", XRES |-> "PUSHED",
   XSWI2 |-> "PUSHED", XFIRQ |-> "PUSHED", CWAI |-> "CWAI_WAIT",
   NMI |-> "NMI_PUSHED", FIRQ |-> "FIRQ_PUSHED", IRQ |-> "IRQ_PUSHED"]

CalleesOf ==
  [l \in Labels |->
     CASE l \in DOMAIN Entries -> DispatchCalls(l)
       [] l \in DOMAIN Behind -> {<<"PUSH_REGISTERS", Behind[l]>>}
       [] OTHER -> {}]

WaitLabels == {"SYNC_WAIT", "CWAI_WAIT"}
EndLabels  == {l \in Labels : JumpsOf[l] = {} /\ CalleesOf[l] = {}}

-----------------------------------------------------------------------------
(***************************************************************************)
(* The numbers, in the order in which the script meets the lines they      *)
(* stand for: "check" is the place behind an "@" line, "enter" a label     *)
(* that is pushed, "behind" the code behind a "%".                         *)
(***************************************************************************)
Checks(label, n) == [k \in 1..n |-> [label |-> label, kind |-> "check"]]
Behinds(label)   == <<[label |-> label, kind |-> "behind"]>>
Enters(labels)   == [k \in DOMAIN labels |-> [label |-> labels[k], kind |-> "enter"]]

NumberedDispatch ==
  Enters(<<"MAIN", "INTERRUPT_VECTOR">>) \o Checks("DISPATCH01", 1)
    \o Enters(<<"NEG8", "XNC8", "COM8", "LSR8", "ROR8", "ASR8", "ASL8", "ROL8", "DEC8",
                "XDEC8", "INC8", "TST8", "JMP", "CLR8", "LEA_xy", "LEA_us", "SUB8",
                "CMP8", "SBC8", "SUB16", "AND8", "BIT8", "LD8", "ST8", "EOR8", "ADC8",
                "OR8", "ADD8", "CMP16", "JSR", "LD16", "ST16", "ADD16">>)
    \o Checks("DISPATCH10", 1) \o Enters(<<"XADD16">>) \o Checks("DISPATCH11", 1)

NumberedInterrupts ==
  Checks("NMI", 3) \o Behinds("NMI_PUSHED") \o Checks("FIRQ", 3) \o Behinds("FIRQ_PUSHED")
    \o Checks("IRQ", 3) \o Behinds("IRQ_PUSHED") \o Checks("INTERRUPT_VECTOR", 3)

NumberedOperations ==
  Checks("NEG8", 2) \o Checks("COM8", 2) \o Checks("LSR8", 2) \o Checks("ROR8", 2)
    \o Checks("ASR8", 2) \o Checks("ASL8", 2) \o Checks("ROL8", 2) \o Checks("DEC8", 2)
    \o Checks("INC8", 2) \o Checks("TST8", 3) \o Checks("CLR8", 2)
    \o Checks("unused", 26)   \* NEG16 .. CLR16, dispatched by the 6309 only
    \o Checks("ADD16", 3) \o Checks("SUB16", 3) \o Checks("CMP16", 3)
    \o Checks("LD16", 2) \o Checks("ST16", 2) \o Checks("NOP", 1)
    \o Checks("SYNC", 1) \o Checks("SYNC_WAIT", 1) \o Checks("DAA", 1)
    \o Checks("ORCC", 1) \o Checks("ANDCC", 1) \o Checks("SEX", 1)
    \o Checks("BRANCH", 2) \o Checks("LBRANCH", 4) \o Checks("BSR", 2)
    \o Checks("LBSR", 3) \o Checks("JSR", 2) \o Checks("GOTO_SUBROUTINE", 2)
    \o Checks("RTS", 1) \o Checks("ABX", 2) \o Checks("MUL", 1) \o Checks("RTI", 2)
    \o Checks("CWAI", 3) \o Behinds("CWAI_WAIT") \o Checks("CWAI_WAIT", 1)
    \o Checks("PSHS", 3) \o Checks("PULS", 2) \o Checks("PSHU", 3) \o Checks("PULU", 2)
    \o Checks("SWI", 2) \o Behinds("SWI_PUSHED")
    \o Checks("SOFTWARE_INTERRUPT", 2) \o Behinds("PUSHED")

NumberedRest ==
  Checks("DIRECT", 2) \o Checks("EXTENDED", 3)
    \o Checks("PUSH_REGISTERS", 12) \o Checks("PULL_REGISTERS", 12) \o Checks("INDEXED", 35)
    \o Checks("X18", 1) \o Checks("XANDCC", 1)
    \o Checks("XRES", 2) \o Behinds("PUSHED") \o Checks("XDEC8", 2) \o Checks("XCLR8", 2)
    \o Checks("XST8", 1) \o Checks("XSWI2", 2) \o Behinds("PUSHED")
    \o Checks("XADD16", 3) \o Checks("XFIRQ", 2) \o Behinds("PUSHED")

Numbered ==
  NumberedDispatch \o NumberedInterrupts \o NumberedOperations \o NumberedRest

Numbers        == 0..(Len(Numbered) - 1)
StateOwner     == [n \in Numbers |-> Numbered[n + 1].label]
InteriorStates == {n \in Numbers : Numbered[n + 1].kind = "check"}

\* Labels that can leave out some of their "@" lines.
ConditionalLabels == {"TST8", "LBRANCH", "INDEXED", "PUSH_REGISTERS", "PULL_REGISTERS"}
=============================================================================
