--------------------------- MODULE M6809Dispatch ---------------------------
(***************************************************************************)
(* The labels of the core and the dispatch tables of its three pages, as   *)
(* constants: what m6809make.py compiles, without the state it works on.   *)
(***************************************************************************)
EXTENDS M6809Alu

(***************************************************************************)
(* The dispatch tables of the three pages.  An entry says which register   *)
(* regop is set to ("-": it is left alone), how the operand is addressed   *)
(* and which label executes the instruction.                               *)
(***************************************************************************)
Entry(r, addr, body) == [regop |-> r, addr |-> addr, body |-> body]

Calls == {"DIRECT", "INDEXED", "EXTENDED"}    \* addressing modes with a label
QuadAddr(opcode) == <<"imm", "DIRECT", "INDEXED", "EXTENDED">>[1 + (Row(opcode) % 4)]

\* Store is the imm column's XST16 or the other columns' ST16.
Store16(opcode) == IF Row(opcode) % 4 = 0 THEN "XST16" ELSE "ST16"

RmwEntry(opcode) ==
  LET r == Row(opcode)
      addr == CASE r = 0 -> "DIRECT"  [] r = 4 -> "a"  [] r = 5 -> "b"
                [] r = 6 -> "INDEXED" [] r = 7 -> "EXTENDED"
      body == <<"NEG8", "NEG8", "XNC8", "COM8", "LSR8", "LSR8", "ROR8", "ASR8",
                "ASL8", "ROL8", "DEC8", "XDEC8", "INC8", "TST8",
                IF r \in {4, 5} THEN "XCLR8" ELSE "JMP", "CLR8">>
  IN  Entry("-", addr, body[Col(opcode) + 1])

Row1Entry(opcode) ==
  LET body == <<"DISPATCH10", "DISPATCH11", "NOP", "SYNC", "FREERUN", "FREERUN",
                "LBRANCH", "LBSR", "X18", "DAA", "ORCC", "NOP", "ANDCC", "SEX",
                "EXG", "TFR">>
  IN  Entry("-", IF opcode \in {\h1A, \h1C} THEN "imm" ELSE "-", body[Col(opcode) + 1])

Row3Entry(opcode) ==
  LET body == <<"LEA_xy", "LEA_xy", "LEA_us", "LEA_us", "PSHS", "PULS", "PSHU",
                "PULU", "XANDCC", "RTS", "ABX", "RTI", "CWAI", "MUL", "XRES", "SWI">>
      addr == IF Col(opcode) <= 3 THEN "INDEXED"
              ELSE IF opcode = \h38 THEN "imm" ELSE "-"
      r == IF Col(opcode) <= 3 THEN <<"x", "y", "s", "u">>[Col(opcode) + 1] ELSE "-"
  IN  Entry(r, addr, body[Col(opcode) + 1])

\* Rows 8 to B work on A, D and X, rows C to F on B, D and U.
AccumulatorEntry(opcode) ==
  LET c == Col(opcode)
      onA == Row(opcode) < 12
      imm == Row(opcode) % 4 = 0
      addr == QuadAddr(opcode)
      body8 == <<"SUB8", "CMP8", "SBC8", "-", "AND8", "BIT8", "LD8",
                 IF imm THEN "XST8" ELSE "ST8", "EOR8", "ADC8", "OR8", "ADD8">>
  IN  CASE c = 3  -> Entry("d", addr, IF onA THEN "SUB16" ELSE "ADD16")
        [] c = 12 -> IF onA THEN Entry("x", addr, "CMP16") ELSE Entry("d", addr, "LD16")
        [] c = 13 /\ imm  -> Entry("-", "-", IF onA THEN "BSR" ELSE "FREERUN")
        [] c = 13 /\ ~imm -> IF onA THEN Entry("-", addr, "JSR")
                             ELSE Entry("d", addr, "ST16")
        [] c = 14 -> Entry(IF onA THEN "x" ELSE "u", addr, "LD16")
        [] c = 15 -> Entry(IF onA THEN "x" ELSE "u", addr, Store16(opcode))
        [] c \notin {3, 12, 13, 14, 15} ->
             Entry(IF onA THEN "a" ELSE "b", addr, body8[c + 1])

Page1(opcode) ==
  LET r == Row(opcode)
  IN  CASE r \in {0, 4, 5, 6, 7} -> RmwEntry(opcode)
        [] r = 1 -> Row1Entry(opcode)
        [] r = 2 -> Entry("-", "-", "BRANCH")
        [] r = 3 -> Row3Entry(opcode)
        [] r >= 8 -> AccumulatorEntry(opcode)

\* An opcode that a prefixed page does not list is dispatched as if it had
\* no prefix, after one more fetch.
Page10(opcode) ==
  LET addr == QuadAddr(opcode)
  IN  CASE opcode \in {\h10, \h11} -> Entry("-", "-", "DISPATCH10")
        [] opcode \in \h20..\h2F -> Entry("-", "-", "LBRANCH")
        [] opcode = \h3E -> Entry("-", "-", "XSWI2")
        [] opcode = \h3F -> Entry("-", "-", "SWI2")
        [] opcode \in Quad(\h83) -> Entry("d", addr, "CMP16")
        [] opcode \in Quad(\h8C) -> Entry("y", addr, "CMP16")
        [] opcode \in Quad(\h8E) -> Entry("y", addr, "LD16")
        [] opcode \in Quad(\h8F) -> Entry("y", addr, Store16(opcode))
        [] opcode = \h87 -> Entry("a", "imm", "XST8")
        [] opcode = \hC7 -> Entry("b", "imm", "XST8")
        [] opcode \in Quad(\hC3) -> Entry("d", addr, "XADD16")
        [] opcode \in Quad(\hCE) -> Entry("s", addr, "LD16")
        [] opcode \in Quad(\hCF) -> Entry("s", addr, Store16(opcode))
        [] OTHER -> Entry("-", "-", "DISPATCH01")

Page11(opcode) ==
  LET addr == QuadAddr(opcode)
  IN  CASE opcode \in {\h10, \h11} -> Entry("-", "-", "DISPATCH11")
        [] opcode = \h3E -> Entry("-", "-", "XFIRQ")
        [] opcode = \h3F -> Entry("-", "-", "SWI3")
        [] opcode \in Quad(\h83) -> Entry("u", addr, "CMP16")
        [] opcode \in Quad(\h8C) -> Entry("s", addr, "CMP16")
        [] opcode = \h87 -> Entry("a", "imm", "XST8")
        [] opcode = \hC7 -> Entry("b", "imm", "XST8")
        [] opcode = \h8F -> Entry("x", "imm", "XST16")
        [] opcode = \hCF -> Entry("u", "imm", "XST16")
        [] opcode \in Quad(\hC3) -> Entry("u", addr, "XADD16")
        [] OTHER -> Entry("-", "-", "DISPATCH01")

-----------------------------------------------------------------------------
(***************************************************************************)
(* The labels, by how they are reached: addressing labels are called in    *)
(* front of an instruction, which waits on the stack; the push of the      *)
(* registers is called in front of the end of an interrupt.                *)
(***************************************************************************)
\* Instructions that are dispatched behind an addressing label.
WithOperand ==
  RmwOps \cup Alu8Ops \cup Alu16Ops
    \cup {"XNC8", "TST8", "JMP", "JSR", "ST8", "ST16", "LEA_xy", "LEA_us"}

\* The code behind the push of the registers in each kind of interrupt.
AfterPush == {"SWI_PUSHED", "PUSHED", "NMI_PUSHED", "FIRQ_PUSHED", "IRQ_PUSHED",
              "CWAI_WAIT"}

Labels ==
  Calls \cup WithOperand \cup AfterPush
    \cup {"MAIN", "DISPATCH01", "DISPATCH10", "DISPATCH11", "XST8", "XST16",
          "NOP", "SYNC", "SYNC_WAIT", "DAA", "SEX", "ABX", "MUL", "ORCC", "ANDCC",
          "XANDCC", "X18", "FREERUN", "EXG", "TFR", "BRANCH", "LBRANCH", "BSR",
          "LBSR", "GOTO_SUBROUTINE", "PUSH_REGISTERS", "PULL_REGISTERS", "PSHS",
          "PSHU", "PULS", "PULU", "RTS", "RTI", "CWAI", "SWI", "SWI2", "SWI3",
          "SOFTWARE_INTERRUPT", "XRES", "XSWI2", "XFIRQ", "NMI", "FIRQ", "IRQ",
          "INTERRUPT_VECTOR"}
=============================================================================
